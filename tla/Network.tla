------------------------------- MODULE Network -------------------------------
(***************************************************************************)
(* The e1000 driver of network.c after network_init: the receive ring    *)
(* (rxinit, handleReceive) and the transmit path (sendPacket), the        *)
(* interrupt handler fire, and the system calls on top of them:           *)
(* sys_net_package (get_package) and sys_getip (get_ip, the DHCP          *)
(* discover/offer/request exchange).                                       *)
(*                                                                         *)
(* The NIC and the network are the environment.  The NIC owns the receive *)
(* descriptors from RDH up to RDT - 1; it DMAs a packet into the buffer  *)
(* of the descriptor at RDH, then writes the descriptor back with its DD  *)
(* bit, advances RDH and raises RXT0 in ICR, and RXDMT0 when the free     *)
(* descriptors fall to half the ring (RDMTS_HALF); with none free it drops *)
(* the packet and raises RXO.  rxinit gives every descriptor the same     *)
(* buffer e1000_rx_temp, so rxTemp is one buffer: the last packet written *)
(* there (pkt), and the last one long enough to reach bytes 278-279       *)
(* (cookie).  A descriptor's pkt stands for its length field.             *)
(*                                                                         *)
(* cpu is the interrupted context: "user" (between system calls, IF set), *)
(* "spin" (get_ip's wait after its sti) or "hung" (a fault in the         *)
(* interrupt handler, which returns to the faulting instruction).  hpc is *)
(* "rx" while handleReceive's loop runs, with interrupts off.  A system  *)
(* call runs with interrupts off (interrupt gate) and is one step.        *)
(*                                                                         *)
(* sendPacket fills the descriptor at tx_cur, bumps TDT and spins until  *)
(* the NIC sets DD.  Both callers run with interrupts off and never nest, *)
(* so one transmit descriptor is ever outstanding and its index changes  *)
(* nothing: a send is one step that puts the frame on the wire (out) and  *)
(* raises TXDW.  The wire may lose, delay, duplicate and reorder frames.  *)
(***************************************************************************)
EXTENDS Integers, FiniteSets

CONSTANTS
    NumRx,         \* E1000_NUM_RX_DESC
    MaxCalls,      \* bound on get_ip calls
    MaxEvents,     \* bound on packets arriving and link changes
    Foreign,       \* kinds of other hosts' traffic the promiscuous NIC sees
    ReallocFails   \* whether the heap may be full when handleReceive reallocs

ASSUME NumRx >= 2 /\ Foreign \subseteq {"dhcp", "data"} /\ ReallocFails \in BOOLEAN

VARIABLES
    rxDesc,    \* rx_descs[i]: DD status bit and the packet its length is of
    rxTemp,    \* e1000_rx_temp
    rdh, rdt,  \* the NIC's RDH and the RDT register
    rxCur,     \* pointer->rx_cur
    icr,       \* the interrupt causes pending in ICR
    pkgData,   \* what package_buf holds
    bufNull,   \* whether package_buf is NULL
    pkgLen,    \* package_len, as the packet it is the length of
    sendDhcp,  \* SEND_DHCP
    ip,        \* ip[], as the packet its bytes came from
    out,       \* frames sent so far
    calls,     \* get_ip calls made
    cpu, hpc, events,
    nicPkt     \* the packet the NIC is writing into e1000_rx_temp, before its DD

vars == <<rxDesc, rxTemp, rdh, rdt, rxCur, icr, pkgData, bufNull, pkgLen, sendDhcp, ip,
          out, calls, cpu, hpc, events, nicPkt>>

Ring == 0 .. NumRx - 1
NoPkt == [kind |-> "none", call |-> 0]

\* Frames on the wire: our own, and those of a DHCP server and other hosts.
Pkts == [kind : {"offer", "ack"}, call : 1 .. MaxCalls] \cup [kind : Foreign, call : {0}]
Frames == [kind : {"discover", "request"}, call : 0 .. MaxCalls]

\* Every DHCP frame is longer than 280 bytes and has the magic cookie
\* 0x63 0x82 at 278-279; the other traffic is short.
IsDhcp(p) == p.kind \in {"offer", "ack", "dhcp"}

\* The descriptors the NIC may still fill.
NicFree(h, t) == (t - h) % NumRx

-----------------------------------------------------------------------------
(* Driver *)

\* rxinit: every descriptor's buffer is e1000_rx_temp, status 0; RDH 0
\* (reset), RDT E1000_NUM_RX_DESC - 1, rx_cur 0.
RxInit ==
    /\ rxDesc = [i \in Ring |-> [dd |-> FALSE, pkt |-> NoPkt]]
    /\ rdh = 0
    /\ rdt = NumRx - 1
    /\ rxCur = 0

\* net_start: package_buf = malloc(1024), interrupts enabled with ICR read
\* (cleared), rxinit, txinit.
Init ==
    /\ RxInit
    /\ rxTemp = [pkt |-> NoPkt, cookie |-> NoPkt]
    /\ icr = {}
    /\ pkgData = NoPkt /\ bufNull = FALSE /\ pkgLen = NoPkt
    /\ sendDhcp = 0 /\ ip = NoPkt
    /\ out = {} /\ calls = 0
    /\ cpu = "user" /\ hpc = "idle" /\ events = 0 /\ nicPkt = NoPkt

\* sendPacket: the frame goes out; the NIC's write-back raises TXDW.
SendPacket(f) ==
    /\ out' = out \cup {f}
    /\ icr' = icr \cup {"TXDW"}

\* send_dhcp_discover: the fixed discover frame in c, sent.
SendDhcpDiscover(c) == SendPacket([kind |-> "discover", call |-> c])

\* send_dhcp_request: the request for the offered address in ip, sent;
\* then SEND_DHCP = 1.
SendDhcpRequest(offer) ==
    /\ SendPacket([kind |-> "request", call |-> offer.call])
    /\ sendDhcp' = 1

(***************************************************************************)
(* fire: read ICR (which clears it), then one branch of an else-if chain: *)
(* link status change, then minimum threshold, then receive timer; only   *)
(* the last calls handleReceive.                                           *)
(***************************************************************************)
Fire ==
    /\ cpu \in {"user", "spin"}
    /\ hpc = "idle"
    /\ icr # {}
    /\ icr' = {}
    /\ hpc' = IF "LSC" \notin icr /\ "RXDMT0" \notin icr /\ "RXT0" \in icr
              THEN "rx" ELSE "idle"
    /\ UNCHANGED <<rxDesc, rxTemp, rdh, rdt, rxCur, pkgData, bufNull, pkgLen, sendDhcp, ip,
                   out, calls, cpu, events, nicPkt>>

\* Mutant: rx_cur advanced without the wrap at E1000_NUM_RX_DESC.
RxReleaseNoWrap ==
    /\ rxDesc' = [rxDesc EXCEPT ![rxCur].dd = FALSE]
    /\ rxCur' = rxCur + 1
    /\ rdt' = rxCur

\* Mutant: RDT written with the advanced rx_cur, not old_cur.
RxReleaseTailCur ==
    /\ rxDesc' = [rxDesc EXCEPT ![rxCur].dd = FALSE]
    /\ rxCur' = (rxCur + 1) % NumRx
    /\ rdt' = (rxCur + 1) % NumRx

\* The end of a turn: status = 0, rx_cur advances, RDT = old_cur.
RxRelease ==
    /\ rxDesc' = [rxDesc EXCEPT ![rxCur].dd = FALSE]
    /\ rxCur' = (rxCur + 1) % NumRx
    /\ rdt' = rxCur

(***************************************************************************)
(* One turn of handleReceive's loop, at the descriptor at rx_cur:        *)
(* package_len = its length; package_buf = realloc(package_buf, len).    *)
(* realloc allocates first and returns NULL when the heap is full; the    *)
(* old buffer is then leaked, and memcpy copies the packet to address 0,  *)
(* which setup_utility_page maps for the kernel, so nothing faults.  When *)
(* the allocation succeeds and package_buf is NULL, realloc reads the     *)
(* header of NULL at 0xFFFFFFFC (malloc_info), which is not mapped: the   *)
(* page fault handler queues a signal and returns to the same load, and   *)
(* the CPU never leaves the handler.  Otherwise len bytes of              *)
(* e1000_rx_temp are copied.  If bytes 278-279 hold the DHCP cookie and   *)
(* SEND_DHCP is 0, ip is taken from bytes 58-61 and send_dhcp_request     *)
(* runs.  Then RxRelease.                                                  *)
(***************************************************************************)
HeapFullChoices == IF ReallocFails THEN BOOLEAN ELSE {FALSE}

RxTake ==
    /\ pkgLen' = rxDesc[rxCur].pkt
    /\ \E full \in HeapFullChoices :
       \/ /\ ~full /\ bufNull
          /\ cpu' = "hung"
          /\ UNCHANGED <<rxDesc, rxCur, rdt, icr, pkgData, bufNull, sendDhcp, ip,
                         out>>
       \/ /\ full \/ ~bufNull
          /\ bufNull' = full
          /\ pkgData' = rxTemp.pkt
          /\ IF rxTemp.cookie # NoPkt /\ sendDhcp = 0
             THEN /\ ip' = rxTemp.pkt
                  /\ SendDhcpRequest(rxTemp.pkt)
             ELSE UNCHANGED <<ip, sendDhcp, out, icr>>
          /\ RxRelease
          /\ UNCHANGED cpu
    /\ UNCHANGED <<rxTemp, rdh, calls, events, nicPkt>>

\* The loop goes on while the descriptor at rx_cur has DD set.
RxStep ==
    /\ hpc = "rx" /\ cpu # "hung"
    /\ rxDesc[rxCur].dd
    /\ RxTake
    /\ UNCHANGED hpc

\* The loop ends at the first descriptor without DD; fire returns.
RxEnd ==
    /\ hpc = "rx"
    /\ ~rxDesc[rxCur].dd
    /\ hpc' = "idle"
    /\ UNCHANGED <<rxDesc, rxTemp, rdh, rdt, rxCur, icr, pkgData, bufNull, pkgLen, sendDhcp,
                   ip, out, calls, cpu, events, nicPkt>>

HandleReceive == RxStep \/ RxEnd

\* get_package (sys_net_package): -1 while package_len is 0, else copy
\* (at most nbytes, which only clips the count) and set package_len = 0.
GetPackage ==
    /\ cpu = "user" /\ hpc = "idle"
    /\ pkgLen # NoPkt
    /\ pkgLen' = NoPkt
    /\ UNCHANGED <<rxDesc, rxTemp, rdh, rdt, rxCur, icr, pkgData, bufNull, sendDhcp, ip,
                   out, calls, cpu, hpc, events, nicPkt>>

\* get_ip (sys_getip): SEND_DHCP = 0, send the discover, sti, then wait.
GetIp ==
    /\ cpu = "user" /\ hpc = "idle"
    /\ calls < MaxCalls
    /\ calls' = calls + 1
    /\ sendDhcp' = 0
    /\ SendDhcpDiscover(calls + 1)
    /\ cpu' = "spin"
    /\ UNCHANGED <<rxDesc, rxTemp, rdh, rdt, rxCur, pkgData, bufNull, pkgLen, ip,
                   hpc, events, nicPkt>>

\* The wait ends with 0 once SEND_DHCP is set ...
GetIpDone ==
    /\ cpu = "spin" /\ hpc = "idle"
    /\ sendDhcp = 1
    /\ cpu' = "user"
    /\ UNCHANGED <<rxDesc, rxTemp, rdh, rdt, rxCur, icr, pkgData, bufNull, pkgLen, sendDhcp,
                   ip, out, calls, hpc, events, nicPkt>>

\* ... or with -1 once more than 1000 ms have passed with it still 0.
GetIpTimeout ==
    /\ cpu = "spin" /\ hpc = "idle"
    /\ sendDhcp = 0
    /\ cpu' = "user"
    /\ UNCHANGED <<rxDesc, rxTemp, rdh, rdt, rxCur, icr, pkgData, bufNull, pkgLen, sendDhcp,
                   ip, out, calls, hpc, events, nicPkt>>

-----------------------------------------------------------------------------
(* Environment: the NIC, the DHCP server and the other hosts *)

\* The frames that can arrive: the server's offer to each discover and ack
\* to each request it made an offer for, and other hosts' traffic.
Arrivable ==
    {p \in Pkts : \/ p.call = 0
                  \/ p.kind = "offer" /\ [kind |-> "discover", call |-> p.call] \in out
                  \/ p.kind = "ack" /\ [kind |-> "request", call |-> p.call] \in out}

(***************************************************************************)
(* A packet arrives.  With a descriptor free (RDH # RDT) the NIC first    *)
(* DMAs the frame into that descriptor's buffer, e1000_rx_temp, and only  *)
(* later writes the descriptor back (length, DD), advances RDH and raises *)
(* RXT0, and RXDMT0 when the free descriptors fall to half the ring; the  *)
(* driver may run in between.  With none free the packet is dropped and   *)
(* RXO raised.                                                             *)
(***************************************************************************)
NicDma(p) ==
    /\ events < MaxEvents /\ nicPkt = NoPkt
    /\ events' = events + 1
    /\ rdh # rdt
    /\ rxTemp' = [pkt |-> p, cookie |-> IF IsDhcp(p) THEN p ELSE rxTemp.cookie]
    /\ nicPkt' = p
    /\ UNCHANGED <<rxDesc, rdh, rdt, rxCur, icr, pkgData, bufNull, pkgLen, sendDhcp, ip,
                   out, calls, cpu, hpc>>

NicWriteBack ==
    /\ nicPkt # NoPkt
    /\ LET h == (rdh + 1) % NumRx
       IN  /\ rxDesc' = [rxDesc EXCEPT ![rdh] = [dd |-> TRUE, pkt |-> nicPkt]]
           /\ rdh' = h
           /\ icr' = icr \cup {"RXT0"}
                         \cup (IF NicFree(h, rdt) = NumRx \div 2 THEN {"RXDMT0"} ELSE {})
    /\ nicPkt' = NoPkt
    /\ UNCHANGED <<rxTemp, rdt, rxCur, pkgData, bufNull, pkgLen, sendDhcp, ip, out, calls,
                   cpu, hpc, events>>

NicDrop ==
    /\ events < MaxEvents /\ nicPkt = NoPkt
    /\ events' = events + 1
    /\ rdh = rdt
    /\ icr' = icr \cup {"RXO"}
    /\ UNCHANGED <<rxDesc, rxTemp, rdh, rdt, rxCur, pkgData, bufNull, pkgLen, sendDhcp, ip,
                   out, calls, cpu, hpc, nicPkt>>

LinkChange ==
    /\ events < MaxEvents
    /\ events' = events + 1
    /\ icr' = icr \cup {"LSC"}
    /\ UNCHANGED <<rxDesc, rxTemp, rdh, rdt, rxCur, pkgData, bufNull, pkgLen, sendDhcp, ip,
                   out, calls, cpu, hpc, nicPkt>>

Next ==
    \/ Fire \/ HandleReceive
    \/ GetPackage \/ GetIp \/ GetIpDone \/ GetIpTimeout
    \/ \E p \in Arrivable : NicDma(p)
    \/ NicWriteBack \/ NicDrop
    \/ LinkChange

(***************************************************************************)
(* The device raises its interrupt while ICR holds a cause, and the CPU   *)
(* takes it whenever interrupts are on, which they are in user mode and   *)
(* in get_ip's wait; handleReceive runs to its end with interrupts off.   *)
(***************************************************************************)
Spec == Init /\ [][Next]_vars /\ WF_vars(Fire) /\ WF_vars(HandleReceive)

-----------------------------------------------------------------------------

TypeOK ==
    /\ rxDesc \in [Ring -> [dd : BOOLEAN, pkt : Pkts \cup {NoPkt}]]
    /\ rxTemp \in [pkt : Pkts \cup {NoPkt}, cookie : Pkts \cup {NoPkt}]
    /\ rdh \in Ring /\ rdt \in Ring /\ rxCur \in Ring
    /\ icr \subseteq {"LSC", "RXDMT0", "RXT0", "RXO", "TXDW"}
    /\ pkgData \in Pkts \cup {NoPkt} /\ bufNull \in BOOLEAN
    /\ pkgLen \in Pkts \cup {NoPkt}
    /\ sendDhcp \in {0, 1}
    /\ ip \in Pkts \cup {NoPkt}
    /\ out \subseteq Frames
    /\ calls \in 0 .. MaxCalls
    /\ cpu \in {"user", "spin", "hung"} /\ hpc \in {"idle", "rx"}
    /\ nicPkt \in Pkts \cup {NoPkt}

(***************************************************************************)
(* The driver and the NIC agree on the receive ring: the descriptors with *)
(* DD set are exactly those from rx_cur up to the NIC's head, and RDT is  *)
(* the descriptor just before rx_cur.  So the NIC never writes over a     *)
(* packet handleReceive has not taken, and handleReceive never takes a    *)
(* descriptor the NIC has not filled.                                      *)
(***************************************************************************)
RxRingInSync ==
    /\ rdt = (rxCur - 1) % NumRx
    /\ \A i \in Ring :
          rxDesc[i].dd <=> (i - rxCur) % NumRx < (rdh - rxCur) % NumRx

(***************************************************************************)
(* sys_net_package hands over one received packet whole: the bytes in    *)
(* package_buf are those of the packet whose length is package_len.  Every*)
(* descriptor's buffer is e1000_rx_temp, and the NIC DMAs the next packet *)
(* there before it sets that packet's DD, so the last turn of             *)
(* handleReceive's loop can copy a packet whose descriptor it never sees, *)
(* with the length of the one before.  MCNetwork_PackageIntact.cfg shows  *)
(* it; the property is kept beside the runs.                               *)
(***************************************************************************)
PackageIntact ==
    [][pkgLen # NoPkt /\ pkgLen' = NoPkt => pkgData = pkgLen]_vars

(***************************************************************************)
(* What the driver promises its callers.  ip is only ever the address     *)
(* the server offered in reply to the discover of the current get_ip.     *)
(* A packet never makes the interrupt handler fault.  And every packet   *)
(* the NIC has written is eventually taken by handleReceive.              *)
(***************************************************************************)
IpFromOwnOffer ==
    [][ip' # ip => ip' = [kind |-> "offer", call |-> calls]]_vars
RxNeverFaults == [][cpu' # "hung"]_vars
RxEventuallyTaken == \A i \in Ring : rxDesc[i].dd ~> ~rxDesc[i].dd

NetContract == IpFromOwnOffer /\ RxNeverFaults /\ RxEventuallyTaken
=============================================================================
