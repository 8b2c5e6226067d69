------------------------------- MODULE XinuNet -------------------------------
(***************************************************************************)
(* The Xinu network port (network/) as it is built here: its threads are   *)
(* not spawned (xinu_compat.c), so one polling host calls its handlers one *)
(* after the other; mailboxes and buffer pool are xinu_compat.c's, which   *)
(* never block.  The device switch and the route table, stubs that answer  *)
(* SYSERR today, are external and answer anything; so is the clock, which  *)
(* nothing advances yet.                                                   *)
(***************************************************************************)
EXTENDS Naturals, Sequences, FiniteSets, FiniteSetsExt, SequencesExt, TLC

CONSTANTS
    Buf,                    \* the packet buffers of netpool
    Addr, Hw,               \* protocol and hardware addresses on the wire
    ARP_NENTRY, ARP_NTHRWAIT, ARP_MAX_LOOKUP, ARP_NQUEUE, ICMP_NQUEUE,
    TTL_UNRESOLVED, TTL_RESOLVED,
    MTU, HDR, IpLen,        \* sizes in bytes: of the link, of an IP header, of packets sent
    MAXTIME                 \* bound on clktime

VARIABLES
    inited, up,             \* netInit has run; netiftab[0].state = NET_ALLOC
    pool,                   \* free buffers
    arptab, clktime,
    arpqueue, icmpqueue,    \* <<buffer, peer address>>
    masked,                 \* interrupts were left disabled
    wild                    \* a NULL or SYSERR "buffer" was written through

env == <<inited, up, clktime>>
queues == <<arpqueue, icmpqueue>>
vars == <<env, pool, arptab, queues, masked, wild>>

FreeEntry == [state |-> "free", pa |-> "none", hw |-> "none", expires |-> 0, count |-> 0]

Init ==
    /\ inited = FALSE /\ up = FALSE /\ pool = {} /\ clktime = 0
    /\ arptab = [i \in 1..ARP_NENTRY |-> FreeEntry]
    /\ arpqueue = << >> /\ icmpqueue = << >> /\ masked = FALSE /\ wild = FALSE

\* netInit, with arpInit and icmpInit: pool, tables and queues.
netInit ==
    /\ ~inited /\ inited' = TRUE /\ pool' = Buf
    /\ UNCHANGED <<up, clktime, arptab, queues, masked, wild>>

\* netUp: the device may refuse any of the four questions; a refused interface is free again.
netUp ==
    /\ inited /\ ~up /\ up' \in BOOLEAN
    /\ UNCHANGED <<inited, pool, clktime, arptab, queues, masked, wild>>
netDown ==
    /\ up /\ up' = FALSE
    /\ UNCHANGED <<inited, pool, clktime, arptab, queues, masked, wild>>
Tick ==
    /\ clktime < MAXTIME /\ clktime' = clktime + 1
    /\ UNCHANGED <<inited, up, pool, arptab, queues, masked, wild>>

-----------------------------------------------------------------------------
\* bufget answers NULL when the pool is empty, netGetbuf tests for SYSERR and clears it.
NullBuf == "NULL"
netGetbuf == IF pool = {} THEN NullBuf ELSE CHOOSE b \in pool : TRUE
Wild(b) == wild' = (b = NullBuf)
netFreebuf(free, b) == free \cup ({b} \ {NullBuf})

\* arpGetEntry drops expired entries until it meets the address.
arpGetEntry(tab, pa) ==
    LET hit == {i \in DOMAIN tab : tab[i].state # "free" /\ tab[i].pa = pa /\ tab[i].expires >= clktime}
        at == IF hit = {} THEN Len(tab) + 1 ELSE Min(hit)
    IN  [tab |-> [i \in DOMAIN tab |->
                    IF i < at /\ tab[i].state # "free" /\ tab[i].expires < clktime THEN FreeEntry ELSE tab[i]],
         at |-> IF hit = {} THEN 0 ELSE at]

\* arpAlloc: the first free entry, else the first of those that expire soonest.
arpAlloc(tab) ==
    LET free == {i \in DOMAIN tab : tab[i].state = "free"}
        soonest == {i \in DOMAIN tab : \A j \in DOMAIN tab : tab[i].expires <= tab[j].expires}
    IN  Min(IF free # {} THEN free ELSE soonest)

Entry(state, pa, hw, ttl, count) ==
    [state |-> state, pa |-> pa, hw |-> hw, expires |-> clktime + ttl, count |-> count]

\* arpLookup, called for each of some pieces: a resolved entry answers, with interrupts left
\* disabled.  Otherwise the caller joins the waiting threads and asks: recvtime returns at
\* once, so it does so MAX_LOOKUP times, or until the entry has no room or a request cannot be
\* sent, and fails.
arpLookup(pa, pieces) ==
    LET g == arpGetEntry(arptab, pa)
        i == IF g.at # 0 THEN g.at ELSE arpAlloc(g.tab)
        e == IF g.at # 0 THEN g.tab[i] ELSE Entry("unresolved", pa, "none", TTL_UNRESOLVED, 0)
        room == ARP_NTHRWAIT - e.count
    IN  IF e.state = "resolved"
        THEN {[tab |-> g.tab, ok |-> TRUE, asked |-> 0]}
        ELSE {[tab |-> [g.tab EXCEPT ![i] = [e EXCEPT !.count = @ + n]], ok |-> FALSE, asked |-> n] :
                n \in {Min({room, pieces * ARP_MAX_LOOKUP}), Min({room, pieces})}}

\* netSend of the pieces of a packet while so many buffers are free: needs the interface, and
\* the hardware address; an ARP request takes a buffer (arpSendRqst), and gives it back.
netSend(pa, pieces, free) ==
    IF ~up THEN UNCHANGED <<arptab, masked, wild>>
    ELSE \E r \in arpLookup(pa, pieces) :
            /\ arptab' = r.tab /\ masked' = (masked \/ r.ok)
            /\ wild' = (r.asked > 0 /\ free = 0)

-----------------------------------------------------------------------------
\* ipv4SendFrag: the data lengths of the packets it sends for one of ipLen bytes.  Every one
\* carries offset 0 and no MF flag: the two are ANDed, and have no bit in common.
Round8(n) == (n \div 8) * 8
Rest[d \in 0..65535] ==
    IF d = 0 THEN << >>
    ELSE LET n == IF Round8(d + 7) > MTU + HDR THEN Round8(MTU - HDR) ELSE d
         IN  <<n>> \o Rest[d - n]
ipv4SendFrag(ipLen) ==
    IF ipLen <= MTU THEN <<ipLen - HDR>>
    ELSE <<Round8(MTU - HDR)>> \o Rest[ipLen - HDR - Round8(MTU - HDR)]

\* ipv4Send: without a route it fails.  All pieces ask for the same next hop; those after the
\* first share a buffer of their own.
ipv4Send(pa, ipLen, free) ==
    LET pieces == Len(ipv4SendFrag(ipLen))
    IN  \/ UNCHANGED <<arptab, masked, wild>>
        \/ pieces = 1 /\ netSend(pa, 1, free)
        \/ pieces > 1 /\ free > 0 /\ netSend(pa, pieces, free - 1)
        \/ pieces > 1 /\ free = 0 /\ wild' = TRUE /\ UNCHANGED <<arptab, masked>>

\* A packet of our own: built in a fresh buffer, sent, freed.
SendOwn(pa, ipLen) ==
    /\ inited /\ ~wild
    /\ IF pool = {} THEN wild' = TRUE /\ UNCHANGED <<pool, arptab, masked>>
                    ELSE pool' = pool /\ ipv4Send(pa, ipLen, Cardinality(pool) - 1)
    /\ UNCHANGED <<env, queues>>

\* The ICMP packets: a header in front of the echo data, or of the head of the packet that
\* caused the message, behind four bytes of the message's own.
icmpSend(pa, dataLen) == SendOwn(pa, HDR + 4 + dataLen)
icmpEchoRequest(pa) == icmpSend(pa, 28)
icmpDestUnreach(pa) == icmpSend(pa, HDR + 8 + 4)
icmpTimeExceeded(pa) == icmpSend(pa, HDR + 8 + 4)
icmpRedirect(pa) == icmpSend(pa, HDR + 8 + 4)

icmpEchoReply(pa) == ipv4Send(pa, MTU, Cardinality(pool))
\* icmpDaemon, one round: the reply goes back in the same buffer.  Its loop does not look at
\* mailboxReceive's SYSERR: on an empty queue it works on that "buffer".
icmpDaemon ==
    /\ inited /\ ~wild
    /\ IF icmpqueue = << >> THEN wild' = TRUE /\ UNCHANGED <<pool, icmpqueue, arptab, masked>>
       ELSE /\ icmpqueue' = Tail(icmpqueue)
            /\ pool' = netFreebuf(pool, Head(icmpqueue)[1])
            /\ icmpEchoReply(Head(icmpqueue)[2])
    /\ UNCHANGED <<env, arpqueue>>

\* arpDaemon, one round: the reply is the request turned round, to the address it came from.
arpSendReply == UNCHANGED <<arptab, masked, wild>>
arpDaemon ==
    /\ inited /\ ~wild /\ arpqueue # << >>
    /\ arpqueue' = Tail(arpqueue) /\ pool' = netFreebuf(pool, Head(arpqueue)[1])
    /\ arpSendReply /\ UNCHANGED <<env, icmpqueue>>

-----------------------------------------------------------------------------
\* netRecv, one round: the frame read into a fresh buffer belongs to whoever takes it.
Received(b) ==
    /\ inited /\ up /\ ~wild /\ b = netGetbuf
    /\ Wild(b) /\ UNCHANGED <<env, masked>>

\* Short, for another station, of another type, not valid, a fragment, an ICMP message nobody
\* handles, or an echo reply (no thread is in echotab): freed where it is noticed.
RecvFreed(b) ==
    /\ Received(b) /\ pool' = netFreebuf(pool \ {b}, b)
    /\ UNCHANGED <<arptab, queues>>

\* ipv4Recv for another host (rtRecv) or UDP, TCP and raw: the stubs keep the buffer.
RecvStub(b) == Received(b) /\ pool' = pool \ {b} /\ UNCHANGED <<arptab, queues>>

\* icmpRecv of an echo request: to the daemon; nobody looks whether the mailbox took it.
RecvEcho(b, pa) ==
    /\ Received(b) /\ pool' = pool \ {b}
    /\ icmpqueue' = IF Len(icmpqueue) < ICMP_NQUEUE THEN Append(icmpqueue, <<b, pa>>) ELSE icmpqueue
    /\ UNCHANGED <<arptab, arpqueue>>

\* arpRecv: the sender's entry is refreshed; a packet for us makes one, and a request for us
\* goes to the daemon while there is room.
arpTaught(spa, sha, forUs) ==
    LET g == arpGetEntry(arptab, spa)
        i == IF g.at # 0 THEN g.at ELSE arpAlloc(g.tab)
    IN  IF g.at = 0 /\ ~forUs THEN g.tab
        ELSE [g.tab EXCEPT ![i] = Entry("resolved", spa, sha, TTL_RESOLVED,
                                        IF g.at # 0 /\ g.tab[i].state = "resolved" THEN @.count ELSE 0)]
Queued(request, forUs) == request /\ forUs /\ Len(arpqueue) < ARP_NQUEUE
KeepsBuffer_mutant(request, forUs) == FALSE
KeepsBuffer(request, forUs) == Queued(request, forUs)
arpRecv(b, spa, sha, forUs, request) ==
    /\ Received(b)
    /\ arptab' = arpTaught(spa, sha, forUs)
    /\ arpqueue' = IF Queued(request, forUs) THEN Append(arpqueue, <<b, spa>>) ELSE arpqueue
    /\ pool' = IF KeepsBuffer(request, forUs) THEN pool \ {b} ELSE pool
    /\ UNCHANGED icmpqueue

Next ==
    \/ netInit \/ netUp \/ netDown \/ Tick \/ icmpDaemon \/ arpDaemon
    \/ \E pa \in Addr : \/ icmpEchoRequest(pa) \/ icmpDestUnreach(pa) \/ icmpTimeExceeded(pa)
                        \/ icmpRedirect(pa) \/ \E n \in IpLen : SendOwn(pa, n)
    \/ \E b \in Buf \cup {NullBuf} :
        \/ RecvFreed(b) \/ RecvStub(b)
        \/ \E pa \in Addr : RecvEcho(b, pa)
        \/ \E pa \in Addr, hw \in Hw, forUs, request \in BOOLEAN : arpRecv(b, pa, hw, forUs, request)

-----------------------------------------------------------------------------
(* A buffer is never in two hands: what waits in a queue for a daemon is   *)
(* not in the free pool, and is queued once - through full queues, frames  *)
(* nobody wants, replies sent in the request's buffer, and restarts of the *)
(* interface.                                                              *)
BufferOwnedOnce ==
    LET queued == [i \in 1..Len(arpqueue) + Len(icmpqueue) |-> (arpqueue \o icmpqueue)[i][1]]
    IN  IsInjective(queued) /\ Range(queued) \cap pool \subseteq {}

(* The ARP table has one entry for an address, however packets, lookups,   *)
(* expiry and eviction from the full table follow each other: a second one *)
(* would answer with a hardware address that is no longer refreshed.       *)
ArpUnique ==
    \A i, j \in DOMAIN arptab :
        arptab[i].state # "free" /\ arptab[j].state # "free" /\ arptab[i].pa = arptab[j].pa => i = j
=============================================================================
