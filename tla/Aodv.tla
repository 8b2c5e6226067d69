-------------------------------- MODULE Aodv --------------------------------
(***************************************************************************)
(* The multi-hop routing of device/wifi/wifi.c: route discovery by flooded *)
(* RREQs and unicast RREPs, and the relay of transit packets.  The radio   *)
(* loses, delays and repeats frames, and the nodes move: a frame once sent *)
(* may reach any node at any later time, or none.  Routes never expire.    *)
(***************************************************************************)
EXTENDS Naturals, Sequences, FiniteSets

CONSTANTS
    Node,
    AODV_NRT,   \* slots of g_rt
    SEEN,       \* slots of g_seen_o and g_seen_id
    TRIES,      \* rounds of wifi_aodv
    Want,       \* pairs <<n, d>>: n looks for a route to d
    MAXREQ      \* bound: RREQs originated in all

VARIABLES
    g_rt,       \* [Node -> the valid slots, in order], each [dst, nh, hops]
    g_seen,     \* [Node -> the RREQs remembered, newest last]
    g_rreqid,   \* [Node -> number of its last RREQ]
    disc,       \* [Node -> the running wifi_aodv: [dst, left], or Idle]
    air,        \* control frames sent
    pkt         \* one packet on its way: [at, dst], or NoPkt

vars == <<g_rt, g_seen, g_rreqid, disc, air, pkt>>

Idle == [dst |-> "none", left |-> 0]
NoPkt == [at |-> "none", dst |-> "none"]

Init ==
    /\ g_rt = [n \in Node |-> << >>]
    /\ g_seen = [n \in Node |-> << >>]
    /\ g_rreqid = [n \in Node |-> 0]
    /\ disc = [n \in Node |-> Idle]
    /\ air = {} /\ pkt = NoPkt

-----------------------------------------------------------------------------
aodv_find(n, d) == {i \in DOMAIN g_rt[n] : g_rt[n][i].dst = d}

aodv_add_mutant(n, d, nh, hops) ==
    LET new == [dst |-> d, nh |-> nh, hops |-> hops]
    IN  IF aodv_find(n, d) # {}
        THEN [g_rt[n] EXCEPT ![CHOOSE i \in aodv_find(n, d) : TRUE] = new]
        ELSE IF Len(g_rt[n]) < AODV_NRT THEN Append(g_rt[n], new)
        ELSE [g_rt[n] EXCEPT ![1] = new]

\* The table of n after aodv_add: a known route is replaced only by a shorter one; a
\* full table gives up its first slot.
aodv_add(n, d, nh, hops) ==
    LET new == [dst |-> d, nh |-> nh, hops |-> hops]
        i == CHOOSE i \in aodv_find(n, d) : TRUE
    IN  IF aodv_find(n, d) # {}
        THEN IF g_rt[n][i].hops <= hops THEN g_rt[n] ELSE [g_rt[n] EXCEPT ![i] = new]
        ELSE IF Len(g_rt[n]) < AODV_NRT THEN Append(g_rt[n], new)
        ELSE [g_rt[n] EXCEPT ![1] = new]

\* The scan runs to g_seen_n, which keeps growing past the SEEN slots: from then on it
\* also reads what lies behind the arrays, which may look like a match.
aodv_seen(n, o, id, beyond) ==
    LET k == Len(g_seen[n])
    IN  \/ \E i \in (IF k > SEEN THEN k - SEEN + 1 ELSE 1)..k : g_seen[n][i] = <<o, id>>
        \/ k > SEEN /\ beyond
aodv_remember(n, o, id) ==   \* an entry older than the slots only counts
    LET all == Append(g_seen[n], <<o, id>>)
    IN  IF Len(all) > SEEN + 1 THEN Tail(all) ELSE all

\* A frame carries the node that sent this hop (its IP source) and the one it is for
\* ("all" for a broadcast).
aodv_bcast(n, type, id, orig, dst, hop) ==
    [to |-> "all", from |-> n, type |-> type, id |-> id, orig |-> orig, dst |-> dst, hop |-> hop]
wifi_udp_tx(n, to, type, id, orig, dst, hop) ==
    [aodv_bcast(n, type, id, orig, dst, hop) EXCEPT !.to = to]

aodv_send_rreq(n, d) ==
    /\ Cardinality({f \in air : f.type = "RREQ" /\ f.from = f.orig}) < MAXREQ
    /\ g_rreqid' = [g_rreqid EXCEPT ![n] = @ + 1]
    /\ g_seen' = [g_seen EXCEPT ![n] = aodv_remember(n, n, g_rreqid[n] + 1)]
    /\ air' = air \cup {aodv_bcast(n, "RREQ", g_rreqid[n] + 1, n, d, 0)}
    /\ UNCHANGED <<g_rt, pkt>>

\* wifi_aodv: ask, wait, ask again TRIES times, stop as soon as a route is known.
wifi_aodv(n, d) ==
    /\ <<n, d>> \in Want /\ disc[n] = Idle /\ aodv_find(n, d) = {}
    /\ aodv_send_rreq(n, d)
    /\ disc' = [disc EXCEPT ![n] = [dst |-> d, left |-> TRIES - 1]]

AskAgain(n) ==
    /\ disc[n] # Idle /\ disc[n].left > 0 /\ aodv_find(n, disc[n].dst) = {}
    /\ aodv_send_rreq(n, disc[n].dst)
    /\ disc' = [disc EXCEPT ![n].left = @ - 1]

DiscoveryEnds(n) ==
    /\ disc[n] # Idle
    /\ aodv_find(n, disc[n].dst) # {} \/ disc[n].left = 0
    /\ disc' = [disc EXCEPT ![n] = Idle]
    /\ UNCHANGED <<g_rt, g_seen, g_rreqid, air, pkt>>

-----------------------------------------------------------------------------
\* aodv_ip_in, an RREQ: the reverse route; the target answers, others pass it on.
RecvRREQ(n, f) ==
    \E beyond \in BOOLEAN :
        /\ f.type = "RREQ" /\ f.from # n
        /\ ~aodv_seen(n, f.orig, f.id, beyond)
        /\ g_seen' = [g_seen EXCEPT ![n] = aodv_remember(n, f.orig, f.id)]
        /\ g_rt' = [g_rt EXCEPT ![n] = aodv_add(n, f.orig, f.from, f.hop + 1)]
        /\ air' = air \cup
            {IF f.dst = n THEN wifi_udp_tx(n, f.from, "RREP", 0, f.orig, n, 0)
                          ELSE aodv_bcast(n, "RREQ", f.id, f.orig, f.dst, f.hop + 1)}
        /\ UNCHANGED <<g_rreqid, disc, pkt>>

\* aodv_ip_in, an RREP: the forward route; not the originator's, it goes on along the
\* reverse route if the next hop answers ARP.
RecvRREP(n, f) ==
    /\ f.type = "RREP" /\ f.to = n
    /\ g_rt' = [g_rt EXCEPT ![n] = aodv_add(n, f.dst, f.from, f.hop + 1)]
    /\ air' = air \cup
        {wifi_udp_tx(n, r.nh, "RREP", 0, f.orig, f.dst, f.hop + 1) :
            r \in {g_rt'[n][i] : i \in {j \in DOMAIN g_rt'[n] : f.orig # n /\ g_rt'[n][j].dst = f.orig}}}
    /\ UNCHANGED <<g_seen, g_rreqid, disc, pkt>>

\* aodv_ip_in, a transit packet: handed to the next hop of its destination, dropped
\* without a route or when ARP fails.
Relay(n) ==
    /\ pkt.at = n /\ pkt.dst # n
    /\ pkt' \in {NoPkt} \cup {[pkt EXCEPT !.at = g_rt[n][i].nh] : i \in aodv_find(n, pkt.dst)}
    /\ UNCHANGED <<g_rt, g_seen, g_rreqid, disc, air>>

\* A packet arrives; another is sent along a known route.
Arrive == pkt # NoPkt /\ pkt.at = pkt.dst /\ pkt' = NoPkt /\ UNCHANGED <<g_rt, g_seen, g_rreqid, disc, air>>
SendData(n, d) ==
    /\ <<n, d>> \in Want /\ pkt = NoPkt /\ aodv_find(n, d) # {}
    /\ pkt' = [at |-> n, dst |-> d]
    /\ UNCHANGED <<g_rt, g_seen, g_rreqid, disc, air>>

Next ==
    \E n \in Node :
        \/ \E d \in Node : wifi_aodv(n, d) \/ SendData(n, d)
        \/ AskAgain(n) \/ DiscoveryEnds(n) \/ Relay(n) \/ Arrive
        \/ \E f \in air : RecvRREQ(n, f) \/ RecvRREP(n, f)

-----------------------------------------------------------------------------
(* As long as no table has overflowed, following next hops towards a       *)
(* destination never comes back: a node's next hop is the destination      *)
(* itself or knows a strictly shorter route.  aodv_ip_in relays without    *)
(* looking at the TTL, so a loop would carry a packet for ever; hop counts *)
(* alone (aodv_add ignores the sequence numbers) must prevent it, across   *)
(* lost, late and repeated frames and moving nodes.                        *)
RoutesDescend ==
    \A n \in Node : \A i \in DOMAIN g_rt[n] :
        LET r == g_rt[n][i]
        IN  r.nh = r.dst \/ \E j \in aodv_find(r.nh, r.dst) : g_rt[r.nh][j].hops < r.hops
=============================================================================
