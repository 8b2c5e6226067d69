------------------------------ MODULE NetProofs ------------------------------
(***************************************************************************)
(* Invariants of the network parts of MCNet, for every value of the        *)
(* constants that NetAssumption and WireAssumption allow: the routes of    *)
(* the two mesh protocols, the buffers and the ARP table of the Xinu       *)
(* stack, the routes of the HTTP server that keep state, the receive path, *)
(* the TCP server, and the Ethernet controllers with the fan.  Each part   *)
(* has an inductive invariant, proved over the part's own steps; the last  *)
(* section puts the scenes together.                                       *)
(***************************************************************************)
EXTENDS MCNet, FiniteSetTheorems, SequenceTheorems, WellFoundedInduction, TLAPS

-----------------------------------------------------------------------------
(* On-demand routing (Aodv).  Hop counts fall along every route because    *)
(* every frame on the air carries at least the hops its sender has: a      *)
(* route is only ever replaced by a shorter one, and no table overflows.   *)

Slot == [dst : Station, nh : Station, hops : Nat]

\* With the tables rt, board m is d, or knows a route to d of at most h hops.
Near(rt, m, d, h) ==
    m = d \/ \E i \in DOMAIN rt[m] : rt[m][i].dst = d /\ rt[m][i].hops <= h

OneSlot(t) == \A i, j \in DOMAIN t : t[i].dst = t[j].dst => i = j

\* What a frame says is true of the board that sent it.
FrameTrue(f) ==
    /\ f.type \in {"RREQ", "RREP"} /\ f.from \in Station /\ f.orig \in Station /\ f.hop \in Nat
    /\ f.type = "RREQ" => Near(g_rt, f.from, f.orig, f.hop)
    /\ f.type = "RREP" => f.dst \in Station /\ Near(g_rt, f.from, f.dst, f.hop)

Tables == g_rt \in [Station -> Seq(Slot)] /\ \A n \in Station : OneSlot(g_rt[n])

\* Each hop brings a packet nearer.
Descent ==
    \A n \in Station : \A i \in DOMAIN g_rt[n] :
        \/ g_rt[n][i].nh = g_rt[n][i].dst
        \/ \E h \in Nat : h < g_rt[n][i].hops /\ Near(g_rt, g_rt[n][i].nh, g_rt[n][i].dst, h)

RouteInv == Tables /\ Descent /\ \A f \in air : FrameTrue(f)

\* t is g_rt[n] with room made for a route to d of h hops, or a shorter one kept.
Added(n, t, d, nh, h) ==
    /\ t \in Seq(Slot) /\ OneSlot(t)
    /\ \E j \in DOMAIN t : t[j].dst = d /\ t[j].hops <= h
    /\ \A i \in DOMAIN g_rt[n] :
          \E j \in DOMAIN t : t[j].dst = g_rt[n][i].dst /\ t[j].hops <= g_rt[n][i].hops
    /\ \A j \in DOMAIN t : \/ \E i \in DOMAIN g_rt[n] : t[j] = g_rt[n][i]
                           \/ t[j] = [dst |-> d, nh |-> nh, hops |-> h]

\* A board that does not know d has a slot left.
LEMMA RoomLeft ==
    ASSUME Tables, NEW n \in Station, NEW d \in Station, Route!aodv_find(n, d) = {}
    PROVE  Len(g_rt[n]) < AODV_NRT
<1> DEFINE t == g_rt[n]
           L == Len(t)
           f == [i \in 1 .. L |-> t[i].dst]
<1>1. t \in Seq(Slot) /\ L \in Nat /\ DOMAIN t = 1 .. L /\ OneSlot(t)
    BY DEF Tables
<1>2. \A i \in 1 .. L : t[i] \in Slot
    BY <1>1
<1>3. \A i \in 1 .. L : t[i].dst \in Station \ {d}
    BY <1>1, <1>2 DEF Route!aodv_find, Slot
<1> HIDE DEF L
<1>4. f \in Injection(1 .. L, Station \ {d})
    BY <1>1, <1>3 DEF Injection, IsInjective, OneSlot
<1>5. IsFiniteSet(Station) /\ Cardinality(Station) \in Nat /\ AODV_NRT \in Nat
      /\ Cardinality(Station) <= AODV_NRT
    BY NetAssumption, FS_CardinalityType
<1>6. IsFiniteSet(Station \ {d}) /\ Cardinality(Station \ {d}) = Cardinality(Station) - 1
    BY <1>5, FS_RemoveElement
<1>7. Cardinality(1 .. L) <= Cardinality(Station \ {d})
    BY <1>4, <1>6, FS_Injection
<1>8. Cardinality(1 .. L) = L
    BY <1>1, FS_Interval
<1> QED  BY <1>1, <1>5, <1>6, <1>7, <1>8 DEF L

\* aodv_add leaves one slot per destination and keeps the shorter of two routes.
LEMMA AddedRoute ==
    ASSUME Tables, NEW n \in Station, NEW d \in Station, NEW nh \in Station, NEW h \in Nat
    PROVE  Added(n, Route!aodv_add(n, d, nh, h), d, nh, h)
<1> DEFINE t == g_rt[n]
           L == Len(t)
           new == [dst |-> d, nh |-> nh, hops |-> h]
           k == CHOOSE i \in Route!aodv_find(n, d) : TRUE
<1>1. t \in Seq(Slot) /\ L \in Nat /\ DOMAIN t = 1 .. L /\ OneSlot(t)
    BY DEF Tables
<1>0. new \in Slot
    BY DEF Slot
<1>2. \A i \in 1 .. L : t[i] \in Slot /\ t[i].hops \in Nat
  <2>1. \A i \in 1 .. L : t[i] \in Slot
    BY <1>1
  <2> QED  BY <2>1 DEF Slot
<1>3. CASE Route!aodv_find(n, d) # {} /\ t[k].hops <= h
  <2>1. k \in 1 .. L /\ t[k].dst = d
    BY <1>1, <1>3 DEF Route!aodv_find
  <2>2. Route!aodv_add(n, d, nh, h) = t
    BY <1>3 DEF Route!aodv_add
  <2> HIDE DEF k
  <2> QED  BY <1>1, <1>2, <1>3, <2>1, <2>2 DEF Added
<1>4. CASE Route!aodv_find(n, d) # {} /\ ~(t[k].hops <= h)
  <2>1. k \in 1 .. L /\ t[k].dst = d
    BY <1>1, <1>4 DEF Route!aodv_find
  <2>2. Route!aodv_add(n, d, nh, h) = [t EXCEPT ![k] = new]
    BY <1>4 DEF Route!aodv_add
  <2> HIDE DEF k
  <2> DEFINE u == [t EXCEPT ![k] = new]
  <2>3. u \in Seq(Slot) /\ DOMAIN u = 1 .. L
        /\ \A i \in 1 .. L : u[i] = IF i = k THEN new ELSE t[i]
    BY <1>0, <1>1, <2>1
  <2> HIDE DEF u
  <2>4. OneSlot(u)
    BY <1>1, <2>1, <2>3 DEF OneSlot
  <2>5. \A i \in 1 .. L : u[i].dst = t[i].dst /\ u[i].hops <= t[i].hops
    BY <1>2, <1>4, <2>1, <2>3
  <2>6. u[k].dst = d /\ u[k].hops <= h
    BY <2>1, <2>3
  <2> QED  BY Zenon, <1>1, <2>1, <2>2, <2>3, <2>4, <2>5, <2>6 DEF Added, u
<1>5. CASE Route!aodv_find(n, d) = {}
  <2>1. Route!aodv_add(n, d, nh, h) = Append(t, new)
    BY <1>5, RoomLeft DEF Route!aodv_add
  <2> DEFINE u == Append(t, new)
  <2>3. /\ u \in Seq(Slot) /\ DOMAIN u = 1 .. L + 1
        /\ \A i \in 1 .. L : u[i] = t[i]
        /\ u[L + 1] = new
    BY <1>0, <1>1
  <2>4. \A i \in 1 .. L : t[i].dst # d
    BY <1>1, <1>5 DEF Route!aodv_find
  <2> HIDE DEF u
  <2>5. OneSlot(u)
    <3>1. \A i \in 1 .. L + 1 : u[i].dst = IF i = L + 1 THEN d ELSE t[i].dst
        BY <1>1, <2>3
    <3>2. ASSUME NEW i \in 1 .. L + 1, NEW j \in 1 .. L + 1, u[i].dst = u[j].dst PROVE i = j
      <4>1. CASE i = L + 1 \/ j = L + 1
        <5>1. \A m \in 1 .. L + 1 : m = L + 1 \/ (m \in 1 .. L /\ u[m].dst # d)
          <6>1. PICK l \in Nat : l = L
            BY <1>1
          <6>2. \A m \in 1 .. l + 1 : m = l + 1 \/ (m \in 1 .. l /\ m # l + 1)
            OBVIOUS
          <6> QED  BY Zenon, <2>4, <3>1, <6>1, <6>2
        <5>2. u[L + 1].dst = d
          BY <1>1, <3>1
        <5> QED  BY <3>2, <4>1, <5>1, <5>2
      <4>2. CASE i # L + 1 /\ j # L + 1
        <5>1. i \in 1 .. L /\ j \in 1 .. L
          BY <1>1, <4>2
        <5>2. t[i].dst = t[j].dst
          BY <3>1, <3>2, <4>2
        <5> QED  BY <1>1, <5>1, <5>2 DEF OneSlot
      <4> QED  BY <4>1, <4>2
    <3> QED  BY <2>3, <3>2 DEF OneSlot
  <2>6. \A j \in 1 .. L + 1 : j \in 1 .. L \/ j = L + 1
    BY <1>1
  <2>7. 1 .. L \subseteq 1 .. L + 1 /\ L + 1 \in 1 .. L + 1
    BY <1>1
  <2>8. \A i \in DOMAIN t : i \in DOMAIN u /\ u[i].dst = t[i].dst /\ u[i].hops <= t[i].hops
    BY <1>1, <1>2, <2>3, <2>7
  <2>9. L + 1 \in DOMAIN u /\ u[L + 1].dst = d /\ u[L + 1].hops <= h
    BY <2>3, <2>7
  <2>10. \A j \in DOMAIN u : (\E i \in DOMAIN t : u[j] = t[i]) \/ u[j] = new
    BY Zenon, <1>1, <2>3, <2>6
  <2> QED  BY <2>1, <2>3, <2>5, <2>8, <2>9, <2>10 DEF Added, u
<1> QED  BY <1>3, <1>4, <1>5

\* Adding what a true frame says keeps all that was near near.
LEMMA AddKeeps ==
    ASSUME RouteInv, NEW n \in Station, NEW d \in Station, NEW nh \in Station, NEW h \in Nat,
           Near(g_rt, nh, d, h), g_rt' = [g_rt EXCEPT ![n] = Route!aodv_add(n, d, nh, h + 1)]
    PROVE  /\ Tables' /\ Descent'
           /\ \A m \in Station : \A e : \A k \in Nat : Near(g_rt, m, e, k) => Near(g_rt', m, e, k)
           /\ Near(g_rt', n, d, h + 1)
<1> DEFINE t == Route!aodv_add(n, d, nh, h + 1)
<1>1. Added(n, t, d, nh, h + 1) /\ h + 1 \in Nat
    BY AddedRoute DEF RouteInv
<1> HIDE DEF t
<1>2. /\ g_rt \in [Station -> Seq(Slot)]
      /\ \A m \in Station : g_rt'[m] = IF m = n THEN t ELSE g_rt[m]
    BY DEF RouteInv, Tables, t
<1>3. Tables'
    BY <1>1, <1>2 DEF RouteInv, Tables, Added, t
<1>4. ASSUME NEW m \in Station, NEW e, NEW k \in Nat, Near(g_rt, m, e, k)
      PROVE  Near(g_rt', m, e, k)
  <2>1. CASE m # n
    BY <1>2, <1>4, <2>1 DEF Near
  <2>2. CASE m = n /\ m # e
    <3>1. PICK i \in DOMAIN g_rt[m] : g_rt[m][i].dst = e /\ g_rt[m][i].hops <= k
        BY <1>4, <2>2 DEF Near
    <3>2. PICK j \in DOMAIN t : t[j].dst = e /\ t[j].hops <= g_rt[m][i].hops
        BY Zenon, <1>1, <2>2, <3>1 DEF Added
    <3>3. t[j].hops <= k
      <4>1. t[j] \in Slot /\ g_rt[m][i] \in Slot
        BY <1>1, <1>2, <3>1, <3>2 DEF Added
      <4>2. t[j].hops \in Nat /\ g_rt[m][i].hops \in Nat
        BY <4>1 DEF Slot
      <4> QED  BY <3>1, <3>2, <4>2
    <3> QED  BY <1>2, <2>2, <3>2, <3>3 DEF Near
  <2> QED  BY <2>1, <2>2 DEF Near
<1>5. Near(g_rt', n, d, h + 1)
    BY <1>1, <1>2 DEF Added, Near
<1>6. ASSUME NEW m \in Station, NEW i \in DOMAIN g_rt'[m]
      PROVE  \/ g_rt'[m][i].nh = g_rt'[m][i].dst
             \/ \E k \in Nat : /\ k < g_rt'[m][i].hops
                                /\ Near(g_rt', g_rt'[m][i].nh, g_rt'[m][i].dst, k)
  <2>1. CASE \E j \in DOMAIN g_rt[m] : g_rt'[m][i] = g_rt[m][j]
    <3>1. PICK j \in DOMAIN g_rt[m] : g_rt'[m][i] = g_rt[m][j]
        BY <2>1
    <3>2. g_rt[m][j].nh \in Station
      <4>1. g_rt[m][j] \in Slot
        BY <1>2
      <4> QED  BY <4>1 DEF Slot
    <3>3. CASE g_rt[m][j].nh = g_rt[m][j].dst
        BY <3>1, <3>3
    <3>4. CASE g_rt[m][j].nh # g_rt[m][j].dst
        BY Zenon, <1>4, <3>1, <3>2, <3>4 DEF RouteInv, Descent
    <3> QED  BY Zenon, <3>3, <3>4
  <2>2. CASE g_rt'[m][i] = [dst |-> d, nh |-> nh, hops |-> h + 1]
    <3>1. Near(g_rt', nh, d, h)
        BY Zenon, <1>4
    <3>2. h < h + 1
        OBVIOUS
    <3>3. \E k \in Nat : k < h + 1 /\ Near(g_rt', nh, d, k)
        BY <3>1, <3>2
    <3>4. g_rt'[m][i].hops = h + 1 /\ g_rt'[m][i].nh = nh /\ g_rt'[m][i].dst = d
        BY <2>2
    <3> QED  BY <3>3, <3>4
  <2>3. CASE m # n
    BY Zenon, <1>2, <2>1, <2>3
  <2>4. CASE m = n
    <3>1. i \in DOMAIN t /\ g_rt'[m][i] = t[i]
        BY <1>2, <2>4
    <3>2. \/ \E j \in DOMAIN g_rt[m] : t[i] = g_rt[m][j]
          \/ t[i] = [dst |-> d, nh |-> nh, hops |-> h + 1]
        BY <1>1, <2>4, <3>1 DEF Added
    <3> QED  BY Zenon, <2>1, <2>2, <3>1, <3>2
  <2> QED  BY Zenon, <2>3, <2>4
<1>7. Descent'
    BY Zenon, <1>6 DEF Descent
<1> QED  BY Zenon, <1>3, <1>4, <1>5, <1>7

\* A frame sent by n is true if what it says is.
LEMMA FramesKept ==
    ASSUME RouteInv, NEW f \in air,
           \A m \in Station : \A e : \A k \in Nat : Near(g_rt, m, e, k) => Near(g_rt', m, e, k)
    PROVE  FrameTrue(f)'
BY DEF RouteInv, FrameTrue

\* The routing invariant holds at the start.
LEMMA RouteInit ==
    ASSUME Route!Init
    PROVE  RouteInv
BY DEF Route!Init, RouteInv, Tables, OneSlot, Descent

\* Every step of the routing preserves the invariant.
LEMMA RouteStep ==
    ASSUME RouteInv, Route!Next
    PROVE  RouteInv'
<1>1. ASSUME NEW n \in Station, NEW d, Route!aodv_send_rreq(n, d)
      PROVE  RouteInv'
  <2> DEFINE x == Route!aodv_bcast(n, "RREQ", g_rreqid[n] + 1, n, d, 0)
  <2>1. g_rt' = g_rt /\ air' = air \cup {x}
    BY <1>1 DEF Route!aodv_send_rreq
  <2>2. x.type = "RREQ" /\ x.from = n /\ x.orig = n /\ x.hop = 0
    BY DEF Route!aodv_bcast
  <2> HIDE DEF x
  <2>3. ASSUME NEW f \in air' PROVE FrameTrue(f)'
    BY <2>1, <2>2 DEF RouteInv, FrameTrue, Near
  <2> QED  BY <2>1, <2>3 DEF RouteInv, Tables, Descent
<1>2. ASSUME NEW n \in Station, NEW f \in air, Route!RecvRREQ(n, f)
      PROVE  RouteInv'
  <2> DEFINE p == Route!wifi_udp_tx(n, f.from, "RREP", 0, f.orig, n, 0)
             q == Route!aodv_bcast(n, "RREQ", f.id, f.orig, f.dst, f.hop + 1)
  <2>1. /\ g_rt' = [g_rt EXCEPT ![n] = Route!aodv_add(n, f.orig, f.from, f.hop + 1)]
        /\ air' = air \cup {IF f.dst = n THEN p ELSE q}
        /\ f.type = "RREQ"
    BY <1>2 DEF Route!RecvRREQ
  <2>2. /\ f.from \in Station /\ f.orig \in Station /\ f.hop \in Nat
        /\ Near(g_rt, f.from, f.orig, f.hop)
    BY <2>1 DEF RouteInv, FrameTrue
  <2>3. /\ Tables' /\ Descent'
        /\ \A m \in Station : \A e : \A k \in Nat : Near(g_rt, m, e, k) => Near(g_rt', m, e, k)
        /\ Near(g_rt', n, f.orig, f.hop + 1)
    BY Zenon, <2>1, <2>2, AddKeeps
  <2>4. /\ p.type = "RREP" /\ p.from = n /\ p.orig = f.orig /\ p.dst = n /\ p.hop = 0
        /\ q.type = "RREQ" /\ q.from = n /\ q.orig = f.orig /\ q.hop = f.hop + 1
    BY DEF Route!wifi_udp_tx, Route!aodv_bcast
  <2> HIDE DEF p, q
  <2>5. Near(g_rt', n, n, 0)
    BY DEF Near
  <2>6. ASSUME NEW x \in air' PROVE FrameTrue(x)'
    <3>1. CASE x \in air
        BY <2>3, <3>1, FramesKept
    <3>2. CASE x = p
        BY <2>2, <2>4, <2>5, <3>2 DEF FrameTrue
    <3>3. CASE x = q
        BY <2>2, <2>3, <2>4, <3>3 DEF FrameTrue
    <3> QED  BY <2>1, <3>1, <3>2, <3>3
  <2> QED  BY <2>3, <2>6 DEF RouteInv
<1>3. ASSUME NEW n \in Station, NEW f \in air, Route!RecvRREP(n, f)
      PROVE  RouteInv'
  <2> DEFINE p(r) == Route!wifi_udp_tx(n, r.nh, "RREP", 0, f.orig, f.dst, f.hop + 1)
  <2>1. /\ g_rt' = [g_rt EXCEPT ![n] = Route!aodv_add(n, f.dst, f.from, f.hop + 1)]
        /\ f.type = "RREP"
    BY <1>3 DEF Route!RecvRREP
  <2>a. \A x \in air' : x \in air \/ \E r : x = p(r)
    BY <1>3 DEF Route!RecvRREP
  <2>2. /\ f.from \in Station /\ f.orig \in Station /\ f.dst \in Station /\ f.hop \in Nat
        /\ Near(g_rt, f.from, f.dst, f.hop)
    BY <2>1 DEF RouteInv, FrameTrue
  <2>3. /\ Tables' /\ Descent'
        /\ \A m \in Station : \A e : \A k \in Nat : Near(g_rt, m, e, k) => Near(g_rt', m, e, k)
        /\ Near(g_rt', n, f.dst, f.hop + 1)
    BY Zenon, <2>1, <2>2, AddKeeps
  <2>4. \A r : /\ p(r).type = "RREP" /\ p(r).from = n /\ p(r).orig = f.orig
               /\ p(r).dst = f.dst /\ p(r).hop = f.hop + 1
    BY DEF Route!wifi_udp_tx, Route!aodv_bcast
  <2> HIDE DEF p
  <2>6. ASSUME NEW x \in air' PROVE FrameTrue(x)'
    <3>1. CASE x \in air
        BY <2>3, <3>1, FramesKept
    <3>2. ASSUME NEW r, x = p(r) PROVE FrameTrue(x)'
        BY <2>2, <2>3, <2>4, <3>2 DEF FrameTrue
    <3> QED  BY <2>a, <3>1, <3>2
  <2> QED  BY <2>3, <2>6 DEF RouteInv
<1>4. ASSUME UNCHANGED <<g_rt, air>> PROVE RouteInv'
    BY <1>4 DEF RouteInv, Tables, Descent, FrameTrue
<1>5. ASSUME NEW n \in Station, NEW d \in Station,
             Route!wifi_aodv(n, d) \/ Route!SendData(n, d)
      PROVE  RouteInv'
    BY <1>1, <1>4, <1>5 DEF Route!wifi_aodv, Route!SendData
<1>6. ASSUME NEW n \in Station,
             Route!AskAgain(n) \/ Route!DiscoveryEnds(n) \/ Route!Relay(n) \/ Route!Arrive
      PROVE  RouteInv'
    BY <1>1, <1>4, <1>6 DEF Route!AskAgain, Route!DiscoveryEnds, Route!Relay, Route!Arrive
<1> QED  BY <1>2, <1>3, <1>5, <1>6 DEF Route!Next

\* The invariant implies that routes descend.
LEMMA RouteSound ==
    ASSUME RouteInv
    PROVE  Route!RoutesDescend
<1> SUFFICES ASSUME NEW n \in Station, NEW i \in DOMAIN g_rt[n], g_rt[n][i].nh # g_rt[n][i].dst
             PROVE  \E j \in Route!aodv_find(g_rt[n][i].nh, g_rt[n][i].dst) :
                        g_rt[g_rt[n][i].nh][j].hops < g_rt[n][i].hops
    BY DEF Route!RoutesDescend
<1>1. g_rt[n][i] \in Slot
    BY DEF RouteInv, Tables
<1>2. g_rt[n][i].nh \in Station /\ g_rt[n][i].hops \in Nat
    BY <1>1 DEF Slot
<1>3. PICK h \in Nat : h < g_rt[n][i].hops /\ Near(g_rt, g_rt[n][i].nh, g_rt[n][i].dst, h)
    BY SMTT(30) DEF RouteInv, Descent
<1>4. PICK j \in DOMAIN g_rt[g_rt[n][i].nh] :
           g_rt[g_rt[n][i].nh][j].dst = g_rt[n][i].dst /\ g_rt[g_rt[n][i].nh][j].hops <= h
    BY <1>3 DEF Near
<1>5. g_rt[g_rt[n][i].nh][j] \in Slot
    BY <1>2, <1>4 DEF RouteInv, Tables
<1>6. g_rt[g_rt[n][i].nh][j].hops \in Nat
    BY <1>5 DEF Slot
<1> QED  BY <1>2, <1>3, <1>4, <1>6 DEF Route!aodv_find

-----------------------------------------------------------------------------
(* Fact flooding (Manet).  A fire takes a number no frame has carried, so an *)
(* acknowledgement with that number answers a push of the id being fired, or *)
(* a proxy's, which a whitelist drops; and the tables have room for all ids. *)

Ids == Fid \cup {f + 1000 : f \in Fid}

\* Unless a is in the control group, or takes the pushes of n's proxies for n's,
\* it has learned what n fires.
Reached(n, a) ==
    ~g_mn_ackonly[a] /\ (g_mn_proxy[n] = 1 \/ g_mn_nbr[a] # {}) => firing[n] \in told[a]

FloodTypes ==
    /\ g_mn_nbr \in [Board -> {{}, Board}] /\ g_mn_proxy \in [Board -> 1 .. 2]
    /\ g_mn_ackonly \in [Board -> BOOLEAN]
    /\ g_mn_known \in [Board -> SUBSET Ids] /\ told \in [Board -> SUBSET Ids]
    /\ g_mn_seq \in [Board -> Nat] /\ g_mn_wait \in [Board -> Nat]
    /\ g_mn_collect \in [Board -> BOOLEAN]
    /\ g_mn_acks \in [Board -> SUBSET Board] /\ firing \in [Board -> Fid \cup {"none"}]

\* A push with the running number carries the running id, or comes from a proxy.
PushTrue(m) ==
    /\ m.seq <= g_mn_seq[m.from]
    /\ m.src = m.from \/ (m.src \in Virtual /\ g_mn_proxy[m.from] > 1)
    /\ m.src = m.from /\ m.seq = g_mn_wait[m.from] => m.arg = {firing[m.from]}

AckTrue(m) ==
    /\ m.src = m.from /\ m.to \in Board /\ m.seq <= g_mn_seq[m.to]
    /\ m.seq = g_mn_wait[m.to] => Reached(m.to, m.from)

EtherTrue(m) ==
    /\ m.from \in Board /\ m.seq \in Nat /\ m.arg \in SUBSET Ids
    /\ m.type = "PUSH" => PushTrue(m)
    /\ m.type = "ACK" => AckTrue(m)

FloodInv ==
    /\ FloodTypes
    /\ \A m \in ether : EtherTrue(m)
    /\ \A n \in Board : \A a \in g_mn_acks[n] : ether # {} /\ Reached(n, a)

\* There is room for every id: mn_learn never drops one.
LEMMA RoomForIds ==
    ASSUME NEW S \in SUBSET Ids
    PROVE  Flood!Cardinality(S) <= MN_MAXKNOWN
<1> DEFINE Off2 == {f + 1000 : f \in Fid}
           g == [f \in Fid |-> f + 1000]
<1>1. IsFiniteSet(Fid) /\ Cardinality(Fid) \in Nat /\ 2 * Cardinality(Fid) <= MN_MAXKNOWN
      /\ MN_MAXKNOWN \in Nat
    BY NetAssumption, FS_CardinalityType
<1>2. g \in Surjection(Fid, Off2)
    BY DEF Surjection
<1>3. IsFiniteSet(Off2) /\ Cardinality(Off2) <= Cardinality(Fid)
    BY <1>1, <1>2, FS_Surjection
<1>4. Cardinality(Off2) \in Nat /\ Cardinality(Fid \cap Off2) \in Nat
    BY <1>1, <1>3, FS_CardinalityType, FS_Intersection
<1>5. /\ IsFiniteSet(Ids)
      /\ Cardinality(Ids) = Cardinality(Fid) + Cardinality(Off2) - Cardinality(Fid \cap Off2)
    BY <1>1, <1>3, FS_Union DEF Ids
<1>6. IsFiniteSet(S) /\ Cardinality(S) <= Cardinality(Ids)
    BY <1>5, FS_Subset
<1>7. Cardinality(S) \in Nat /\ Cardinality(Ids) \in Nat
    BY <1>5, <1>6, FS_CardinalityType
<1>8. Cardinality(S) <= MN_MAXKNOWN
    BY <1>1, <1>3, <1>4, <1>5, <1>6, <1>7
<1>9. Flood!Cardinality(S) = Cardinality(S)
    BY DEF Cardinality, Flood!Cardinality
<1> QED  BY <1>8, <1>9

\* What mn_learn does.
LEMMA Learned ==
    ASSUME FloodTypes, NEW n \in Board, NEW ids \in SUBSET Ids, Flood!mn_learn(n, ids)
    PROVE  /\ g_mn_known' \in [Board -> SUBSET Ids] /\ told' \in [Board -> SUBSET Ids]
           /\ \A a \in Board : told[a] \subseteq told'[a]
           /\ ids \subseteq told'[n]
<1>1. g_mn_known[n] \cup ids \in SUBSET Ids
    BY DEF FloodTypes
<1>2. Flood!Cardinality(g_mn_known[n] \cup ids) <= MN_MAXKNOWN
    BY <1>1, RoomForIds
<1>3. /\ g_mn_known' = [g_mn_known EXCEPT ![n] = g_mn_known[n] \cup ids]
      /\ told' = [told EXCEPT ![n] = told[n] \cup g_mn_known'[n]]
    BY <1>2 DEF Flood!mn_learn
<1> QED  BY <1>1, <1>3 DEF FloodTypes

\* The agents' invariant holds at the start.
LEMMA FloodInit ==
    ASSUME Flood!Init
    PROVE  FloodInv
BY DEF Flood!Init, Flood!Every, FloodInv, FloodTypes

\* Steps that leave the settings and the running fire alone, and learn at most.
Calm ==
    /\ UNCHANGED <<g_mn_nbr, g_mn_proxy, g_mn_ackonly, g_mn_wait, firing>>
    /\ g_mn_seq' \in [Board -> Nat] /\ \A n \in Board : g_mn_seq[n] <= g_mn_seq'[n]
    /\ g_mn_known' \in [Board -> SUBSET Ids] /\ told' \in [Board -> SUBSET Ids]
    /\ \A n \in Board : told[n] \subseteq told'[n]
    /\ ether \subseteq ether'

\* Such a step leaves true what the frames on the air say.
LEMMA CalmKeeps ==
    ASSUME FloodInv, Calm
    PROVE  /\ \A n, a \in Board : Reached(n, a) => Reached(n, a)'
           /\ \A m \in ether : EtherTrue(m)'
<1>1. ASSUME NEW n \in Board, NEW a \in Board, Reached(n, a) PROVE Reached(n, a)'
    BY <1>1 DEF Calm, Reached
<1>2. ASSUME NEW m \in ether PROVE EtherTrue(m)'
  <2>1. EtherTrue(m) /\ m.from \in Board /\ m.seq \in Nat
    BY <1>2 DEF FloodInv, EtherTrue
  <2>2. CASE m.type = "PUSH"
    <3>1. PushTrue(m) /\ m.type # "ACK"
        BY <2>1, <2>2 DEF EtherTrue
    <3>2. m.seq <= g_mn_seq'[m.from]
        BY <2>1, <3>1 DEF PushTrue, Calm, FloodInv, FloodTypes
    <3> QED  BY <2>1, <3>1, <3>2 DEF PushTrue, EtherTrue, Calm
  <2>3. CASE m.type = "ACK"
    <3>1. AckTrue(m) /\ m.type # "PUSH"
        BY <2>1, <2>3 DEF EtherTrue
    <3>2. m.to \in Board /\ m.seq <= g_mn_seq'[m.to]
        BY <2>1, <3>1 DEF AckTrue, Calm, FloodInv, FloodTypes
    <3>3. m.seq = g_mn_wait'[m.to] => Reached(m.to, m.from)'
        BY <1>1, <2>1, <3>1 DEF AckTrue, Calm
    <3> QED  BY <2>1, <3>1, <3>2, <3>3 DEF AckTrue, EtherTrue
  <2> QED  BY <2>1, <2>2, <2>3 DEF EtherTrue
<1> QED  BY <1>1, <1>2

\* A step that also sends true frames and forgets acknowledgements at most.
LEMMA CalmStep ==
    ASSUME FloodInv, Calm, \A m \in ether' : m \in ether \/ EtherTrue(m)',
           g_mn_collect' \in [Board -> BOOLEAN], g_mn_acks' \in [Board -> SUBSET Board],
           \A n \in Board : \A a \in g_mn_acks'[n] :
              a \in g_mn_acks[n] \/ (ether # {} /\ Reached(n, a))
    PROVE  FloodInv'
<1>1. /\ \A n, a \in Board : Reached(n, a) => Reached(n, a)'
      /\ \A m \in ether : EtherTrue(m)'
    BY CalmKeeps
<1>2. FloodTypes'
    BY DEF FloodInv, FloodTypes, Calm
<1>3. ASSUME NEW n \in Board, NEW a \in g_mn_acks'[n] PROVE ether' # {} /\ Reached(n, a)'
    BY <1>1, <1>3 DEF FloodInv, Calm
<1> QED  BY <1>1, <1>2, <1>3 DEF FloodInv

\* A fire starts under a number no earlier push or acknowledgement carries.
LEMMA FireKeeps ==
    ASSUME FloodInv, NEW n \in Board, NEW f \in Fid, Flood!wifi_manet_fire(n, f)
    PROVE  FloodInv'
<1> DEFINE s == g_mn_seq[n] + 1
           own == Flood!mn_mk(n, n, "all", "PUSH", s, {f})
           prx(v) == Flood!mn_mk(n, v, "all", "PUSH", s, {f + 1000})
<1>1. FloodTypes /\ g_mn_seq[n] \in Nat /\ s \in Nat
    BY DEF FloodInv, FloodTypes
<1>2. /\ g_mn_seq' = [g_mn_seq EXCEPT ![n] = s]
      /\ g_mn_acks' = [g_mn_acks EXCEPT ![n] = {}]
      /\ g_mn_wait' = [g_mn_wait EXCEPT ![n] = s]
      /\ g_mn_collect' = [g_mn_collect EXCEPT ![n] = TRUE]
      /\ firing' = [firing EXCEPT ![n] = f]
      /\ UNCHANGED <<g_mn_nbr, g_mn_proxy, g_mn_ackonly, g_mn_peers>>
      /\ Flood!mn_learn(n, {f})
    BY <1>1 DEF Flood!wifi_manet_fire, Flood!Bump, Flood!conf, FloodTypes
<1>3. ether' = ether \cup {own} \cup {prx(v) : v \in IF g_mn_proxy[n] > 1 THEN Virtual ELSE {}}
    BY <1>1, <1>2 DEF Flood!wifi_manet_fire, FloodTypes
<1>4. {f} \in SUBSET Ids /\ {f + 1000} \in SUBSET Ids
    BY DEF Ids
<1>5. /\ g_mn_known' \in [Board -> SUBSET Ids] /\ told' \in [Board -> SUBSET Ids]
      /\ \A a \in Board : told[a] \subseteq told'[a]
    BY <1>1, <1>2, <1>4, Learned
<1>6. FloodTypes'
    BY Zenon, <1>1, <1>2, <1>5 DEF FloodTypes
<1>7. /\ \A a \in Board : g_mn_seq'[a] = IF a = n THEN s ELSE g_mn_seq[a]
      /\ \A a \in Board : g_mn_wait'[a] = IF a = n THEN s ELSE g_mn_wait[a]
      /\ \A a \in Board : firing'[a] = IF a = n THEN f ELSE firing[a]
      /\ \A a \in Board : g_mn_acks'[a] = IF a = n THEN {} ELSE g_mn_acks[a]
    BY <1>1, <1>2 DEF FloodTypes
<1>8. \A k, a \in Board : k # n /\ Reached(k, a) => Reached(k, a)'
    BY <1>2, <1>5, <1>7 DEF Reached
<1>9. ASSUME NEW m \in ether PROVE EtherTrue(m)'
  <2>1. EtherTrue(m) /\ m.from \in Board /\ m.seq \in Nat
    BY <1>9 DEF FloodInv, EtherTrue
  <2>2. CASE m.type = "PUSH"
    <3>1. PushTrue(m) /\ m.type # "ACK"
        BY <2>1, <2>2 DEF EtherTrue
    <3>2. m.seq <= g_mn_seq'[m.from] /\ (m.from = n => m.seq # s)
        BY <1>1, <1>7, <2>1, <3>1 DEF PushTrue, FloodTypes
    <3>3. m.src = m.from /\ m.seq = g_mn_wait'[m.from] => m.arg = {firing'[m.from]}
        BY <1>7, <2>1, <3>1, <3>2 DEF PushTrue
    <3>4. PushTrue(m)'
        BY <1>2, <3>1, <3>2, <3>3 DEF PushTrue
    <3> QED  BY <2>1, <3>1, <3>4 DEF EtherTrue
  <2>3. CASE m.type = "ACK"
    <3>1. AckTrue(m) /\ m.type # "PUSH" /\ m.to \in Board
        BY <2>1, <2>3 DEF EtherTrue, AckTrue
    <3>2. m.seq <= g_mn_seq'[m.to] /\ (m.to = n => m.seq # s)
        BY <1>1, <1>7, <2>1, <3>1 DEF AckTrue, FloodTypes
    <3>3. m.seq = g_mn_wait'[m.to] => Reached(m.to, m.from)'
        BY <1>7, <1>8, <2>1, <3>1, <3>2 DEF AckTrue
    <3>4. AckTrue(m)'
        BY <3>1, <3>2, <3>3 DEF AckTrue
    <3> QED  BY <2>1, <3>1, <3>4 DEF EtherTrue
  <2> QED  BY <2>1, <2>2, <2>3 DEF EtherTrue
<1>10. ASSUME NEW x, x = own PROVE EtherTrue(x)'
  <2>1. /\ x.from = n /\ x.src = n /\ x.seq = s /\ x.arg = {f} /\ x.type = "PUSH"
    BY <1>10 DEF Flood!mn_mk
  <2> HIDE DEF own
  <2> QED  BY <1>1, <1>4, <1>7, <2>1 DEF EtherTrue, PushTrue
<1>11. ASSUME NEW v \in Virtual, g_mn_proxy[n] > 1, NEW x, x = prx(v) PROVE EtherTrue(x)'
  <2>1. /\ x.from = n /\ x.src = v /\ x.seq = s /\ x.arg = {f + 1000} /\ x.type = "PUSH"
    BY <1>11 DEF Flood!mn_mk
  <2>2. v # n
    BY NetAssumption
  <2> HIDE DEF prx
  <2> QED  BY <1>1, <1>2, <1>4, <1>7, <1>11, <2>1, <2>2 DEF EtherTrue, PushTrue
<1>12. ASSUME NEW x \in ether' PROVE EtherTrue(x)'
  <2> HIDE DEF own, prx
  <2>1. CASE x \in ether \/ x = own
    BY <1>9, <1>10, <2>1
  <2>2. ASSUME NEW v \in Virtual, g_mn_proxy[n] > 1, x = prx(v) PROVE EtherTrue(x)'
    BY <1>11, <2>2
  <2> QED  BY <1>3, <2>1, <2>2
<1>13. ASSUME NEW k \in Board, NEW a \in g_mn_acks'[k] PROVE ether' # {} /\ Reached(k, a)'
    BY <1>1, <1>3, <1>7, <1>8, <1>13 DEF FloodInv, FloodTypes
<1> QED  BY <1>6, <1>12, <1>13 DEF FloodInv

\* A board that acknowledges a push has learned it.
LEMMA PushKeeps ==
    ASSUME FloodInv, NEW n \in Board, NEW m \in ether, Flood!RecvPush(n, m)
    PROVE  FloodInv'
<1> DEFINE x == Flood!mn_mk(n, n, m.from, "ACK", m.seq, {})
<1>1. FloodTypes /\ EtherTrue(m) /\ PushTrue(m) /\ m.from \in Board /\ m.seq \in Nat
      /\ m.arg \in SUBSET Ids /\ m.type = "PUSH"
    BY DEF FloodInv, EtherTrue, Flood!RecvPush
<1>2. /\ UNCHANGED <<g_mn_nbr, g_mn_proxy, g_mn_ackonly, g_mn_seq, g_mn_wait, g_mn_collect,
                     g_mn_acks, firing>>
      /\ ether' = ether \cup {x} /\ Flood!mn_nbr_ok(n, m.src)
    BY DEF Flood!RecvPush, Flood!Heard, Flood!coll, Flood!conf
<1>3. /\ g_mn_known' \in [Board -> SUBSET Ids] /\ told' \in [Board -> SUBSET Ids]
      /\ \A a \in Board : told[a] \subseteq told'[a]
      /\ ~g_mn_ackonly[n] => m.arg \subseteq told'[n]
  <2>1. CASE g_mn_ackonly[n]
    BY <1>1, <2>1 DEF Flood!RecvPush, FloodTypes
  <2>2. CASE ~g_mn_ackonly[n]
    BY <1>1, <2>2, Learned DEF Flood!RecvPush
  <2> QED  BY <2>1, <2>2
<1>4. Calm
    BY <1>1, <1>2, <1>3 DEF Calm, FloodTypes
<1>5. ASSUME m.seq = g_mn_wait[m.from], ~g_mn_ackonly[n], g_mn_proxy[m.from] = 1 \/ g_mn_nbr[n] # {}
      PROVE  firing[m.from] \in told'[n]
  <2>1. m.src = m.from
    <3>1. g_mn_nbr[n] \in {{}, Board}
        BY <1>1 DEF FloodTypes
    <3>2. g_mn_nbr[n] # {} => m.src \in Board
        BY <1>2, <3>1 DEF Flood!mn_nbr_ok
    <3> QED  BY <1>1, <1>5, <3>2, NetAssumption DEF PushTrue
  <2>2. m.arg = {firing[m.from]}
    BY <1>1, <1>5, <2>1 DEF PushTrue
  <2> QED  BY <1>3, <1>5, <2>2
<1>6. EtherTrue(x)'
  <2>1. x.from = n /\ x.src = n /\ x.to = m.from /\ x.seq = m.seq /\ x.arg = {} /\ x.type = "ACK"
    BY DEF Flood!mn_mk
  <2> HIDE DEF x
  <2>2. m.seq = g_mn_wait'[m.from] => Reached(m.from, n)'
    BY <1>2, <1>5 DEF Reached
  <2>3. m.seq <= g_mn_seq'[m.from]
    BY <1>1, <1>2 DEF PushTrue
  <2> QED  BY <1>1, <2>1, <2>2, <2>3 DEF EtherTrue, AckTrue
<1>7. \A y \in ether' : y \in ether \/ EtherTrue(y)'
  <2> HIDE DEF x
  <2> QED  BY <1>2, <1>6
<1> QED  BY <1>1, <1>2, <1>4, <1>7, CalmStep DEF FloodTypes

\* Every step of the agents preserves the invariant.
LEMMA FloodStep ==
    ASSUME FloodInv, Flood!Next
    PROVE  FloodInv'
<1>1. FloodTypes
    BY DEF FloodInv
<1>2. ASSUME NEW n \in Board, NEW ids \in {{}, Board}, Flood!wifi_manet_nbr(n, ids)
      PROVE  FloodInv'
  <2>1. /\ ether = {} /\ ether' = ether /\ g_mn_nbr' = [g_mn_nbr EXCEPT ![n] = ids]
        /\ UNCHANGED <<g_mn_proxy, g_mn_ackonly, g_mn_known, g_mn_seq, g_mn_wait, g_mn_collect,
                       g_mn_acks, firing, told>>
    BY <1>2 DEF Flood!wifi_manet_nbr, Flood!coll
  <2> QED  BY <2>1 DEF FloodInv, FloodTypes
<1>3. ASSUME NEW n \in Board, NEW p \in 1 .. 2, NEW a \in BOOLEAN, Flood!wifi_manet_cfg(n, p, a)
      PROVE  FloodInv'
  <2>1. /\ ether = {} /\ ether' = ether
        /\ g_mn_proxy' = [g_mn_proxy EXCEPT ![n] = p]
        /\ g_mn_ackonly' = [g_mn_ackonly EXCEPT ![n] = a]
        /\ UNCHANGED <<g_mn_nbr, g_mn_known, g_mn_seq, g_mn_wait, g_mn_collect,
                       g_mn_acks, firing, told>>
    BY <1>3 DEF Flood!wifi_manet_cfg, Flood!coll
  <2> QED  BY <2>1 DEF FloodInv, FloodTypes
<1>4. ASSUME NEW n \in Board, Flood!wifi_manet_reset(n) \/ Flood!FireEnds(n)
      PROVE  FloodInv'
  <2>1. CASE Flood!wifi_manet_reset(n)
    <3>1. /\ UNCHANGED <<g_mn_nbr, g_mn_proxy, g_mn_ackonly, g_mn_seq, g_mn_wait, g_mn_collect,
                         firing, ether, told>>
          /\ g_mn_known' = [g_mn_known EXCEPT ![n] = {}]
          /\ g_mn_acks' = [g_mn_acks EXCEPT ![n] = {}]
        BY <2>1 DEF Flood!wifi_manet_reset, Flood!conf
    <3>2. Calm
        BY <1>1, <3>1 DEF FloodTypes, Calm
    <3>3. /\ g_mn_acks' \in [Board -> SUBSET Board]
          /\ \A k \in Board : \A a \in g_mn_acks'[k] : a \in g_mn_acks[k]
        BY <1>1, <3>1 DEF FloodTypes
    <3> QED  BY <1>1, <3>1, <3>2, <3>3, CalmStep DEF FloodTypes
  <2>2. CASE Flood!FireEnds(n)
    <3>1. /\ UNCHANGED <<g_mn_nbr, g_mn_proxy, g_mn_ackonly, g_mn_seq, g_mn_wait, g_mn_acks,
                         firing, ether, told, g_mn_known>>
          /\ g_mn_collect' = [g_mn_collect EXCEPT ![n] = FALSE]
        BY <2>2 DEF Flood!FireEnds, Flood!conf
    <3>2. Calm /\ g_mn_collect' \in [Board -> BOOLEAN]
        BY <1>1, <3>1 DEF FloodTypes, Calm
    <3> QED  BY <1>1, <3>1, <3>2, CalmStep DEF FloodTypes
  <2> QED  BY <1>4, <2>1, <2>2
<1>5. ASSUME NEW n \in Board, NEW src, NEW type, NEW arg \in SUBSET Ids,
             Flood!Broadcast(n, src, type, arg), type \notin {"PUSH", "ACK"}
      PROVE  FloodInv'
  <2> DEFINE x == Flood!mn_mk(n, src, "all", type, g_mn_seq'[n], arg)
  <2>1. /\ UNCHANGED <<g_mn_nbr, g_mn_proxy, g_mn_ackonly, g_mn_known, told, g_mn_wait,
                       g_mn_collect, g_mn_acks, firing>>
        /\ ether' = ether \cup {x} /\ g_mn_seq' = [g_mn_seq EXCEPT ![n] = g_mn_seq[n] + 1]
    BY <1>5 DEF Flood!Broadcast, Flood!Bump, Flood!conf, Flood!coll
  <2>2. Calm /\ g_mn_seq'[n] \in Nat
    BY <1>1, <2>1 DEF Calm, FloodTypes
  <2>3. x.from = n /\ x.seq = g_mn_seq'[n] /\ x.arg = arg /\ x.type = type
    BY DEF Flood!mn_mk
  <2> HIDE DEF x
  <2>4. ASSUME NEW y, y = x PROVE EtherTrue(y)'
    BY <1>5, <2>2, <2>3, <2>4 DEF EtherTrue
  <2>5. \A y \in ether' : y \in ether \/ EtherTrue(y)'
    BY <2>1, <2>4
  <2> QED  BY <1>1, <2>1, <2>2, <2>5, CalmStep DEF FloodTypes
<1>6. ASSUME NEW n \in Board, NEW f \in Fid, Flood!wifi_manet_load(n, f)
      PROVE  FloodInv'
  <2>1. {f + 1000} \in SUBSET Ids
    BY DEF Ids
  <2>2. PICK v \in Virtual : Flood!Broadcast(n, v, "BG", {f + 1000})
    BY <1>6 DEF Flood!wifi_manet_load
  <2> QED  BY <1>5, <2>1, <2>2
<1>11. ASSUME NEW n \in Board, Flood!wifi_manet_pull(n) \/ Flood!mn_hello_tick(n)
      PROVE  FloodInv'
  <2>1. CASE Flood!wifi_manet_pull(n)
    BY <1>5, <2>1 DEF Flood!wifi_manet_pull
  <2>2. CASE Flood!mn_hello_tick(n)
    BY <1>5, <2>2 DEF Flood!mn_hello_tick
  <2> QED  BY <1>11, <2>1, <2>2
<1>7. ASSUME NEW n \in Board, NEW m \in ether, Flood!RecvHello(n, m) \/ Flood!RecvFiltered(n, m)
      PROVE  FloodInv'
  <2>1. /\ Calm /\ UNCHANGED <<ether, g_mn_collect, g_mn_acks>>
    BY <1>1, <1>7 DEF FloodTypes, Calm, Flood!RecvHello, Flood!RecvFiltered, Flood!Heard,
        Flood!conf, Flood!coll
  <2> QED  BY <1>1, <2>1, CalmStep DEF FloodTypes
<1>8. ASSUME NEW n \in Board, NEW m \in ether, Flood!RecvAck(n, m)
      PROVE  FloodInv'
  <2>1. /\ Calm /\ UNCHANGED <<ether, g_mn_collect>>
        /\ g_mn_acks' = [g_mn_acks EXCEPT ![n] =
                IF Flood!AckCounts(n, m) THEN g_mn_acks[n] \cup {m.src} ELSE g_mn_acks[n]]
        /\ m.to \in {n, "all"} /\ m.type = "ACK"
    BY <1>1, <1>8 DEF FloodTypes, Calm, Flood!RecvAck, Flood!Heard, Flood!conf
  <2>2. m.src \in Board /\ m.to = n /\ (Flood!AckCounts(n, m) => Reached(n, m.src))
    BY Zenon, <1>8, <2>1, NetAssumption DEF FloodInv, EtherTrue, AckTrue, Flood!AckCounts
  <2>3. /\ g_mn_acks' \in [Board -> SUBSET Board]
        /\ \A k \in Board : \A a \in g_mn_acks'[k] :
              a \in g_mn_acks[k] \/ (ether # {} /\ Reached(k, a))
    BY <1>1, <1>8, <2>1, <2>2 DEF FloodTypes
  <2> QED  BY <1>1, <2>1, <2>3, CalmStep DEF FloodTypes
<1>9. ASSUME NEW n \in Board, NEW m \in ether, Flood!RecvBg(n, m) \/ Flood!RecvPullRsp(n, m)
      PROVE  FloodInv'
  <2>1. m.arg \in SUBSET Ids
    BY DEF FloodInv, EtherTrue
  <2>2. /\ UNCHANGED <<g_mn_nbr, g_mn_proxy, g_mn_ackonly, g_mn_seq, g_mn_wait, g_mn_collect,
                       g_mn_acks, firing, ether>>
        /\ UNCHANGED <<g_mn_known, told>> \/ Flood!mn_learn(n, m.arg)
    BY <1>9 DEF Flood!RecvBg, Flood!RecvPullRsp, Flood!Heard, Flood!conf, Flood!coll
  <2>3. Calm
    BY <1>1, <2>1, <2>2, Learned DEF Calm, FloodTypes
  <2> QED  BY <1>1, <2>2, <2>3, CalmStep DEF FloodTypes
<1>10. ASSUME NEW n \in Board, NEW m \in ether, Flood!RecvPullReq(n, m)
      PROVE  FloodInv'
  <2> DEFINE x == Flood!mn_mk(n, n, m.from, "PULLRSP", m.seq, g_mn_known[n])
  <2>1. /\ UNCHANGED <<g_mn_nbr, g_mn_proxy, g_mn_ackonly, g_mn_seq, g_mn_wait, g_mn_collect,
                       g_mn_acks, firing, g_mn_known, told>>
        /\ ether' = ether \cup {x}
    BY <1>10 DEF Flood!RecvPullReq, Flood!Heard, Flood!conf, Flood!coll
  <2>2. Calm /\ m.seq \in Nat /\ g_mn_known[n] \in SUBSET Ids
    BY <1>1, <2>1 DEF Calm, FloodTypes, FloodInv, EtherTrue
  <2>3. x.from = n /\ x.seq = m.seq /\ x.arg = g_mn_known[n] /\ x.type = "PULLRSP"
    BY DEF Flood!mn_mk
  <2> HIDE DEF x
  <2>4. ASSUME NEW y, y = x PROVE EtherTrue(y)'
    BY <2>2, <2>3, <2>4 DEF EtherTrue
  <2>5. \A y \in ether' : y \in ether \/ EtherTrue(y)'
    BY <2>1, <2>4
  <2> QED  BY <1>1, <2>1, <2>2, <2>5, CalmStep DEF FloodTypes
<1> QED  BY <1>2, <1>3, <1>4, <1>6, <1>7, <1>8, <1>9, <1>10, <1>11,
        FireKeeps, PushKeeps DEF Flood!Next

\* The invariant implies what a fire counts.
LEMMA FloodSound ==
    ASSUME FloodInv
    PROVE  Flood!AckMeansLearned
BY DEF FloodInv, Reached, Flood!AckMeansLearned

-----------------------------------------------------------------------------
(* The Xinu stack (XinuNet).  A buffer leaves the pool before it is queued and *)
(* comes back when it is taken; arpGetEntry meets the one entry of an address *)
(* or has dropped the ones that expired.                                   *)

Waiting == (Buf \cup {"NULL"}) \X Addr

Once(q) == \A i, j \in DOMAIN q : q[i][1] = q[j][1] => i = j

\* Nothing queued is free, queued twice, or no buffer at all before a wild write.
OwnInv ==
    /\ pool \subseteq Buf
    /\ arpqueue \in Seq(Waiting) /\ icmpqueue \in Seq(Waiting)
    /\ Once(arpqueue) /\ Once(icmpqueue)
    /\ \A i \in DOMAIN arpqueue : arpqueue[i][1] \notin pool
    /\ \A i \in DOMAIN icmpqueue : icmpqueue[i][1] \notin pool
    /\ \A i \in DOMAIN arpqueue, j \in DOMAIN icmpqueue : arpqueue[i][1] # icmpqueue[j][1]
    /\ ~wild => /\ \A i \in DOMAIN arpqueue : arpqueue[i][1] # "NULL"
                /\ \A i \in DOMAIN icmpqueue : icmpqueue[i][1] # "NULL"
    /\ ~inited => arpqueue = << >> /\ icmpqueue = << >>

IsEntry(e) ==
    /\ e = [state |-> e.state, pa |-> e.pa, hw |-> e.hw, expires |-> e.expires, count |-> e.count]
    /\ e.expires \in Nat

ArpTable(tab) ==
    /\ tab = [i \in 1 .. ARP_NENTRY |-> tab[i]]
    /\ \A i \in 1 .. ARP_NENTRY : IsEntry(tab[i])
    /\ \A i, j \in 1 .. ARP_NENTRY :
          tab[i].state # "free" /\ tab[j].state # "free" /\ tab[i].pa = tab[j].pa => i = j

StackInv == OwnInv /\ ArpTable(arptab) /\ clktime \in Nat

\* Every nonempty set of naturals has a least element.
LEMMA LeastNat ==
    ASSUME NEW T, T \subseteq Nat, T # {}
    PROVE  \E x \in T : \A y \in T : x <= y
<1> DEFINE R == OpToRel(<, Nat)
<1>1. IsWellFoundedOn(R, Nat)  BY Zenon, NatLessThanWellFounded
<1>2. \A x, y \in Nat : x < y => <<x, y>> \in R  BY DEF OpToRel
<1> HIDE DEF R
<1>3. PICK x \in T : \A y \in T : ~ (<<y, x>> \in R)  BY Zenon, <1>1, WFMin
<1>4. \A y \in T : x <= y
  <2> SUFFICES ASSUME NEW y \in T  PROVE x <= y  OBVIOUS
  <2>1. x \in Nat /\ y \in Nat /\ ~ (y < x)  BY Zenon, <1>2, <1>3
  <2> QED  BY <2>1
<1> QED  BY <1>4

\* arpGetEntry leaves a table, and finds the entry of an address if there is one.
LEMMA GotEntry ==
    ASSUME NEW tab, ArpTable(tab), clktime \in Nat, NEW pa
    PROVE  LET g == Stack!arpGetEntry(tab, pa)
           IN  /\ ArpTable(g.tab)
               /\ g.at = 0 => \A i \in 1 .. ARP_NENTRY : g.tab[i].state = "free" \/ g.tab[i].pa # pa
               /\ g.at # 0 => /\ g.at \in 1 .. ARP_NENTRY
                              /\ g.tab[g.at].state # "free" /\ g.tab[g.at].pa = pa
<1> DEFINE D == 1 .. ARP_NENTRY
           hit == {i \in D : tab[i].state # "free" /\ tab[i].pa = pa /\ tab[i].expires >= clktime}
           at == IF hit = {} THEN ARP_NENTRY + 1 ELSE Stack!Min(hit)
           new == [i \in D |-> IF i < at /\ tab[i].state # "free" /\ tab[i].expires < clktime
                               THEN Stack!FreeEntry ELSE tab[i]]
           g == Stack!arpGetEntry(tab, pa)
<1>1. ARP_NENTRY \in Nat
    BY NetAssumption
<1>2. DOMAIN tab = D /\ Len(tab) = ARP_NENTRY
  <2>1. DOMAIN tab = D
    BY DEF ArpTable
  <2> QED  BY <1>1, <2>1 DEF ArpTable
<1>3. g = [tab |-> new, at |-> IF hit = {} THEN 0 ELSE at]
    BY <1>2 DEF Stack!arpGetEntry
<1>4. g.tab = new /\ g.at = IF hit = {} THEN 0 ELSE at
    BY <1>3
<1>5. hit # {} => at \in hit
  <2> SUFFICES ASSUME hit # {} PROVE Stack!Min(hit) \in hit
    OBVIOUS
  <2>1. hit \subseteq Nat
    OBVIOUS
  <2> HIDE DEF hit
  <2>2. \E x \in hit : \A y \in hit : x <= y
    BY Zenon, <2>1, LeastNat
  <2> QED  BY <2>2 DEF Stack!Min
<1>6. \A i \in D : tab[i].expires \in Nat
    BY DEF ArpTable, IsEntry
<1>7. IsEntry(Stack!FreeEntry) /\ Stack!FreeEntry.state = "free"
    BY DEF IsEntry, Stack!FreeEntry
<1>8. \A i \in D : new[i] = tab[i] \/ new[i] = Stack!FreeEntry
    OBVIOUS
<1>9. ArpTable(new)
  <2> HIDE DEF at, hit
  <2>1. new = [i \in D |-> new[i]]
    OBVIOUS
  <2> HIDE DEF new
  <2> QED  BY <1>7, <1>8, <2>1 DEF ArpTable
<1>10. ASSUME hit = {}, NEW i \in D PROVE new[i].state = "free" \/ new[i].pa # pa
  <2>1. i < at /\ i \notin hit
    BY <1>1, <1>10
  <2>2. CASE tab[i].state # "free" /\ tab[i].pa = pa
    <3>1. tab[i].expires < clktime
        BY <1>6, <2>1, <2>2
    <3> QED  BY <1>7, <2>1, <2>2, <3>1
  <2>3. CASE ~(tab[i].state # "free" /\ tab[i].pa = pa)
    BY <1>7, <1>8, <2>3
  <2> QED  BY <2>2, <2>3
<1>11. ASSUME hit # {}
       PROVE  /\ at \in D /\ at # 0 /\ new[at] = tab[at]
              /\ tab[at].state # "free" /\ tab[at].pa = pa
  <2>1. at \in D /\ at # 0 /\ tab[at].state # "free" /\ tab[at].pa = pa
    BY <1>5, <1>11
  <2> QED  BY <2>1
<1> QED  BY Zenon, <1>4, <1>9, <1>10, <1>11

\* A table whose only entry for pa is replaced, or that had none and gets one, is a table.
LEMMA PutEntry ==
    ASSUME NEW tab, ArpTable(tab), NEW i, NEW e, IsEntry(e),
           \A k \in 1 .. ARP_NENTRY : tab[k].state = "free" \/ tab[k].pa # e.pa \/ k = i
    PROVE  ArpTable([tab EXCEPT ![i] = e])
<1> DEFINE u == [tab EXCEPT ![i] = e]
<1>1. u = [k \in 1 .. ARP_NENTRY |-> u[k]]
    BY Zenon DEF ArpTable
<1>2. \A k \in 1 .. ARP_NENTRY : u[k] = IF k = i THEN e ELSE tab[k]
    BY DEF ArpTable
<1> HIDE DEF u
<1>3. ArpTable(u)
    BY <1>1, <1>2 DEF ArpTable
<1> QED  BY <1>3 DEF u

\* arpLookup leaves a table, whether it found, made or gave up an entry.
LEMMA Lookup ==
    ASSUME ArpTable(arptab), clktime \in Nat, NEW pa, NEW pieces,
           NEW r \in Stack!arpLookup(pa, pieces)
    PROVE  ArpTable(r.tab)
<1> DEFINE g == Stack!arpGetEntry(arptab, pa)
           i == IF g.at # 0 THEN g.at ELSE Stack!arpAlloc(g.tab)
           e == IF g.at # 0 THEN g.tab[i]
                ELSE Stack!Entry("unresolved", pa, "none", TTL_UNRESOLVED, 0)
<1>1. /\ ArpTable(g.tab)
      /\ g.at = 0 => \A k \in 1 .. ARP_NENTRY : g.tab[k].state = "free" \/ g.tab[k].pa # pa
      /\ g.at # 0 => /\ g.at \in 1 .. ARP_NENTRY
                     /\ g.tab[g.at].state # "free" /\ g.tab[g.at].pa = pa
    BY GotEntry
<1>2. \/ r = [tab |-> g.tab, ok |-> TRUE, asked |-> 0]
      \/ \E n : r = [tab |-> [g.tab EXCEPT ![i] = [e EXCEPT !.count = e.count + n]],
                     ok |-> FALSE, asked |-> n]
    BY Zenon DEF Stack!arpLookup
<1> HIDE DEF g
<1>3. IsEntry(e) /\ e.pa = pa
  <2>1. CASE g.at # 0
    BY <1>1, <2>1 DEF ArpTable
  <2>2. CASE g.at = 0
    <3>1. clktime + TTL_UNRESOLVED \in Nat
        BY NetAssumption
    <3> QED  BY <2>2, <3>1 DEF IsEntry, Stack!Entry
  <2> QED  BY <2>1, <2>2
<1>4. \A k \in 1 .. ARP_NENTRY : g.tab[k].state = "free" \/ g.tab[k].pa # pa \/ k = i
    BY <1>1 DEF ArpTable
<1> HIDE DEF i, e
<1>5. ASSUME NEW n PROVE IsEntry([e EXCEPT !.count = e.count + n])
                         /\ [e EXCEPT !.count = e.count + n].pa = pa
    BY <1>3 DEF IsEntry
<1>6. ASSUME NEW n PROVE ArpTable([g.tab EXCEPT ![i] = [e EXCEPT !.count = e.count + n]])
  <2> DEFINE x == [e EXCEPT !.count = e.count + n]
  <2>1. IsEntry(x) /\ x.pa = pa
    BY <1>5
  <2> HIDE DEF x
  <2>2. ArpTable([g.tab EXCEPT ![i] = x])
    BY Zenon, <1>1, <1>4, <2>1, PutEntry
  <2> QED  BY <2>2 DEF x
<1> QED  BY <1>1, <1>2, <1>6

\* So does what arpRecv learns.
LEMMA Taught ==
    ASSUME ArpTable(arptab), clktime \in Nat, NEW spa, NEW sha, NEW forUs
    PROVE  ArpTable(Stack!arpTaught(spa, sha, forUs))
<1> DEFINE g == Stack!arpGetEntry(arptab, spa)
           i == IF g.at # 0 THEN g.at ELSE Stack!arpAlloc(g.tab)
           e(c) == Stack!Entry("resolved", spa, sha, TTL_RESOLVED, c)
<1>1. /\ ArpTable(g.tab)
      /\ g.at = 0 => \A k \in 1 .. ARP_NENTRY : g.tab[k].state = "free" \/ g.tab[k].pa # spa
      /\ g.at # 0 => /\ g.at \in 1 .. ARP_NENTRY
                     /\ g.tab[g.at].state # "free" /\ g.tab[g.at].pa = spa
    BY GotEntry
<1>2. \/ Stack!arpTaught(spa, sha, forUs) = g.tab
      \/ \E c : Stack!arpTaught(spa, sha, forUs) = [g.tab EXCEPT ![i] = e(c)]
    BY DEF Stack!arpTaught
<1>3. \A c : IsEntry(e(c)) /\ e(c).pa = spa
  <2>1. clktime + TTL_RESOLVED \in Nat
    BY NetAssumption
  <2> QED  BY <2>1 DEF IsEntry, Stack!Entry
<1> HIDE DEF g
<1>4. \A k \in 1 .. ARP_NENTRY : g.tab[k].state = "free" \/ g.tab[k].pa # spa \/ k = i
    BY <1>1 DEF ArpTable
<1> HIDE DEF i, e
<1>5. ASSUME NEW c PROVE ArpTable([g.tab EXCEPT ![i] = e(c)])
    BY Zenon, <1>1, <1>3, <1>4, PutEntry
<1> QED  BY <1>1, <1>2, <1>5

\* Whatever is sent, the table stays one.
LEMMA Sent ==
    ASSUME ArpTable(arptab), clktime \in Nat, NEW pa, NEW ipLen, NEW free,
           Stack!ipv4Send(pa, ipLen, free)
    PROVE  ArpTable(arptab')
<1>1. ASSUME NEW pieces, NEW f, Stack!netSend(pa, pieces, f) PROVE ArpTable(arptab')
    BY <1>1, Lookup DEF Stack!netSend
<1> QED  BY <1>1 DEF Stack!ipv4Send

\* The head of a queue whose buffer goes back to the pool.
LEMMA QueueTail ==
    ASSUME NEW q \in Seq(Waiting), q # << >>, Once(q)
    PROVE  /\ Tail(q) \in Seq(Waiting) /\ Once(Tail(q)) /\ 1 \in DOMAIN q /\ Head(q) = q[1]
           /\ \A i \in DOMAIN Tail(q) : i + 1 \in DOMAIN q /\ Tail(q)[i] = q[i + 1]
           /\ \A i \in DOMAIN Tail(q) : Tail(q)[i][1] # q[1][1]
<1>1. /\ Tail(q) \in Seq(Waiting) /\ 1 \in DOMAIN q /\ Head(q) = q[1]
      /\ \A i \in DOMAIN Tail(q) : i \in Nat /\ i # 0 /\ i + 1 \in DOMAIN q /\ Tail(q)[i] = q[i + 1]
    OBVIOUS
<1>2. ASSUME NEW i \in DOMAIN Tail(q), NEW j \in DOMAIN Tail(q), Tail(q)[i][1] = Tail(q)[j][1]
      PROVE  i = j
  <2>1. i + 1 = j + 1
    BY <1>1, <1>2 DEF Once
  <2> QED  BY <1>1, <2>1
<1>3. \A i \in DOMAIN Tail(q) : i + 1 # 1
    BY <1>1
<1>4. \A i \in DOMAIN Tail(q) : Tail(q)[i][1] # q[1][1]
    BY <1>1, <1>3 DEF Once
<1> QED  BY <1>1, <1>2, <1>4 DEF Once

\* A buffer that waits nowhere joins a queue.
LEMMA QueueAppend ==
    ASSUME NEW q \in Seq(Waiting), Once(q), NEW b \in Buf \cup {"NULL"}, NEW pa \in Addr,
           \A i \in DOMAIN q : q[i][1] # b
    PROVE  /\ Append(q, <<b, pa>>) \in Seq(Waiting) /\ Once(Append(q, <<b, pa>>))
           /\ \A i \in DOMAIN Append(q, <<b, pa>>) :
                 \/ Append(q, <<b, pa>>)[i][1] = b
                 \/ i \in DOMAIN q /\ Append(q, <<b, pa>>)[i] = q[i]
<1> DEFINE u == Append(q, <<b, pa>>)
<1>0. <<b, pa>> \in Waiting
    BY DEF Waiting
<1>1. /\ u \in Seq(Waiting) /\ DOMAIN u = 1 .. Len(q) + 1
      /\ DOMAIN q = 1 .. Len(q) /\ Len(q) \in Nat
      /\ u[Len(q) + 1] = <<b, pa>> /\ \A i \in 1 .. Len(q) : u[i] = q[i]
    BY <1>0
<1> HIDE DEF u
<1>2. \A i \in DOMAIN u : \/ i = Len(q) + 1 /\ u[i][1] = b
                          \/ i \in DOMAIN q /\ u[i] = q[i] /\ u[i][1] # b
    BY <1>1
<1>3. Once(u)
    BY <1>2 DEF Once
<1> QED  BY <1>1, <1>2, <1>3 DEF u

\* The stack's invariant holds at the start.
LEMMA StackInit ==
    ASSUME Stack!Init
    PROVE  StackInv
<1>1. OwnInv /\ clktime \in Nat
    BY DEF Stack!Init, OwnInv, Once
<1>2. ArpTable(arptab)
    BY DEF Stack!Init, ArpTable, IsEntry, Stack!FreeEntry
<1> QED  BY <1>1, <1>2 DEF StackInv

\* A step that leaves the queues, and takes buffers from the pool at most.
LEMMA OwnKept ==
    ASSUME OwnInv, UNCHANGED <<arpqueue, icmpqueue>>, pool' \subseteq pool, ~wild \/ wild' = wild,
           inited' = inited
    PROVE  OwnInv'
BY DEF OwnInv

\* What a received frame is read into is free, or nothing: it waits in no queue.
LEMMA FreshBuffer ==
    ASSUME OwnInv, NEW b, Stack!Received(b)
    PROVE  /\ b \in Buf \cup {"NULL"} /\ wild' = (b = "NULL") /\ inited /\ inited' = inited
           /\ clktime' = clktime /\ ~wild
           /\ \A i \in DOMAIN arpqueue : arpqueue[i][1] # b /\ arpqueue[i][1] # "NULL"
           /\ \A i \in DOMAIN icmpqueue : icmpqueue[i][1] # b /\ icmpqueue[i][1] # "NULL"
<1>1. /\ inited /\ ~wild /\ b = Stack!netGetbuf /\ wild' = (b = "NULL")
      /\ inited' = inited /\ clktime' = clktime
    BY DEF Stack!Received, Stack!Wild, Stack!NullBuf, Stack!env
<1>2. b = "NULL" \/ b \in pool
    BY <1>1 DEF Stack!netGetbuf, Stack!NullBuf
<1> QED  BY <1>1, <1>2 DEF OwnInv

\* Every step of the stack preserves the invariant.
LEMMA StackStep ==
    ASSUME StackInv, Stack!Next
    PROVE  StackInv'
<1>1. OwnInv /\ ArpTable(arptab) /\ clktime \in Nat
    BY DEF StackInv
<1>2. CASE Stack!netInit
  <2>1. /\ ~inited /\ inited' /\ pool' = Buf
        /\ UNCHANGED <<clktime, arptab, arpqueue, icmpqueue, wild>>
    BY <1>2 DEF Stack!netInit, Stack!queues
  <2>2. OwnInv'
    BY <1>1, <2>1 DEF OwnInv
  <2> QED  BY <1>1, <2>1, <2>2 DEF StackInv, ArpTable, IsEntry
<1>3. CASE Stack!netUp \/ Stack!netDown \/ Stack!Tick
  <2>1. /\ UNCHANGED <<inited, pool, arptab, arpqueue, icmpqueue, wild>>
        /\ clktime' = clktime \/ clktime' = clktime + 1
    BY <1>3 DEF Stack!netUp, Stack!netDown, Stack!Tick, Stack!queues
  <2>2. OwnInv'
    BY <1>1, <2>1, OwnKept
  <2> QED  BY <1>1, <2>1, <2>2 DEF StackInv, ArpTable, IsEntry
<1>4. ASSUME NEW pa, NEW n, Stack!SendOwn(pa, n)
      PROVE  StackInv'
  <2>1. ~wild /\ pool' = pool /\ UNCHANGED <<inited, clktime, arpqueue, icmpqueue>>
    BY <1>4 DEF Stack!SendOwn, Stack!env, Stack!queues
  <2>2. ArpTable(arptab')
    BY <1>1, <1>4, Sent DEF Stack!SendOwn
  <2>3. OwnInv'
    BY <1>1, <2>1, OwnKept
  <2> QED  BY <1>1, <2>1, <2>2, <2>3 DEF StackInv
<1>5. CASE Stack!icmpDaemon
  <2>1. inited /\ ~wild /\ UNCHANGED <<inited, clktime, arpqueue>>
    BY <1>5 DEF Stack!icmpDaemon, Stack!env
  <2>2. CASE icmpqueue = << >>
    <3>1. UNCHANGED <<pool, icmpqueue, arptab>>
        BY <1>5, <2>2 DEF Stack!icmpDaemon
    <3> QED  BY <1>1, <2>1, <3>1, OwnKept DEF StackInv
  <2>3. CASE icmpqueue # << >>
    <3>1. /\ icmpqueue' = Tail(icmpqueue) /\ pool' = Stack!netFreebuf(pool, Head(icmpqueue)[1])
          /\ Stack!icmpEchoReply(Head(icmpqueue)[2])
        BY <1>5, <2>3 DEF Stack!icmpDaemon
    <3>2. ArpTable(arptab')
        BY <1>1, <3>1, Sent DEF Stack!icmpEchoReply
    <3>3. /\ icmpqueue' \in Seq(Waiting) /\ Once(icmpqueue') /\ 1 \in DOMAIN icmpqueue
          /\ Head(icmpqueue) = icmpqueue[1]
          /\ \A i \in DOMAIN icmpqueue' :
                i + 1 \in DOMAIN icmpqueue /\ icmpqueue'[i] = icmpqueue[i + 1]
          /\ \A i \in DOMAIN icmpqueue' : icmpqueue'[i][1] # icmpqueue[1][1]
        BY <1>1, <2>3, <3>1, QueueTail DEF OwnInv
    <3>4. icmpqueue[1] \in Waiting
        BY <1>1, <3>3 DEF OwnInv
    <3>5. icmpqueue[1][1] \in Buf /\ icmpqueue[1][1] # "NULL"
        BY <1>1, <2>1, <3>3, <3>4 DEF OwnInv, Waiting
    <3>6. pool' = pool \cup {icmpqueue[1][1]}
        BY <3>1, <3>3, <3>5 DEF Stack!netFreebuf, Stack!NullBuf
    <3>7. OwnInv'
        BY <1>1, <2>1, <3>3, <3>5, <3>6 DEF OwnInv
    <3> QED  BY <1>1, <2>1, <3>2, <3>7 DEF StackInv
  <2> QED  BY <2>2, <2>3
<1>6. CASE Stack!arpDaemon
  <2>1. inited /\ ~wild /\ UNCHANGED <<inited, clktime, icmpqueue, arptab>>
    BY <1>6 DEF Stack!arpDaemon, Stack!env, Stack!arpSendReply
  <2>2. /\ arpqueue # << >> /\ arpqueue' = Tail(arpqueue)
        /\ pool' = Stack!netFreebuf(pool, Head(arpqueue)[1])
    BY <1>6 DEF Stack!arpDaemon
  <2>3. /\ arpqueue' \in Seq(Waiting) /\ Once(arpqueue') /\ 1 \in DOMAIN arpqueue
        /\ Head(arpqueue) = arpqueue[1]
        /\ \A i \in DOMAIN arpqueue' : i + 1 \in DOMAIN arpqueue /\ arpqueue'[i] = arpqueue[i + 1]
        /\ \A i \in DOMAIN arpqueue' : arpqueue'[i][1] # arpqueue[1][1]
    BY <1>1, <2>2, QueueTail DEF OwnInv
  <2>4. arpqueue[1] \in Waiting
    BY <1>1, <2>3 DEF OwnInv
  <2>5. arpqueue[1][1] \in Buf /\ arpqueue[1][1] # "NULL"
    BY <1>1, <2>1, <2>3, <2>4 DEF OwnInv, Waiting
  <2>6. pool' = pool \cup {arpqueue[1][1]}
    BY <2>2, <2>3, <2>5 DEF Stack!netFreebuf, Stack!NullBuf
  <2>7. OwnInv'
    BY <1>1, <2>1, <2>3, <2>5, <2>6 DEF OwnInv
  <2> QED  BY <1>1, <2>1, <2>7 DEF StackInv
<1>7. ASSUME NEW b, Stack!RecvFreed(b) \/ Stack!RecvStub(b)
      PROVE  StackInv'
  <2>1. Stack!Received(b) /\ UNCHANGED <<arptab, arpqueue, icmpqueue>>
        /\ (pool' = Stack!netFreebuf(pool \ {b}, b) \/ pool' = pool \ {b})
    BY <1>7 DEF Stack!RecvFreed, Stack!RecvStub, Stack!queues
  <2>2. inited' = inited /\ clktime' = clktime /\ ~wild
    BY <1>1, <2>1, FreshBuffer
  <2>3. pool' \subseteq pool
    BY <2>1 DEF Stack!Received, Stack!netGetbuf, Stack!netFreebuf, Stack!NullBuf
  <2> QED  BY <1>1, <2>1, <2>2, <2>3, OwnKept DEF StackInv
<1>8. ASSUME NEW b, NEW pa \in Addr, Stack!RecvEcho(b, pa)
      PROVE  StackInv'
  <2>1. /\ Stack!Received(b) /\ pool' = pool \ {b} /\ UNCHANGED <<arptab, arpqueue>>
        /\ icmpqueue' = icmpqueue \/ icmpqueue' = Append(icmpqueue, <<b, pa>>)
    BY <1>8 DEF Stack!RecvEcho
  <2>2. /\ b \in Buf \cup {"NULL"} /\ wild' = (b = "NULL") /\ inited /\ inited' = inited
        /\ clktime' = clktime /\ ~wild
        /\ \A i \in DOMAIN arpqueue : arpqueue[i][1] # b /\ arpqueue[i][1] # "NULL"
        /\ \A i \in DOMAIN icmpqueue : icmpqueue[i][1] # b /\ icmpqueue[i][1] # "NULL"
    BY <1>1, <2>1, FreshBuffer
  <2>3. CASE icmpqueue' = icmpqueue
    BY <1>1, <2>1, <2>2, <2>3, OwnKept DEF StackInv
  <2>4. CASE icmpqueue' = Append(icmpqueue, <<b, pa>>)
    <3>1. /\ icmpqueue' \in Seq(Waiting) /\ Once(icmpqueue')
          /\ \A i \in DOMAIN icmpqueue' : \/ icmpqueue'[i][1] = b
                                          \/ i \in DOMAIN icmpqueue /\ icmpqueue'[i] = icmpqueue[i]
        BY ZenonT(40), <1>1, <2>2, <2>4, QueueAppend DEF OwnInv
    <3>2. OwnInv'
      <4>1. OwnInv
        BY <1>1 DEF StackInv
      <4>2. /\ \A i \in DOMAIN icmpqueue' : icmpqueue'[i][1] \notin pool'
            /\ \A i \in DOMAIN arpqueue' : arpqueue'[i][1] \notin pool'
        BY <2>1, <3>1, <4>1 DEF OwnInv
      <4>3. \A i \in DOMAIN arpqueue', j \in DOMAIN icmpqueue' : arpqueue'[i][1] # icmpqueue'[j][1]
        BY <2>1, <2>2, <3>1, <4>1 DEF OwnInv
      <4>4. ~wild' => /\ \A i \in DOMAIN arpqueue' : arpqueue'[i][1] # "NULL"
                      /\ \A i \in DOMAIN icmpqueue' : icmpqueue'[i][1] # "NULL"
        BY Zenon, <2>1, <2>2, <3>1
      <4>5. pool' \subseteq Buf /\ arpqueue' \in Seq(Waiting) /\ Once(arpqueue')
        BY <2>1, <4>1 DEF OwnInv
      <4> QED  BY <2>2, <3>1, <4>2, <4>3, <4>4, <4>5 DEF OwnInv
    <3> QED  BY <1>1, <2>1, <2>2, <3>2 DEF StackInv
  <2> QED  BY <2>1, <2>3, <2>4
<1>9. ASSUME NEW b, NEW pa \in Addr, NEW hwa, NEW forUs \in BOOLEAN, NEW request \in BOOLEAN,
             Stack!arpRecv(b, pa, hwa, forUs, request)
      PROVE  StackInv'
  <2>1. /\ Stack!Received(b) /\ UNCHANGED icmpqueue
        /\ arptab' = Stack!arpTaught(pa, hwa, forUs)
        /\ \/ arpqueue' = arpqueue /\ pool' = pool
           \/ arpqueue' = Append(arpqueue, <<b, pa>>) /\ pool' = pool \ {b}
    BY <1>9 DEF Stack!arpRecv, Stack!KeepsBuffer
  <2>2. /\ b \in Buf \cup {"NULL"} /\ wild' = (b = "NULL") /\ inited /\ inited' = inited
        /\ clktime' = clktime /\ ~wild
        /\ \A i \in DOMAIN arpqueue : arpqueue[i][1] # b /\ arpqueue[i][1] # "NULL"
        /\ \A i \in DOMAIN icmpqueue : icmpqueue[i][1] # b /\ icmpqueue[i][1] # "NULL"
    BY <1>1, <2>1, FreshBuffer
  <2>3. ArpTable(arptab')
    BY <1>1, <2>1, Taught
  <2>4. CASE arpqueue' = arpqueue /\ pool' = pool
    BY <1>1, <2>1, <2>2, <2>3, <2>4, OwnKept DEF StackInv
  <2>5. CASE arpqueue' = Append(arpqueue, <<b, pa>>) /\ pool' = pool \ {b}
    <3>1. /\ arpqueue' \in Seq(Waiting) /\ Once(arpqueue')
          /\ \A i \in DOMAIN arpqueue' : \/ arpqueue'[i][1] = b
                                         \/ i \in DOMAIN arpqueue /\ arpqueue'[i] = arpqueue[i]
        BY <1>1, <2>2, <2>5, QueueAppend DEF OwnInv
    <3>2. ASSUME NEW i \in DOMAIN arpqueue'
          PROVE  /\ arpqueue'[i][1] \notin pool'
                 /\ \A j \in DOMAIN icmpqueue' : arpqueue'[i][1] # icmpqueue'[j][1]
                 /\ ~wild' => arpqueue'[i][1] # "NULL"
      <4>1. CASE arpqueue'[i][1] = b
        BY Zenon, <2>1, <2>2, <2>5, <4>1
      <4>2. CASE i \in DOMAIN arpqueue /\ arpqueue'[i] = arpqueue[i]
        BY <1>1, <2>1, <2>2, <2>5, <4>2 DEF OwnInv
      <4> QED  BY <3>1, <4>1, <4>2
    <3>3. pool' \subseteq Buf /\ inited'
        BY <1>1, <2>2, <2>5 DEF OwnInv
    <3>4. \A i \in DOMAIN icmpqueue' : icmpqueue'[i][1] \notin pool' /\ icmpqueue'[i][1] # "NULL"
        BY <1>1, <2>1, <2>2, <2>5 DEF OwnInv
    <3>5. icmpqueue' \in Seq(Waiting) /\ Once(icmpqueue')
        BY <1>1, <2>1 DEF OwnInv
    <3>6. OwnInv'
        BY ONLY <3>1, <3>2, <3>3, <3>4, <3>5 DEF OwnInv
    <3> QED  BY <1>1, <2>2, <2>3, <3>6 DEF StackInv
  <2> QED  BY <2>1, <2>4, <2>5
<1>10. ASSUME NEW pa, \/ Stack!icmpEchoRequest(pa) \/ Stack!icmpDestUnreach(pa)
                      \/ Stack!icmpTimeExceeded(pa) \/ Stack!icmpRedirect(pa)
       PROVE  StackInv'
    BY <1>4, <1>10 DEF Stack!icmpEchoRequest, Stack!icmpDestUnreach, Stack!icmpTimeExceeded,
        Stack!icmpRedirect, Stack!icmpSend
<1> QED  BY <1>2, <1>3, <1>4, <1>5, <1>6, <1>7, <1>8, <1>9, <1>10 DEF Stack!Next

\* The invariant implies what the run checks.
LEMMA StackSound ==
    ASSUME StackInv
    PROVE  Stack!BufferOwnedOnce /\ Stack!ArpUnique
<1>1. OwnInv /\ ArpTable(arptab)
    BY DEF StackInv
<1>2. Stack!ArpUnique
    BY <1>1 DEF ArpTable, Stack!ArpUnique
<1> DEFINE m == Len(arpqueue)
           k == Len(icmpqueue)
           q == [i \in 1 .. m + k |-> (arpqueue \o icmpqueue)[i][1]]
<1>3. m \in Nat /\ k \in Nat /\ DOMAIN arpqueue = 1 .. m /\ DOMAIN icmpqueue = 1 .. k
    BY <1>1 DEF OwnInv
<1>4. \A i \in 1 .. m + k :
         (arpqueue \o icmpqueue)[i] = IF i <= m THEN arpqueue[i] ELSE icmpqueue[i - m]
    BY <1>1, <1>3 DEF OwnInv
<1> HIDE DEF m, k
<1>5. \A i \in 1 .. m + k : q[i] = IF i <= m THEN arpqueue[i][1] ELSE icmpqueue[i - m][1]
    BY Zenon, <1>4
<1>6. DOMAIN q = 1 .. m + k
    OBVIOUS
<1> HIDE DEF q
<1>7. \A i \in 1 .. m + k : \/ i <= m /\ i \in DOMAIN arpqueue
                            \/ ~(i <= m) /\ i - m \in DOMAIN icmpqueue
    BY <1>3
<1>8. ASSUME NEW i \in 1 .. m + k, NEW j \in 1 .. m + k, q[i] = q[j] PROVE i = j
  <2>1. CASE i <= m /\ j <= m
    BY <1>1, <1>5, <1>7, <1>8, <2>1 DEF OwnInv, Once
  <2>2. CASE ~(i <= m) /\ ~(j <= m)
    <3>1. i - m = j - m
        BY <1>1, <1>5, <1>7, <1>8, <2>2 DEF OwnInv, Once
    <3> QED  BY <1>3, <3>1
  <2>3. CASE (i <= m /\ ~(j <= m)) \/ (~(i <= m) /\ j <= m)
    BY <1>1, <1>5, <1>7, <1>8, <2>3 DEF OwnInv
  <2> QED  BY <2>1, <2>2, <2>3
<1>9. \A i \in 1 .. m + k : q[i] \notin pool
    BY <1>1, <1>5, <1>7 DEF OwnInv
<1>10. Stack!IsInjective(q)
    BY <1>6, <1>8 DEF Stack!IsInjective
<1>11. Stack!Range(q) \cap pool \subseteq {}
    BY <1>6, <1>9 DEF Stack!Range
<1>12. Stack!BufferOwnedOnce
    BY Zenon, <1>10, <1>11 DEF Stack!BufferOwnedOnce, q, m, k
<1> QED  BY <1>2, <1>12

-----------------------------------------------------------------------------
(* The routes that keep state (HttpRoutes).                                *)

\* What is staged of the kernel being uploaded.
UploadInv ==
    /\ image_up \in [img : Nat, next : Nat] /\ g_chain_len \in Nat
    /\ image_up.img # 0 => /\ image_up.img \in DOMAIN Image /\ image_up.next <= Image[image_up.img]
                           /\ image_up.next <= CAP
    /\ image_up.img = 0 => image_up.next = 0
    /\ g_chain_stage \in {<< >>} \cup [1 .. CAP -> Routes!Byte]
    /\ image_up.next > 0 => /\ g_chain_stage # << >> /\ g_chain_len = image_up.next
                            /\ \A i \in 1 .. image_up.next :
                                  g_chain_stage[i] = <<image_up.img, i - 1>>
    /\ Routes!BootsUpload

\* The rows sent are rows of the copy.
SnapInv == got \in Seq(Nat) /\ snap \in Nat /\ camera \in Nat /\ \A i \in DOMAIN got : got[i] = snap

\* There is a hog only in the loaded measurement, and it is gone when the drain is over.
HogInv ==
    /\ left \in Nat
    /\ \/ hogs = << >>
       \/ /\ serving \in {"loaded", "drain2"}
          /\ \E h \in 1 .. CHUNK : hogs = <<h>> /\ (serving = "drain2" => h <= left)
    /\ serving = "drain2" => g_jit_hog_run = 0

RoutesInv == UploadInv /\ SnapInv /\ HogInv

\* The routes' invariant holds at the start.
LEMMA RoutesInit ==
    ASSUME Routes!Init
    PROVE  RoutesInv
<1>1. UploadInv
    BY DEF Routes!Init, UploadInv, Routes!Nothing, Routes!BootsUpload
<1>2. SnapInv /\ HogInv
    BY DEF Routes!Init, SnapInv, HogInv
<1> QED  BY <1>1, <1>2 DEF RoutesInv

\* A byte staged at its place; the first one allocates the buffer.
LEMMA Posted ==
    ASSUME UploadInv, image_up.img # 0, NEW off \in Nat, off < CAP, off <= image_up.next,
           Routes!chainload_post(off, <<image_up.img, off>>)
    PROVE  /\ g_chain_stage' \in [1 .. CAP -> Routes!Byte]
           /\ g_chain_len' = IF off = image_up.next THEN off + 1
                             ELSE IF off = 0 THEN 1 ELSE image_up.next
           /\ g_chain_stage'[off + 1] = <<image_up.img, off>>
           /\ \A i \in 1 .. image_up.next : g_chain_stage'[i] = <<image_up.img, i - 1>>
<1> DEFINE stage == IF off = 0 /\ g_chain_stage = << >> THEN [i \in 1 .. CAP |-> "garbage"]
                    ELSE g_chain_stage
           len == IF off = 0 THEN 0 ELSE g_chain_len
           b == <<image_up.img, off>>
<1>1. CAP \in Nat /\ CAP # 0
    BY NetAssumption
<1>2. /\ image_up.img \in Nat /\ image_up.next \in Nat /\ g_chain_len \in Nat
      /\ image_up.img \in DOMAIN Image
    BY DEF UploadInv
<1>3. stage \in [1 .. CAP -> Routes!Byte] /\ stage # << >>
  <2>1. [i \in 1 .. CAP |-> "garbage"] \in [1 .. CAP -> Routes!Byte]
    BY DEF Routes!Byte
  <2>2. CASE g_chain_stage = << >>
    <3>1. off = 0
        BY <1>2, <2>2 DEF UploadInv
    <3> QED  BY <1>1, <2>1, <2>2, <3>1
  <2>3. CASE g_chain_stage # << >>
    <3>1. g_chain_stage \in [1 .. CAP -> Routes!Byte] /\ stage = g_chain_stage
        BY <2>3 DEF UploadInv
    <3> QED  BY <2>3, <3>1
  <2> QED  BY <2>2, <2>3
<1>4. b \in Routes!Byte
    BY <1>1, <1>2 DEF Routes!Byte
<1>5. /\ g_chain_stage' = [stage EXCEPT ![off + 1] = b]
      /\ g_chain_len' = IF off + 1 > len THEN off + 1 ELSE len
  <2>1. ~(off + 1 > CAP) /\ stage # << >>
    BY <1>1, <1>3
  <2> QED  BY Zenon, <2>1 DEF Routes!chainload_post, Routes!Nothing
<1>6. off + 1 \in 1 .. CAP
    BY <1>1
<1>7. \A i \in 1 .. image_up.next : i \in 1 .. CAP /\ stage[i] = <<image_up.img, i - 1>>
    BY <1>1, <1>2 DEF UploadInv
<1> HIDE DEF stage
<1>8. /\ g_chain_stage' \in [1 .. CAP -> Routes!Byte]
      /\ \A i \in 1 .. CAP : g_chain_stage'[i] = IF i = off + 1 THEN b ELSE stage[i]
    BY <1>3, <1>4, <1>5, <1>6
<1>9. \A i \in 1 .. image_up.next : g_chain_stage'[i] = <<image_up.img, i - 1>>
    BY <1>2, <1>7, <1>8
<1>10. g_chain_len' = IF off = image_up.next THEN off + 1 ELSE IF off = 0 THEN 1 ELSE image_up.next
    BY <1>2, <1>5 DEF UploadInv
<1> QED  BY <1>6, <1>8, <1>9, <1>10

\* The upload's part of the invariant is kept by every step.
LEMMA UploadStep ==
    ASSUME UploadInv, Routes!Next
    PROVE  UploadInv'
<1>0. /\ image_up \in [img : Nat, next : Nat] /\ image_up.img \in Nat /\ image_up.next \in Nat
      /\ CAP \in Nat /\ CAP # 0
    BY NetAssumption DEF UploadInv
<1>1. ASSUME NEW k \in DOMAIN Image, Routes!StartUpload(k) PROVE UploadInv'
  <2>1. /\ booted = << >> /\ image_up' = [img |-> k, next |-> 0]
        /\ UNCHANGED <<g_chain_stage, g_chain_len, booted>>
    BY <1>1 DEF Routes!StartUpload, Routes!Idle, Routes!Nothing
  <2>2. k \in Nat /\ k # 0 /\ Image[k] \in Nat /\ Image[k] > 0
    BY NetAssumption
  <2>3. image_up' \in [img : Nat, next : Nat] /\ image_up'.img = k /\ image_up'.next = 0
    BY <2>1, <2>2
  <2>4. Routes!BootsUpload'
    BY <2>1 DEF Routes!BootsUpload, Routes!Nothing
  <2> QED  BY <1>0, <2>1, <2>2, <2>3, <2>4 DEF UploadInv
<1>2. ASSUME Routes!SendByte PROVE UploadInv'
  <2>1. /\ booted = << >> /\ booted' = booted /\ image_up.img # 0
        /\ image_up.next < Image[image_up.img]
        /\ Routes!chainload_post(image_up.next, <<image_up.img, image_up.next>>)
        /\ image_up' = IF image_up.next + 1 > CAP THEN [img |-> 0, next |-> 0]
                       ELSE [image_up EXCEPT !.next = image_up.next + 1]
    BY <1>2 DEF Routes!SendByte, Routes!Idle, Routes!Nothing
  <2>2. image_up.img \in DOMAIN Image /\ Image[image_up.img] \in Nat
    <3>1. image_up.img \in DOMAIN Image
        BY <2>1 DEF UploadInv
    <3>2. Image \in Seq(Nat \ {0})
        BY NetAssumption
    <3> QED  BY <3>1, <3>2
  <2>3. Routes!BootsUpload'
    BY <2>1 DEF Routes!BootsUpload, Routes!Nothing
  <2>4. CASE image_up.next + 1 > CAP
    <3>1. /\ image_up' = [img |-> 0, next |-> 0]
          /\ image_up' \in [img : Nat, next : Nat] /\ image_up'.img = 0 /\ image_up'.next = 0
        BY <2>1, <2>4
    <3>2. image_up.next > 0 /\ g_chain_stage # << >> /\ g_chain_len = image_up.next
        BY <1>0, <2>4 DEF UploadInv
    <3>3. g_chain_stage' = g_chain_stage /\ g_chain_len' = g_chain_len
        BY <1>0, <2>1, <2>4, <3>2 DEF Routes!chainload_post, Routes!Nothing
    <3> QED  BY <2>3, <3>1, <3>3 DEF UploadInv
  <2>5. CASE ~(image_up.next + 1 > CAP)
    <3> DEFINE n == image_up.next
    <3>1. /\ image_up' = [img |-> image_up.img, next |-> n + 1]
          /\ image_up' \in [img : Nat, next : Nat] /\ image_up'.img = image_up.img
          /\ image_up'.next = n + 1
        BY <1>0, <2>1, <2>5
    <3>2. /\ g_chain_stage' \in [1 .. CAP -> Routes!Byte] /\ g_chain_len' = n + 1
          /\ g_chain_stage'[n + 1] = <<image_up.img, n>>
          /\ \A i \in 1 .. n : g_chain_stage'[i] = <<image_up.img, i - 1>>
        BY <1>0, <2>1, <2>5, Posted
    <3>3. ASSUME NEW i \in 1 .. n + 1 PROVE g_chain_stage'[i] = <<image_up.img, i - 1>>
      <4>1. CASE i = n + 1
        <5>1. i - 1 = n
          BY <1>0, <4>1
        <5> QED  BY <3>2, <4>1, <5>1
      <4>2. CASE i # n + 1
        BY <1>0, <3>2, <4>2
      <4> QED  BY <4>1, <4>2
    <3>4. g_chain_stage' # << >>
        BY <1>0, <3>2
    <3> QED  BY <1>0, <2>1, <2>2, <2>3, <2>5, <3>1, <3>2, <3>3, <3>4 DEF UploadInv
  <2> QED  BY <2>4, <2>5
<1>3. ASSUME Routes!ResendByte PROVE UploadInv'
  <2> DEFINE n == image_up.next
  <2>1. /\ booted' = booted /\ image_up.img # 0 /\ n > 0 /\ image_up' = image_up /\ booted = << >>
        /\ Routes!chainload_post(n - 1, <<image_up.img, n - 1>>)
    BY <1>3 DEF Routes!ResendByte, Routes!Idle, Routes!Nothing
  <2>2. n - 1 \in Nat /\ n - 1 < CAP /\ n - 1 <= n
    BY <1>0, <2>1 DEF UploadInv
  <2>3. /\ g_chain_stage' \in [1 .. CAP -> Routes!Byte] /\ g_chain_len' = n
        /\ \A i \in 1 .. n : g_chain_stage'[i] = <<image_up.img, i - 1>>
    BY <1>0, <2>1, <2>2, Posted
  <2>4. g_chain_stage' # << >>
    BY <1>0, <2>3
  <2>5. Routes!BootsUpload'
    BY <2>1 DEF Routes!BootsUpload, Routes!Nothing
  <2> QED  BY Zenon, <1>0, <2>1, <2>3, <2>4, <2>5 DEF UploadInv
<1>4. ASSUME Routes!Go PROVE UploadInv'
  <2>1. /\ UNCHANGED <<g_chain_stage, g_chain_len, image_up>> /\ image_up.img # 0
        /\ image_up.next = Image[image_up.img]
    BY <1>4 DEF Routes!Go
  <2>2. PICK n \in {Image[image_up.img], g_chain_len} : booted' = SubSeq(g_chain_stage, 1, n)
    BY Zenon, <1>4 DEF Routes!Go, Routes!chainload_go
  <2>3. image_up.img \in DOMAIN Image /\ Image[image_up.img] \in Nat /\ Image[image_up.img] > 0
    BY <2>1, NetAssumption DEF UploadInv
  <2>4. /\ n = image_up.next /\ n \in Nat /\ n <= CAP
        /\ g_chain_stage \in [1 .. CAP -> Routes!Byte]
        /\ \A i \in 1 .. n : g_chain_stage[i] = <<image_up.img, i - 1>>
    BY <1>0, <2>1, <2>2, <2>3 DEF UploadInv
  <2>5. g_chain_stage \in Seq(Routes!Byte) /\ Len(g_chain_stage) = CAP
    BY <1>0, <2>4
  <2>6. SubSeq(g_chain_stage, 1, n) = [i \in 1 .. n |-> g_chain_stage[i]]
    BY <1>0, <2>4, <2>5
  <2>7. booted' = [i \in 1 .. Image[image_up.img] |-> <<image_up.img, i - 1>>]
    BY Zenon, <2>1, <2>2, <2>4, <2>6
  <2>8. Routes!BootsUpload'
    BY <2>1, <2>7 DEF Routes!BootsUpload
  <2> QED  BY <2>1, <2>8 DEF UploadInv
<1>5. ASSUME UNCHANGED <<g_chain_stage, g_chain_len, image_up, booted>> PROVE UploadInv'
    BY <1>5 DEF UploadInv, Routes!BootsUpload, Routes!Nothing
<1> QED  BY Zenon, <1>1, <1>2, <1>3, <1>4, <1>5 DEF Routes!Next, Routes!CameraFrame, Routes!CamRow,
        Routes!CamDims, Routes!RtosJitter, Routes!jit_measure, Routes!jit_hog, Routes!JitDrain,
        Routes!JitNext, Routes!BenchStart, Routes!BenchEnd, Routes!WifiAdhoc,
        Routes!wifi_adhoc_poll_pending, Routes!chain

\* So is the camera's.
LEMMA SnapStep ==
    ASSUME SnapInv, Routes!Next
    PROVE  SnapInv'
<1>1. ASSUME UNCHANGED <<camera, snap, got>> PROVE SnapInv'
    BY <1>1 DEF SnapInv
<1>2. ASSUME Routes!CameraFrame PROVE SnapInv'
    BY <1>2 DEF SnapInv, Routes!CameraFrame
<1>3. ASSUME Routes!CamDims PROVE SnapInv'
    BY <1>3 DEF SnapInv, Routes!CamDims, Routes!cam_snapshot
<1>4. ASSUME Routes!CamRow PROVE SnapInv'
  <2> DEFINE off == Len(got) % ROWS
  <2>1. /\ camera' = camera /\ snap' = Routes!cam_snapshot(off)
        /\ got' = IF off = 0 THEN <<snap'>> ELSE Append(got, snap')
    BY <1>4 DEF Routes!CamRow
  <2> HIDE DEF off
  <2>2. snap' \in Nat /\ (off # 0 => snap' = snap)
    BY <2>1 DEF SnapInv, Routes!cam_snapshot
  <2>3. CASE off = 0
    BY <2>1, <2>2, <2>3 DEF SnapInv
  <2>4. CASE off # 0
    <3>1. /\ got' = Append(got, snap) /\ got' \in Seq(Nat) /\ got \in Seq(Nat)
          /\ DOMAIN got = 1 .. Len(got) /\ Len(got) \in Nat
        BY <2>1, <2>2, <2>4 DEF SnapInv
    <3>2. \A i \in DOMAIN got' : (i \in DOMAIN got /\ got'[i] = got[i]) \/ got'[i] = snap
        BY <3>1
    <3> QED  BY <2>1, <2>2, <2>4, <3>1, <3>2 DEF SnapInv
  <2> QED  BY <2>3, <2>4
<1> QED  BY Zenon, <1>1, <1>2, <1>3, <1>4 DEF Routes!Next, Routes!StartUpload, Routes!SendByte,
        Routes!ResendByte, Routes!Go, Routes!RtosJitter, Routes!jit_measure, Routes!jit_hog,
        Routes!JitDrain, Routes!JitNext, Routes!BenchStart, Routes!BenchEnd, Routes!WifiAdhoc,
        Routes!wifi_adhoc_poll_pending, Routes!cam

\* And the measurements'.
LEMMA HogStep ==
    ASSUME HogInv, Routes!Next
    PROVE  HogInv'
<1>0. CHUNK \in Nat /\ CHUNK # 0 /\ YIELDS \in Nat /\ CHUNK <= YIELDS
    BY NetAssumption
<1>1. ASSUME UNCHANGED <<serving, hogs, g_jit_hog_run, left>> PROVE HogInv'
    BY <1>1 DEF HogInv
<1>2. ASSUME NEW pe, Routes!RtosJitter(pe) PROVE HogInv'
    BY <1>2 DEF HogInv, Routes!RtosJitter, Routes!jit_run, Routes!Idle
<1>3. ASSUME Routes!jit_measure PROVE HogInv'
    BY <1>3 DEF HogInv, Routes!jit_measure
<1>4. ASSUME Routes!jit_hog PROVE HogInv'
  <2>1. PICK h \in 1 .. CHUNK : /\ hogs = <<h>> /\ serving \in {"loaded", "drain2"}
                                /\ (serving = "drain2" => h <= left)
    BY <1>4 DEF HogInv, Routes!jit_hog
  <2>2. /\ UNCHANGED <<serving, g_jit_hog_run>>
        /\ serving = "loaded" => left' = left
        /\ serving = "drain2" => left > 0 /\ left' = left - 1 /\ g_jit_hog_run = 0
    BY <1>4, <2>1 DEF HogInv, Routes!jit_hog
  <2>3. left \in Nat /\ left' \in Nat
    BY <2>1, <2>2 DEF HogInv
  <2>4. \/ hogs' = << >>
        \/ h > 1 /\ hogs' = <<h - 1>>
        \/ g_jit_hog_run = 1 /\ hogs' = <<h>>
        \/ g_jit_hog_run = 1 /\ hogs' = <<CHUNK>>
    <3>1. hogs' = IF g_preempt = 1 THEN Routes!HogSlice(1)
                  ELSE IF g_jit_hog_run = 1 THEN hogs ELSE Tail(hogs)
        BY <1>4 DEF Routes!jit_hog
    <3>2. Tail(hogs) = << >>
        BY <2>1
    <3>3. Routes!RemoveAt(hogs, 1) = << >>
        BY <2>1 DEF Routes!RemoveAt
    <3>4. [hogs EXCEPT ![1] = hogs[1] - 1] = <<h - 1>> /\ [hogs EXCEPT ![1] = CHUNK] = <<CHUNK>>
        BY <2>1
    <3>5. hogs[1] = h
        BY <2>1
    <3> QED  BY <2>1, <3>1, <3>2, <3>3, <3>4, <3>5 DEF Routes!HogSlice
  <2>5. CASE hogs' = << >>
    BY <2>2, <2>3, <2>5 DEF HogInv
  <2>6. CASE h > 1 /\ hogs' = <<h - 1>>
    <3>1. h - 1 \in 1 .. CHUNK /\ (serving = "drain2" => h - 1 <= left')
        BY <1>0, <2>1, <2>2, <2>3, <2>6
    <3> QED  BY <2>1, <2>2, <2>3, <2>6, <3>1 DEF HogInv
  <2>7. CASE g_jit_hog_run = 1 /\ (hogs' = <<h>> \/ hogs' = <<CHUNK>>)
    <3>1. serving = "loaded" /\ CHUNK \in 1 .. CHUNK
        BY <1>0, <2>1, <2>2, <2>7
    <3> QED  BY <2>1, <2>2, <2>3, <2>7, <3>1 DEF HogInv
  <2> QED  BY <2>4, <2>5, <2>6, <2>7
<1>5. ASSUME Routes!JitDrain PROVE HogInv'
  <2>1. /\ serving \in {"idle", "loaded"} /\ g_jit_hog_run' = 0 /\ left' = YIELDS /\ hogs' = hogs
        /\ serving' = IF serving = "idle" THEN "drain1" ELSE "drain2"
    BY <1>5 DEF Routes!JitDrain
  <2>2. CASE hogs = << >>
    BY <1>0, <2>1, <2>2 DEF HogInv
  <2>3. CASE hogs # << >>
    <3>1. PICK h \in 1 .. CHUNK : hogs = <<h>> /\ serving = "loaded"
        BY <2>1, <2>3 DEF HogInv
    <3>2. h <= YIELDS
        BY <1>0
    <3> QED  BY <1>0, <2>1, <3>1, <3>2 DEF HogInv
  <2> QED  BY <2>2, <2>3
<1>6. ASSUME Routes!JitNext PROVE HogInv'
  <2>1. hogs = << >>
    <3>1. ASSUME NEW h \in 1 .. CHUNK, serving = "drain2", h <= left, left = 0 PROVE FALSE
        BY <1>0, <3>1
    <3> QED  BY <1>6, <3>1 DEF HogInv, Routes!JitNext
  <2>2. CASE serving = "drain1"
    <3>1. serving' = "loaded" /\ hogs' = Append(hogs, CHUNK) /\ left' = left
        BY <1>6, <2>2 DEF Routes!JitNext, Routes!jit_run
    <3>2. hogs' = <<CHUNK>> /\ CHUNK \in 1 .. CHUNK
        BY <1>0, <2>1, <3>1
    <3> QED  BY <3>1, <3>2 DEF HogInv
  <2>3. CASE serving # "drain1"
    BY <1>6, <2>1, <2>3 DEF HogInv, Routes!JitNext
  <2> QED  BY <2>2, <2>3
<1>7. ASSUME Routes!BenchStart \/ Routes!BenchEnd PROVE HogInv'
    BY <1>7 DEF HogInv, Routes!BenchStart, Routes!BenchEnd, Routes!Idle
<1> QED  BY <1>1, <1>2, <1>3, <1>4, <1>5, <1>6, <1>7 DEF Routes!Next, Routes!StartUpload,
        Routes!SendByte, Routes!ResendByte, Routes!Go, Routes!CameraFrame, Routes!CamRow,
        Routes!CamDims, Routes!WifiAdhoc, Routes!wifi_adhoc_poll_pending, Routes!rt

\* The invariant implies what the run checks.
LEMMA RoutesHold ==
    ASSUME RoutesInv
    PROVE  Routes!BootsUpload /\ Routes!FrameWhole /\ Routes!StackExclusive
<1>1. Routes!BootsUpload
    BY DEF RoutesInv, UploadInv
<1>2. Routes!FrameWhole
    BY DEF RoutesInv, SnapInv, Routes!FrameWhole
<1>3. Routes!StackExclusive
  <2>1. CASE hogs = << >>
    BY <2>1 DEF Routes!StackExclusive
  <2>2. ASSUME NEW h, hogs = <<h>> PROVE Routes!StackExclusive
    BY <2>2 DEF Routes!StackExclusive
  <2> QED  BY <2>1, <2>2 DEF RoutesInv, HogInv
<1> QED  BY <1>1, <1>2, <1>3

-----------------------------------------------------------------------------
(* The receive path (RxPath).  r counts the descriptors given back so far:   *)
(* what the ring holds are the frames received after the first r, in order,  *)
(* and what has been handed on or put aside are some of the first r.         *)

Tick == {"stash", "poll", "copy", "dispatch", "end"}
Place == Tick \cup {"idle", "open", "pump", "wait", "block", "asleep", "browse", "off", "dozing"}

\* The kinds and contexts the ring's argument is made for: the net process alone, or
\* with the window loop where no frame runs a program.  s: nothing opens a window.
RxHyp(x, k, b, s) ==
    /\ k \in Seq({"tcp", "run", "remote", "page"}) /\ b \in BOOLEAN /\ s \in BOOLEAN
    /\ x = {"net"} \/ (x = {"net", "wm"} /\ \A f \in DOMAIN k : k[f] # "run")
    /\ s => x = {"net", "wm"} /\ ~b

RxTypes(x, k) ==
    /\ ring \in [0 .. RXN - 1 -> Nat] /\ g_rxhead \in 0 .. RXN - 1 /\ hw \in 0 .. RXN - 1
    /\ toCome \subseteq DOMAIN k
    /\ arrived \in Seq(DOMAIN k) /\ handled \in Seq(DOMAIN k) /\ g_stash \in Seq(DOMAIN k)
    /\ pc \in [x -> Place] /\ held \in [x -> Nat] /\ budget \in [x -> Nat]
    /\ caller \in [x -> {"none", "idle", "stash", "poll"}]
    /\ rxcopy \in Nat /\ cpu \in x /\ ready \subseteq x

\* Whoever is inside a tick has the CPU, and nobody can run who is not ready.
OnCpu(x) ==
    \A c \in x : /\ pc[c] \in Tick => cpu = c
                 /\ c \in ready <=> pc[c] \notin {"off", "dozing"}
                 /\ pc[c] \in {"open", "pump", "wait", "dozing"} => caller[c] # "none"

\* A frame that was polled is still the one at the software's position.
Polled(x) == \A c \in x : pc[c] = "copy" => held[c] = ring[g_rxhead] /\ held[c] # 0

\* Frames are different.
Fresh ==
    /\ \A i, j \in DOMAIN arrived : arrived[i] = arrived[j] => i = j
    /\ \A i \in DOMAIN arrived : arrived[i] \notin toCome

Filled(r) ==
    /\ r \in Nat /\ r <= Len(arrived) /\ Len(arrived) <= r + RXN
    /\ g_rxhead = r % RXN /\ hw = Len(arrived) % RXN
    /\ \A i \in r + 1 .. Len(arrived) : ring[(i - 1) % RXN] = arrived[i]
    /\ \A t \in 0 .. RXN - 1 : ring[t] # 0 => \E i \in r + 1 .. Len(arrived) : t = (i - 1) % RXN

Among(r, f) == \E m \in 1 .. r : f = arrived[m]

Gone(x, r) ==
    /\ \A i \in DOMAIN handled : Among(r, handled[i])
    /\ \A i \in DOMAIN g_stash : Among(r, g_stash[i])
    /\ \A i, j \in DOMAIN handled : handled[i] = handled[j] => i = j
    /\ \A i, j \in DOMAIN g_stash : g_stash[i] = g_stash[j] => i = j
    /\ \A i \in DOMAIN handled, j \in DOMAIN g_stash : handled[i] # g_stash[j]
    /\ \A c \in x : pc[c] = "dispatch" =>
          /\ Among(r, rxcopy)
          /\ \A i \in DOMAIN handled : handled[i] # rxcopy
          /\ \A i \in DOMAIN g_stash : g_stash[i] # rxcopy

\* Where no window opens, the frames are handed on in order.
InStep(x, r) ==
    /\ g_stash = << >> /\ g_rx_remote_only = 0
    /\ \A c \in x : caller[c] = "none" /\ pc[c] \in Tick \cup {"idle", "block", "off"}
    /\ \A i \in DOMAIN handled : handled[i] = arrived[i]
    /\ IF \E c \in x : pc[c] = "dispatch" THEN r = Len(handled) + 1 /\ rxcopy = arrived[r]
                                          ELSE r = Len(handled)
    /\ g_rx_busy \in {0, 1} /\ (g_rx_busy = 1 <=> \E c \in x : pc[c] \in Tick)

RingInv(x, k, s) ==
    /\ RxTypes(x, k) /\ OnCpu(x) /\ Polled(x) /\ Fresh
    /\ \E r \in Nat : Filled(r) /\ Gone(x, r) /\ (s => InStep(x, r))

\* A remainder is the only one.
LEMMA RemainderIs ==
    ASSUME NEW w \in Nat \ {0}, NEW a1 \in Int, NEW m \in 0 .. w - 1, NEW x \in Int,
           x = (w * a1) + m
    PROVE  x % w = m
<1> DEFINE a2 == x \div w
           m2 == x % w
<1>1. a2 \in Int /\ m2 \in 0 .. w - 1 /\ x = (w * a2) + m2
    OBVIOUS
<1> HIDE DEF a2, m2
<1>2. w * (a2 - a1) = m - m2 /\ a2 - a1 \in Int
    BY <1>1
<1>3. CASE a2 - a1 >= 1
  <2>1. w * (a2 - a1) >= w
    BY <1>2, <1>3
  <2> QED  BY <2>1, <1>1, <1>2
<1>4. CASE a2 - a1 <= -1
  <2>1. w * (a2 - a1) <= -w
    BY <1>2, <1>4
  <2> QED  BY <2>1, <1>1, <1>2
<1>5. CASE a2 = a1
    BY <1>1, <1>5 DEF m2
<1> QED  BY <1>1, <1>2, <1>3, <1>4, <1>5

\* Two numbers less than RXN apart have different remainders.
LEMMA Remainders ==
    ASSUME NEW p \in Nat, NEW q \in Nat, p <= q, q < p + RXN, p % RXN = q % RXN
    PROVE  p = q
<1> DEFINE a1 == p \div RXN
           m == p % RXN
<1>1. RXN \in Nat \ {0}
    BY NetAssumption
<1>2. a1 \in Int /\ m \in 0 .. RXN - 1 /\ p = (RXN * a1) + m
    BY <1>1
<1>3. q % RXN = m
    OBVIOUS
<1> HIDE DEF a1, m
<1>4. CASE m + (q - p) < RXN
  <2> DEFINE z == m + (q - p)
  <2>1. z \in 0 .. RXN - 1 /\ q = (RXN * a1) + z /\ q \in Int
    BY <1>1, <1>2, <1>4
  <2>2. z = m => p = q
    BY <1>2
  <2> HIDE DEF z
  <2> QED  BY <2>1, <2>2, <1>1, <1>2, <1>3, RemainderIs
<1>5. CASE m + (q - p) >= RXN
  <2> DEFINE z == m + (q - p) - RXN
             a3 == a1 + 1
  <2>1. z \in 0 .. RXN - 1 /\ a3 \in Int /\ q = (RXN * a3) + z /\ q \in Int
    BY <1>1, <1>2, <1>5
  <2>2. z # m
    BY <1>1, <1>2
  <2> HIDE DEF z, a3
  <2> QED  BY <2>1, <2>2, <1>1, <1>2, <1>3, RemainderIs
<1> QED  BY <1>1, <1>2, <1>4, <1>5

\* The next remainder.
LEMMA NextRemainder ==
    ASSUME NEW p \in Nat
    PROVE  ((p % RXN) + 1) % RXN = (p + 1) % RXN /\ p % RXN \in 0 .. RXN - 1
<1> DEFINE a1 == p \div RXN
           m == p % RXN
<1>1. RXN \in Nat \ {0}
    BY NetAssumption
<1>2. a1 \in Int /\ m \in 0 .. RXN - 1 /\ p = (RXN * a1) + m
    BY <1>1
<1> HIDE DEF a1, m
<1>3. CASE m + 1 < RXN
  <2> DEFINE z == m + 1
             y == p + 1
  <2>1. z \in 0 .. RXN - 1 /\ y \in Int /\ y = (RXN * a1) + z
    BY <1>1, <1>2, <1>3
  <2>2. z = (RXN * 0) + z /\ z \in Int
    BY <1>1, <1>2
  <2> HIDE DEF z, y
  <2>3. y % RXN = z
    BY <2>1, <1>1, <1>2, RemainderIs
  <2>4. z % RXN = z
    BY <2>1, <2>2, <1>1, RemainderIs
  <2> QED  BY <2>3, <2>4, <1>2 DEF m, y, z
<1>4. CASE m + 1 = RXN
  <2>1. 0 \in 0 .. RXN - 1 /\ p + 1 = (RXN * (a1 + 1)) + 0 /\ m + 1 = (RXN * 1) + 0
    BY <1>1, <1>2, <1>4
  <2>2. (p + 1) % RXN = 0
    BY <2>1, <1>1, <1>2, RemainderIs
  <2>3. (m + 1) % RXN = 0
    BY <2>1, <1>1, <1>2, RemainderIs
  <2> QED  BY <2>2, <2>3, <1>2 DEF m
<1> QED  BY <1>1, <1>2, <1>3, <1>4 DEF m

\* Once round the ring.
LEMMA RoundAgain ==
    ASSUME NEW p \in Nat
    PROVE  (p + RXN) % RXN = p % RXN
<1> DEFINE a1 == p \div RXN
           a3 == a1 + 1
           m == p % RXN
           y == p + RXN
<1>1. RXN \in Nat \ {0}
    BY NetAssumption
<1>2. a1 \in Int /\ m \in 0 .. RXN - 1 /\ p = (RXN * a1) + m
    BY <1>1
<1> HIDE DEF a1, m
<1>3. a3 \in Int /\ y \in Int /\ y = (RXN * a3) + m
    BY <1>1, <1>2
<1> HIDE DEF a3, y
<1>4. y % RXN = m
    BY <1>1, <1>2, <1>3, RemainderIs
<1> QED  BY <1>4 DEF m, y

\* A frame written at the hardware's position joins the end of the ring's frames.
LEMMA Written ==
    ASSUME NEW x, NEW k, DOMAIN k \subseteq Nat \ {0}, RxTypes(x, k), Fresh, NEW r \in Nat, Filled(r), NEW f \in toCome,
           toCome' = toCome \ {f}, ring[hw] = 0, ring' = [ring EXCEPT ![hw] = f],
           hw' = (hw + 1) % RXN, arrived' = Append(arrived, f), g_rxhead' = g_rxhead
    PROVE  /\ Filled(r)' /\ Fresh' /\ arrived' \in Seq(DOMAIN k) /\ hw' \in 0 .. RXN - 1
           /\ ring' \in [0 .. RXN - 1 -> DOMAIN k \cup Nat]
           /\ \A m \in 1 .. Len(arrived) : arrived'[m] = arrived[m]
           /\ Len(arrived') = Len(arrived) + 1
           /\ ring[g_rxhead] # 0 => ring'[g_rxhead] = ring[g_rxhead]
<1> DEFINE L == Len(arrived)
<1>1. RXN \in Nat \ {0} /\ L \in Nat
    BY NetAssumption DEF RxTypes
<1>2. /\ Len(arrived') = L + 1 /\ arrived'[L + 1] = f
      /\ \A m \in 1 .. L : arrived'[m] = arrived[m]
      /\ arrived' \in Seq(DOMAIN k)
  <2>1. f \in DOMAIN k
    BY DEF RxTypes
  <2> QED  BY <2>1, AppendProperties DEF RxTypes
<1>3. hw' = (L + 1) % RXN /\ hw = L % RXN /\ hw' \in 0 .. RXN - 1
  <2>1. hw = L % RXN /\ L + 1 \in Nat
    BY <1>1 DEF Filled
  <2>2. ((L % RXN) + 1) % RXN = (L + 1) % RXN
    BY Zenon, <1>1, NextRemainder
  <2>3. (L + 1) % RXN \in 0 .. RXN - 1
    BY <1>1
  <2> QED  BY <2>1, <2>2, <2>3
<1>4. L < r + RXN
  <2>0. L <= r + RXN
    BY DEF Filled
  <2> SUFFICES ASSUME L = r + RXN PROVE FALSE
    <3> HIDE DEF L
    <3> QED  BY <1>1, <2>0
  <2>1. hw = r % RXN /\ ring[r % RXN] = arrived[r + 1] /\ arrived[r + 1] # 0
    <3>3. L % RXN = r % RXN
        BY RoundAgain
    <3>4. r + 1 \in r + 1 .. L /\ (r + 1) - 1 = r
        BY <1>1
    <3>5. arrived[r + 1] # 0
      <4>1. r + 1 \in 1 .. L
        BY <1>1, <3>4
      <4>2. arrived[r + 1] \in DOMAIN k
        BY <4>1 DEF RxTypes
      <4> QED  BY <4>2
    <3> QED  BY <3>3, <3>4, <3>5, <1>3 DEF Filled
  <2> QED  BY <2>1
<1>5. \A i \in r + 1 .. L : (i - 1) % RXN # hw
  <2> SUFFICES ASSUME NEW i \in r + 1 .. L, (i - 1) % RXN = hw  PROVE FALSE
    OBVIOUS
  <2>1. i - 1 \in Nat /\ i - 1 <= L /\ L < (i - 1) + RXN /\ (i - 1) % RXN = L % RXN /\ i - 1 # L
    BY <1>1, <1>3, <1>4
  <2> QED  BY Zenon, <2>1, <1>1, Remainders
<1>6. Filled(r)'
  <2>1. \A i \in r + 1 .. L + 1 : ring'[(i - 1) % RXN] = arrived'[i]
    <3> SUFFICES ASSUME NEW i \in r + 1 .. L + 1  PROVE ring'[(i - 1) % RXN] = arrived'[i]
        OBVIOUS
    <3>1. (i - 1) \in Nat /\ (i - 1) % RXN \in 0 .. RXN - 1
        BY <1>1
    <3>2. CASE i = L + 1
      <4>1. (i - 1) % RXN = hw
        BY <3>2, <1>1, <1>3
      <4> QED  BY <4>1, <3>1, <3>2, <1>2 DEF RxTypes
    <3>3. CASE i \in r + 1 .. L
      <4>1. (i - 1) % RXN # hw /\ ring[(i - 1) % RXN] = arrived[i] /\ i \in 1 .. L
        BY <3>3, <1>1, <1>5 DEF Filled
      <4> QED  BY <4>1, <3>1, <1>2 DEF RxTypes
    <3> QED  BY <3>2, <3>3, <1>1
  <2>2. \A t \in 0 .. RXN - 1 : ring'[t] # 0 => \E i \in r + 1 .. L + 1 : t = (i - 1) % RXN
    <3> SUFFICES ASSUME NEW t \in 0 .. RXN - 1, ring'[t] # 0
                 PROVE  \E i \in r + 1 .. L + 1 : t = (i - 1) % RXN
        OBVIOUS
    <3>1. CASE t = hw
      <4>1. L + 1 \in r + 1 .. L + 1 /\ (L + 1) - 1 = L
        BY <1>1 DEF Filled
      <4> QED  BY <3>1, <4>1, <1>3
    <3>2. CASE t # hw
      <4>1. ring[t] # 0
        BY <3>2 DEF RxTypes
      <4>2. PICK i \in r + 1 .. L : t = (i - 1) % RXN
        BY <4>1 DEF Filled
      <4> QED  BY <4>2, <1>1
    <3> QED  BY <3>1, <3>2
  <2>3. r <= L + 1 /\ L + 1 <= r + RXN
    BY <1>1, <1>4 DEF Filled
  <2> QED  BY ZenonT(40), <2>1, <2>2, <2>3, <1>2, <1>3 DEF Filled
<1>7. Fresh'
  <2>1. DOMAIN arrived = 1 .. L /\ DOMAIN arrived' = 1 .. L + 1
    BY <1>2 DEF RxTypes
  <2>2. \A m \in 1 .. L : arrived[m] # f
    BY <2>1 DEF Fresh
  <2>3. \A i, j \in 1 .. L + 1 : arrived'[i] = arrived'[j] => i = j
    BY <2>1, <2>2, <1>1, <1>2, SMTT(30) DEF Fresh
  <2>4. \A i \in 1 .. L + 1 : arrived'[i] \notin toCome'
    <3> SUFFICES ASSUME NEW i \in 1 .. L + 1 PROVE arrived'[i] \notin toCome'
        OBVIOUS
    <3>1. i = L + 1 \/ i \in 1 .. L
        BY <1>1
    <3> QED  BY Zenon, <3>1, <2>1, <1>2 DEF Fresh
  <2> QED  BY <2>1, <2>3, <2>4 DEF Fresh
<1>8. ring' \in [0 .. RXN - 1 -> DOMAIN k \cup Nat]
    BY DEF RxTypes
<1>9. ring[g_rxhead] # 0 => ring'[g_rxhead] = ring[g_rxhead]
    BY DEF RxTypes
<1> QED  BY <1>2, <1>3, <1>6, <1>7, <1>8, <1>9

\* A descriptor given back is the one of the oldest frame in the ring.
LEMMA Released ==
    ASSUME NEW x, NEW k, DOMAIN k \subseteq Nat \ {0}, RxTypes(x, k), Fresh, NEW r \in Nat, Filled(r), ring[g_rxhead] # 0,
           ring' = [ring EXCEPT ![g_rxhead] = 0], g_rxhead' = (g_rxhead + 1) % RXN,
           UNCHANGED <<hw, toCome, arrived>>
    PROVE  /\ Filled(r + 1)' /\ Fresh' /\ r + 1 \in Nat /\ r + 1 <= Len(arrived)
           /\ ring[g_rxhead] = arrived[r + 1] /\ ~ Among(r, arrived[r + 1])
           /\ ring' \in [0 .. RXN - 1 -> Nat] /\ g_rxhead' \in 0 .. RXN - 1
<1> DEFINE L == Len(arrived)
<1>1. RXN \in Nat \ {0} /\ L \in Nat /\ DOMAIN arrived = 1 .. L
    BY NetAssumption, SMTT(30) DEF RxTypes
<1>2. g_rxhead = r % RXN /\ g_rxhead' = (r + 1) % RXN /\ g_rxhead' \in 0 .. RXN - 1
  <2>1. g_rxhead = r % RXN
    BY DEF Filled
  <2>2. ((r % RXN) + 1) % RXN = (r + 1) % RXN
    BY NextRemainder
  <2>3. (r + 1) % RXN \in 0 .. RXN - 1
    BY <1>1
  <2> QED  BY <2>1, <2>2, <2>3
<1>3. r < L
  <2>1. PICK i \in r + 1 .. L : g_rxhead = (i - 1) % RXN
    BY DEF Filled, RxTypes
  <2> QED  BY <2>1, <1>1
<1>4. ring[g_rxhead] = arrived[r + 1]
  <2>1. r + 1 \in r + 1 .. L /\ (r + 1) - 1 = r
    BY <1>1, <1>3
  <2> QED  BY <2>1, <1>2 DEF Filled
<1>5. \A i \in r + 2 .. L : (i - 1) % RXN # r % RXN
  <2> SUFFICES ASSUME NEW i \in r + 2 .. L, (i - 1) % RXN = r % RXN  PROVE FALSE
    OBVIOUS
  <2>1. i - 1 \in Nat /\ r <= i - 1 /\ i - 1 < r + RXN /\ i - 1 # r
    BY <1>1 DEF Filled
  <2> QED  BY Zenon, <2>1, <1>1, Remainders
<1>6. Filled(r + 1)'
  <2>1. \A i \in r + 2 .. L : ring'[(i - 1) % RXN] = arrived[i]
    <3> SUFFICES ASSUME NEW i \in r + 2 .. L  PROVE ring'[(i - 1) % RXN] = arrived[i]
        OBVIOUS
    <3>1. (i - 1) % RXN \in 0 .. RXN - 1 /\ i \in r + 1 .. L
        BY <1>1
    <3> QED  BY <3>1, <1>2, <1>5 DEF Filled, RxTypes
  <2>2. \A t \in 0 .. RXN - 1 : ring'[t] # 0 => \E i \in r + 2 .. L : t = (i - 1) % RXN
    <3> SUFFICES ASSUME NEW t \in 0 .. RXN - 1, ring'[t] # 0
                 PROVE  \E i \in r + 2 .. L : t = (i - 1) % RXN
        OBVIOUS
    <3>1. t # g_rxhead /\ ring[t] # 0
        BY DEF RxTypes
    <3>2. PICK i \in r + 1 .. L : t = (i - 1) % RXN
        BY <3>1 DEF Filled
    <3>3. i # r + 1
        BY <3>1, <3>2, <1>1, <1>2
    <3> QED  BY <3>2, <3>3, <1>1
  <2>3. (r + 1) + 1 = r + 2
    OBVIOUS
  <2> QED  BY <2>1, <2>2, <2>3, <1>1, <1>2, <1>3 DEF Filled
<1>7. ~ Among(r, arrived[r + 1])
    BY <1>1, <1>3 DEF Among, Fresh
<1>8. ring' \in [0 .. RXN - 1 -> Nat]
    BY DEF RxTypes
<1> QED  BY <1>1, <1>2, <1>3, <1>4, <1>6, <1>7, <1>8 DEF Fresh

\* What was given back was received.
LEMMA InRange ==
    ASSUME NEW x, NEW k, RxTypes(x, k), NEW r \in Nat, Filled(r), NEW f, Among(r, f)
    PROVE  f \in DOMAIN k
<1>1. PICK m \in 1 .. r : f = arrived[m]
    BY DEF Among
<1>2. m \in 1 .. Len(arrived)
    BY DEF Filled, RxTypes
<1> QED  BY <1>1, <1>2 DEF RxTypes

\* A step that leaves the frames alone and begins no copy and no dispatch.
LEMMA QuietStep ==
    ASSUME NEW x, NEW k, Polled(x), Fresh, NEW r \in Nat, Filled(r), Gone(x, r),
           UNCHANGED <<ring, g_rxhead, hw, toCome, arrived, handled, g_stash, rxcopy, held>>,
           \A c \in x : pc'[c] \in {"copy", "dispatch"} => pc'[c] = pc[c]
    PROVE  Polled(x)' /\ Fresh' /\ Filled(r)' /\ Gone(x, r)'
<1>1. Polled(x)'
    BY DEF Polled
<1>2. Fresh' /\ Filled(r)'
    BY DEF Fresh, Filled
<1>3. Gone(x, r)'
    BY DEF Gone, Among
<1> QED  BY <1>1, <1>2, <1>3

\* The receive path at the start.
LEMMA RingInit ==
    ASSUME NEW x, NEW k, NEW b, NEW s, RxHyp(x, k, b, s), Rx(x, k, b)!Init
    PROVE  RingInv(x, k, s)
<1>1. RXN \in Nat \ {0} /\ BUDGET \in Nat /\ 0 % RXN = 0
  <2>1. RXN \in Nat \ {0} /\ BUDGET \in Nat
    BY NetAssumption
  <2>2. 0 = (RXN * 0) + 0 /\ 0 \in 0 .. RXN - 1 /\ 0 \in Int
    BY <2>1
  <2> QED  BY <2>1, <2>2, RemainderIs
<1>2. "net" \in x
    BY DEF RxHyp
<1>3. RxTypes(x, k)
    BY <1>1, <1>2 DEF RxTypes, Rx!Init, Rx!Slot, Rx!NoFrame, Rx!Frame, Place, Tick
<1>4. OnCpu(x) /\ Polled(x) /\ Fresh
    BY DEF OnCpu, Polled, Fresh, Rx!Init, Tick
<1>5. Filled(0) /\ Gone(x, 0)
  <2>1. Len(arrived) = 0 /\ arrived = << >> /\ handled = << >> /\ g_stash = << >>
    BY DEF Rx!Init
  <2>2. Filled(0)
    BY <2>1, <1>1 DEF Filled, Rx!Init, Rx!Slot, Rx!NoFrame
  <2>3. Gone(x, 0)
    BY <2>1 DEF Gone, Rx!Init
  <2> QED  BY <2>2, <2>3
<1>6. s => InStep(x, 0)
    BY DEF InStep, Rx!Init, Tick
<1> QED  BY <1>3, <1>4, <1>5, <1>6 DEF RingInv

\* Types and the CPU through every step.
LEMMA RxTypesStep ==
    ASSUME NEW x, NEW k, NEW b, NEW s, RxHyp(x, k, b, s), RingInv(x, k, s), Rx(x, k, b)!Next
    PROVE  RxTypes(x, k)' /\ OnCpu(x)'
<1>0. /\ RxTypes(x, k) /\ OnCpu(x) /\ Polled(x) /\ Fresh
      /\ RXN \in Nat \ {0} /\ BUDGET \in Nat
      /\ DOMAIN k \subseteq Nat \ {0} /\ x \subseteq {"net", "wm"}
    BY NetAssumption DEF RingInv, RxHyp
<1>1. PICK r \in Nat : Filled(r) /\ Gone(x, r) /\ (s => InStep(x, r))
    BY DEF RingInv
<1>2. CASE Rx(x, k, b)!Receive
  <2>1. PICK f \in toCome :
           /\ toCome' = toCome \ {f}
           /\ IF ring[hw] = 0
              THEN /\ ring' = [ring EXCEPT ![hw] = f] /\ hw' = (hw + 1) % RXN
                   /\ arrived' = Append(arrived, f)
              ELSE UNCHANGED <<ring, hw, arrived>>
           /\ UNCHANGED <<g_rxhead, handled, g_stash, rxcopy, pc, held, budget, caller, cpu, ready>>
    BY <1>2 DEF Rx!Receive, Rx!NoFrame, Rx!sched
  <2>2. arrived' \in Seq(DOMAIN k) /\ hw' \in 0 .. RXN - 1 /\ ring' \in [0 .. RXN - 1 -> Nat]
    <3>1. CASE ring[hw] = 0
      <4>1. /\ toCome' = toCome \ {f} /\ ring' = [ring EXCEPT ![hw] = f]
            /\ hw' = (hw + 1) % RXN /\ arrived' = Append(arrived, f) /\ g_rxhead' = g_rxhead
        BY <2>1, <3>1
      <4>2. arrived' \in Seq(DOMAIN k) /\ hw' \in 0 .. RXN - 1
        BY Zenon, <3>1, <4>1, <1>0, <1>1, Written
      <4>3. f \in Nat
        BY <1>0 DEF RxTypes
      <4> QED  BY Zenon, <4>1, <4>2, <4>3, <1>0 DEF RxTypes
    <3> QED  BY Zenon, <2>1, <3>1, <1>0 DEF RxTypes
  <2> QED  BY Zenon, <2>1, <2>2, <1>0 DEF RxTypes, OnCpu
<1>3. CASE Rx(x, k, b)!Leave
    BY Zenon, <1>3, <1>0 DEF Rx!Leave, Rx!Blocked, Rx!Choose, Rx!Goto, Rx!ringvars, RxTypes, OnCpu, Tick, Place
<1>4. CASE Rx(x, k, b)!Switch
    BY <1>4, <1>0 DEF Rx!Switch, Rx!Blocked, Rx!ringvars, RxTypes, OnCpu, Tick, Place
<1>5. ASSUME NEW c \in x, Rx(x, k, b)!Wake(c)  PROVE RxTypes(x, k)' /\ OnCpu(x)'
    BY Zenon, <1>5, <1>0 DEF Rx!Wake, Rx!Goto, Rx!ringvars, RxTypes, OnCpu, Tick, Place
<1>6. CASE "wm" \in x /\ Rx(x, k, b)!ShellCall
    BY <1>6, <1>0 DEF Rx!ShellCall, Rx!Goto, Rx!ringvars, Rx!sched, RxTypes, OnCpu, Tick, Place
<1>7. CASE "browser" \in x /\ Rx(x, k, b)!BrowserFetch
    BY <1>7, <1>0
<1>8. ASSUME NEW c \in x, Rx(x, k, b)!Run(c)  PROVE RxTypes(x, k)' /\ OnCpu(x)'
  <2>1. CASE Rx(x, k, b)!TickEnter(c)
    BY <2>1, <1>0 DEF Rx!TickEnter, Rx!Goto, Rx!ringvars, Rx!sched, RxTypes, OnCpu, Tick, Place
  <2>2. CASE Rx(x, k, b)!TickStash(c)
    <3>1. g_stash' \in Seq(DOMAIN k) /\ handled' \in Seq(DOMAIN k)
      <4>1. CASE g_stash = << >>
        BY <4>1, <2>2, <1>0 DEF Rx!TickStash, RxTypes
      <4>2. CASE g_stash # << >>
        <5>1. g_stash[Len(g_stash)] \in DOMAIN k
            BY <4>2, <1>0 DEF RxTypes
        <5>2. /\ g_stash' = SubSeq(g_stash, 1, Len(g_stash) - 1)
              /\ handled' = Append(handled, g_stash[Len(g_stash)])
            BY <4>2, <2>2 DEF Rx!TickStash, Rx!Dispatch
        <5>3. handled' \in Seq(DOMAIN k)
            BY <5>1, <5>2, <1>0, AppendProperties DEF RxTypes
        <5>4. g_stash' \in Seq(DOMAIN k)
          <6>1. Len(g_stash) \in Nat /\ \A i \in 1 .. Len(g_stash) - 1 : g_stash[i] \in DOMAIN k
            BY <1>0 DEF RxTypes
          <6>2. 1 \in Int /\ Len(g_stash) - 1 \in Int
            BY <6>1
          <6> QED  BY <5>2, <6>1, <6>2, SubSeqProperties
        <5> QED  BY <5>3, <5>4
      <4> QED  BY <4>1, <4>2
    <3>2. pc' \in [x -> Place] /\ caller' \in [x -> {"none", "idle", "stash", "poll"}]
        BY ZenonT(40), <2>2, <1>0 DEF Rx!TickStash, Rx!Dispatch, Rx!Goto, RxTypes, Tick, Place
    <3>3. OnCpu(x)'
        BY <2>2, <1>0, SMTT(30) DEF Rx!TickStash, Rx!Dispatch, Rx!Goto, Rx!sched, RxTypes, OnCpu, Tick, Place
    <3> QED  BY Zenon, <3>1, <3>2, <3>3, <2>2, <1>0 DEF Rx!TickStash, Rx!ringvars, Rx!sched, RxTypes
  <2>3. CASE Rx(x, k, b)!TickPoll(c)
    <3>1. pc' \in [x -> Place] /\ held' \in [x -> Nat] /\ budget' \in [x -> Nat]
      <4>1. budget[c] \in Nat /\ (budget[c] > 0 => budget[c] - 1 \in Nat)
        BY <1>0 DEF RxTypes
      <4>2. budget' \in {budget, [budget EXCEPT ![c] = budget[c] - 1]} /\ (budget' = budget \/ budget[c] > 0)
        BY <2>3 DEF Rx!TickPoll
      <4>3. budget' \in [x -> Nat]
        BY Zenon, <4>1, <4>2, <1>0 DEF RxTypes
      <4>4. pc' \in [x -> Place]
        BY Zenon, <2>3, <1>0 DEF Rx!TickPoll, Rx!Goto, RxTypes, Tick, Place
      <4>5. held' \in [x -> Nat]
        <5>1. ring[g_rxhead] \in Nat
            BY <1>0 DEF RxTypes
        <5>2. held' \in {held, [held EXCEPT ![c] = ring[g_rxhead]]}
            BY <2>3 DEF Rx!TickPoll, Rx!rp1eth_rx_poll
        <5> QED  BY Zenon, <5>1, <5>2, <1>0 DEF RxTypes
      <4> QED  BY <4>3, <4>4, <4>5
    <3>2. OnCpu(x)'
        BY <2>3, <1>0 DEF Rx!TickPoll, Rx!Goto, Rx!sched, RxTypes, OnCpu, Tick, Place
    <3> QED  BY Zenon, <3>1, <3>2, <2>3, <1>0 DEF Rx!TickPoll, Rx!ringvars, Rx!sched, RxTypes
  <2>4. CASE Rx(x, k, b)!TickCopy(c)
    BY <2>4, <1>0 DEF Rx!TickCopy, Rx!rp1eth_rx_release, Rx!NoFrame, Rx!Goto, Rx!sched, RxTypes, OnCpu, Tick, Place
  <2>5. CASE Rx(x, k, b)!TickDispatch(c)
    <3>1. g_stash' \in Seq(DOMAIN k) /\ handled' \in Seq(DOMAIN k)
      <4>1. rxcopy \in DOMAIN k
        BY <2>5, <1>0, <1>1, InRange DEF Rx!TickDispatch, Gone
      <4>2. Append(g_stash, rxcopy) \in Seq(DOMAIN k) /\ Append(handled, rxcopy) \in Seq(DOMAIN k)
        BY <4>1, <1>0, AppendProperties DEF RxTypes
      <4>3. g_stash' \in {g_stash, Append(g_stash, rxcopy)} /\ handled' \in {handled, Append(handled, rxcopy)}
        BY <2>5 DEF Rx!TickDispatch, Rx!Dispatch, Rx!PutAside
      <4> QED  BY Zenon, <4>2, <4>3, <1>0 DEF RxTypes
    <3>2. pc' \in [x -> Place] /\ caller' \in [x -> {"none", "idle", "stash", "poll"}]
        BY Zenon, <2>5, <1>0 DEF Rx!TickDispatch, Rx!Dispatch, Rx!Goto, RxTypes, Tick, Place
    <3>3. OnCpu(x)'
        BY <2>5, <1>0 DEF Rx!TickDispatch, Rx!Dispatch, Rx!Goto, Rx!sched, RxTypes, OnCpu, Tick, Place
    <3> QED  BY Zenon, <3>1, <3>2, <3>3, <2>5, <1>0 DEF Rx!TickDispatch, Rx!ringvars, Rx!sched, RxTypes
  <2>6. CASE Rx(x, k, b)!TickEnd(c)
    BY Zenon, <2>6, <1>0 DEF Rx!TickEnd, Rx!Goto, Rx!ringvars, Rx!sched, RxTypes, OnCpu, Tick, Place
  <2>7. CASE Rx(x, k, b)!TickBusy(c)
    BY Zenon, <2>7, <1>0 DEF Rx!TickBusy, Rx!Goto, Rx!ringvars, Rx!sched, RxTypes, OnCpu, Tick, Place
  <2>8. CASE Rx(x, k, b)!net_rx_remote_window_on(c)
    BY Zenon, <2>8, <1>0 DEF Rx!net_rx_remote_window_on, Rx!Goto, Rx!ringvars, Rx!sched, RxTypes, OnCpu, Tick, Place
  <2>9. CASE Rx(x, k, b)!net_rx_pump(c)
    <3>1. /\ g_stash' \in Seq(DOMAIN k) /\ handled' \in Seq(DOMAIN k)
          /\ ring' \in [0 .. RXN - 1 -> Nat] /\ g_rxhead' \in 0 .. RXN - 1
      <4>1. CASE budget[c] > 0 /\ ring[g_rxhead] # 0
        <5>1. /\ ring' = [ring EXCEPT ![g_rxhead] = 0] /\ g_rxhead' = (g_rxhead + 1) % RXN
              /\ UNCHANGED <<hw, toCome, arrived>>
            BY <4>1, <2>9 DEF Rx!net_rx_pump, Rx!rp1eth_rx_release, Rx!rp1eth_rx_poll, Rx!NoFrame
        <5>2. ring[g_rxhead] = arrived[r + 1] /\ r + 1 \in 1 .. Len(arrived)
            BY <4>1, <5>1, <1>0, <1>1, Released
        <5>3. ring[g_rxhead] \in DOMAIN k
            BY <5>2, <1>0 DEF RxTypes
        <5>4. ring' \in [0 .. RXN - 1 -> Nat] /\ g_rxhead' \in 0 .. RXN - 1
            BY <4>1, <5>1, <1>0, <1>1, Released
        <5>5. /\ Append(g_stash, ring[g_rxhead]) \in Seq(DOMAIN k)
              /\ Append(handled, ring[g_rxhead]) \in Seq(DOMAIN k)
            BY <5>3, <1>0, AppendProperties DEF RxTypes
        <5>6. /\ g_stash' \in {g_stash, Append(g_stash, ring[g_rxhead])}
              /\ handled' \in {handled, Append(handled, ring[g_rxhead])}
            BY <4>1, <2>9 DEF Rx!net_rx_pump, Rx!PutAside, Rx!rp1eth_rx_poll, Rx!NoFrame
        <5> QED  BY Zenon, <5>4, <5>5, <5>6, <1>0 DEF RxTypes
      <4> QED  BY Zenon, <4>1, <2>9, <1>0
                DEF Rx!net_rx_pump, Rx!rp1eth_rx_poll, Rx!NoFrame, Rx!ringvars, RxTypes
    <3>2. pc' \in [x -> Place] /\ budget' \in [x -> Nat]
      <4>1. budget[c] \in Nat /\ (budget[c] > 0 => budget[c] - 1 \in Nat)
        BY <1>0 DEF RxTypes
      <4>2. budget' \in {budget, [budget EXCEPT ![c] = budget[c] - 1]} /\ (budget' = budget \/ budget[c] > 0)
        BY <2>9 DEF Rx!net_rx_pump
      <4>3. budget' \in [x -> Nat]
        BY Zenon, <4>1, <4>2, <1>0 DEF RxTypes
      <4>4. pc' \in [x -> Place]
        BY ZenonT(40), <2>9, <1>0 DEF Rx!net_rx_pump, Rx!Goto, RxTypes, Tick, Place
      <4> QED  BY <4>3, <4>4
    <3>3. OnCpu(x)'
        BY <2>9, <1>0 DEF Rx!net_rx_pump, Rx!Goto, Rx!sched, RxTypes, OnCpu, Tick, Place
    <3> QED  BY Zenon, <3>1, <3>2, <3>3, <2>9, <1>0
                DEF Rx!net_rx_pump, Rx!rp1eth_rx_release, Rx!ringvars, Rx!sched, RxTypes
  <2>10. CASE Rx(x, k, b)!CallSleeps(c)
    BY Zenon, <2>10, <1>0 DEF Rx!CallSleeps, Rx!Goto, Rx!ringvars, Rx!sched, RxTypes, OnCpu, Tick, Place
  <2>11. CASE Rx(x, k, b)!net_rx_remote_window_off(c)
    BY Zenon, <2>11, <1>0 DEF Rx!net_rx_remote_window_off, Rx!Goto, Rx!ringvars, Rx!sched, RxTypes, OnCpu, Tick, Place
  <2> QED  BY <1>8, <2>1, <2>2, <2>3, <2>4, <2>5, <2>6, <2>7, <2>8, <2>9, <2>10, <2>11 DEF Rx!Run
<1> QED  BY <1>2, <1>3, <1>4, <1>5, <1>6, <1>7, <1>8 DEF Rx!Next

NoTwice(q) == \A i, j \in DOMAIN q : q[i] = q[j] => i = j
Without(q, e) == \A i \in DOMAIN q : q[i] # e

\* A frame added to frames it is not among.
LEMMA Joins ==
    ASSUME NEW S, NEW q \in Seq(S), NEW e \in S, NoTwice(q), Without(q, e)
    PROVE  /\ NoTwice(Append(q, e))
           /\ \A i \in DOMAIN Append(q, e) :
                 Append(q, e)[i] = e \/ (i \in DOMAIN q /\ Append(q, e)[i] = q[i])
<1>1. /\ Len(q) \in Nat /\ DOMAIN q = 1 .. Len(q) /\ DOMAIN Append(q, e) = 1 .. Len(q) + 1
      /\ Append(q, e)[Len(q) + 1] = e /\ \A i \in 1 .. Len(q) : Append(q, e)[i] = q[i]
    BY AppendProperties
<1> QED  BY <1>1 DEF NoTwice, Without

\* One place for each frame that has been given back.
LEMMA GoneIs ==
    ASSUME NEW x, NEW r \in Nat
    PROVE  Gone(x, r) <=>
             /\ \A i \in DOMAIN handled : Among(r, handled[i]) /\ Without(g_stash, handled[i])
             /\ \A i \in DOMAIN g_stash : Among(r, g_stash[i])
             /\ NoTwice(handled) /\ NoTwice(g_stash)
             /\ \A c \in x : pc[c] = "dispatch" =>
                   Among(r, rxcopy) /\ Without(handled, rxcopy) /\ Without(g_stash, rxcopy)
BY DEF Gone, NoTwice, Without

\* A frame is handed on or put aside once, or lost.
LEMMA Placed ==
    ASSUME NEW x, NEW k, RxTypes(x, k), NEW r \in Nat, NEW e \in DOMAIN k,
           NEW q \in Nat, \A f : Among(r, f) => Among(q, f)',
           Gone(x, r), Among(q, e)', Without(handled, e), Without(g_stash, e),
           \/ handled' = Append(handled, e) /\ g_stash' = g_stash
           \/ handled' = handled /\ g_stash' = Append(g_stash, e)
           \/ handled' = handled /\ g_stash' = g_stash,
           \A c \in x : pc'[c] # "dispatch"
    PROVE  Gone(x, q)'
<1>1. /\ \A i \in DOMAIN handled : Among(r, handled[i]) /\ Without(g_stash, handled[i])
      /\ \A i \in DOMAIN g_stash : Among(r, g_stash[i])
      /\ NoTwice(handled) /\ NoTwice(g_stash)
      /\ handled \in Seq(DOMAIN k) /\ g_stash \in Seq(DOMAIN k)
    BY Zenon, GoneIs DEF RxTypes
<1>2. CASE handled' = Append(handled, e) /\ g_stash' = g_stash
  <2>1. /\ NoTwice(handled)' /\ \A i \in DOMAIN handled' :
              handled'[i] = e \/ (i \in DOMAIN handled /\ handled'[i] = handled[i])
    BY <1>1, <1>2, Joins DEF NoTwice
  <2> QED  BY <2>1, <1>1, <1>2 DEF Gone, NoTwice, Without
<1>3. CASE handled' = handled /\ g_stash' = Append(g_stash, e)
  <2>1. /\ NoTwice(g_stash)' /\ \A i \in DOMAIN g_stash' :
              g_stash'[i] = e \/ (i \in DOMAIN g_stash /\ g_stash'[i] = g_stash[i])
    BY <1>1, <1>3, Joins, SMTT(40) DEF NoTwice
  <2> QED  BY <2>1, <1>1, <1>3 DEF Gone, NoTwice, Without
<1>4. CASE handled' = handled /\ g_stash' = g_stash
    BY <1>1, <1>4 DEF Gone, NoTwice, Without
<1> QED  BY <1>2, <1>3, <1>4

\* A frame, given back or not, handed on or put aside, is in one place.
LEMMA RingStep ==
    ASSUME NEW x, NEW k, NEW b, NEW s, RxHyp(x, k, b, s), RingInv(x, k, s), Rx(x, k, b)!Next
    PROVE  RingInv(x, k, s)'
<1>0. /\ RxTypes(x, k) /\ OnCpu(x) /\ Polled(x) /\ Fresh
      /\ RXN \in Nat \ {0} /\ BUDGET \in Nat
      /\ DOMAIN k \subseteq Nat \ {0} /\ x \subseteq {"net", "wm"}
    BY NetAssumption DEF RingInv, RxHyp
<1>1. PICK r \in Nat : Filled(r) /\ Gone(x, r) /\ (s => InStep(x, r))
    BY DEF RingInv
<1>T. RxTypes(x, k)' /\ OnCpu(x)'
    BY RxTypesStep
<1>s. s => x = {"net", "wm"} /\ ~ b /\ \A f \in DOMAIN k : k[f] # "run"
    BY DEF RxHyp
<1> SUFFICES Polled(x)' /\ Fresh' /\ \E q \in Nat : Filled(q)' /\ Gone(x, q)' /\ (s => InStep(x, q)')
    BY <1>T DEF RingInv
<1>2. CASE Rx(x, k, b)!Receive
  <2>1. PICK f \in toCome :
           /\ toCome' = toCome \ {f}
           /\ IF ring[hw] = 0
              THEN /\ ring' = [ring EXCEPT ![hw] = f] /\ hw' = (hw + 1) % RXN
                   /\ arrived' = Append(arrived, f)
              ELSE UNCHANGED <<ring, hw, arrived>>
           /\ UNCHANGED <<g_rxhead, handled, g_stash, rxcopy, pc, held, budget, caller, cpu, ready,
                           g_rx_busy, g_rx_remote_only>>
    BY <1>2 DEF Rx!Receive, Rx!NoFrame, Rx!sched
  <2>2. CASE ring[hw] = 0
    <3>1. /\ toCome' = toCome \ {f} /\ ring' = [ring EXCEPT ![hw] = f]
          /\ hw' = (hw + 1) % RXN /\ arrived' = Append(arrived, f) /\ g_rxhead' = g_rxhead
        BY <2>1, <2>2
    <3>2. /\ Filled(r)' /\ Fresh' /\ \A m \in 1 .. Len(arrived) : arrived'[m] = arrived[m]
          /\ ring[g_rxhead] # 0 => ring'[g_rxhead] = ring[g_rxhead]
        BY Zenon, <2>2, <3>1, <1>0, <1>1, Written
    <3>3. Polled(x)'
        BY <2>1, <3>2, <1>0 DEF Polled
    <3>4. \A m \in 1 .. r : arrived'[m] = arrived[m]
        BY <3>2, <1>0, <1>1 DEF Filled, RxTypes
    <3>5. Gone(x, r)'
        BY <2>1, <3>4, <1>1 DEF Gone, Among
    <3>6. s => InStep(x, r)'
      <4>1. s => Len(handled) <= r
        BY SMTT(40), <1>0, <1>1 DEF InStep, RxTypes
      <4>2. s => \A i \in DOMAIN handled : i \in 1 .. r
        BY <4>1, <1>0 DEF RxTypes
      <4>3. s => \A i \in DOMAIN handled : handled'[i] = arrived'[i]
        BY <4>2, <3>4, <2>1, <1>1 DEF InStep
      <4>4. s /\ (\E c \in x : pc[c] = "dispatch") => r \in 1 .. r
        BY <1>0, <1>1 DEF InStep, RxTypes
      <4> QED  BY <4>3, <4>4, <3>4, <2>1, <1>1 DEF InStep
    <3> QED  BY <3>2, <3>3, <3>5, <3>6
  <2>3. CASE ring[hw] # 0
    <3>1. UNCHANGED <<ring, hw, arrived, g_rxhead, handled, g_stash, rxcopy, pc, held, caller,
                      g_rx_busy, g_rx_remote_only>>
        BY <2>1, <2>3
    <3>2. Polled(x)' /\ Filled(r)' /\ Gone(x, r)'
        BY <3>1, <1>0, <1>1 DEF Polled, Filled, Gone, Among
    <3>3. Fresh'
        BY <3>1, <2>1, <1>0 DEF Fresh
    <3>4. s => InStep(x, r)'
        BY <3>1, <1>1 DEF InStep
    <3> QED  BY <3>2, <3>3, <3>4
  <2> QED  BY <2>2, <2>3
<1>3. CASE Rx(x, k, b)!Leave
  <2>1. Polled(x)' /\ Fresh' /\ Filled(r)' /\ Gone(x, r)'
    BY <1>3, <1>0, <1>1, QuietStep DEF Rx!Leave, Rx!Goto, Rx!ringvars, RxTypes
  <2>2. s => InStep(x, r)'
    BY SMTT(40), <1>3, <1>0, <1>1 DEF Rx!Leave, Rx!Blocked, Rx!Goto, Rx!ringvars, RxTypes, InStep, Tick
  <2> QED  BY <2>1, <2>2
<1>4. CASE Rx(x, k, b)!Switch
  <2>1. Polled(x)' /\ Fresh' /\ Filled(r)' /\ Gone(x, r)'
    BY <1>4, <1>0, <1>1, QuietStep DEF Rx!Switch, Rx!ringvars
  <2>2. s => InStep(x, r)'
    BY <1>4, <1>0, <1>1 DEF Rx!Switch, Rx!ringvars, InStep
  <2> QED  BY <2>1, <2>2
<1>5. ASSUME NEW c \in x, Rx(x, k, b)!Wake(c)
      PROVE  Polled(x)' /\ Fresh' /\ \E q \in Nat : Filled(q)' /\ Gone(x, q)' /\ (s => InStep(x, q)')
  <2>1. Polled(x)' /\ Fresh' /\ Filled(r)' /\ Gone(x, r)'
    BY <1>5, <1>0, <1>1, QuietStep DEF Rx!Wake, Rx!Goto, Rx!ringvars, RxTypes
  <2>2. s => InStep(x, r)'
    BY ZenonT(40), <1>5, <1>0, <1>1 DEF Rx!Wake, Rx!Goto, Rx!ringvars, RxTypes, InStep, Tick
  <2> QED  BY <2>1, <2>2
<1>6. CASE "wm" \in x /\ Rx(x, k, b)!ShellCall
  <2>1. Polled(x)' /\ Fresh' /\ Filled(r)' /\ Gone(x, r)'
    BY <1>6, <1>0, <1>1, QuietStep DEF Rx!ShellCall, Rx!Goto, Rx!ringvars, RxTypes
  <2>2. ~ s
    BY <1>6, <1>s DEF Rx!ShellCall
  <2> QED  BY <2>1, <2>2
<1>7. CASE "browser" \in x /\ Rx(x, k, b)!BrowserFetch
    BY <1>7, <1>0
<1>8. ASSUME NEW c \in x, Rx(x, k, b)!Run(c)
      PROVE  Polled(x)' /\ Fresh' /\ \E q \in Nat : Filled(q)' /\ Gone(x, q)' /\ (s => InStep(x, q)')
  <2>1. CASE Rx(x, k, b)!TickEnter(c)
    <3>1. Polled(x)' /\ Fresh' /\ Filled(r)' /\ Gone(x, r)'
        BY <2>1, <1>0, <1>1, QuietStep DEF Rx!TickEnter, Rx!Goto, Rx!ringvars, RxTypes
    <3>2. s => InStep(x, r)'
        BY <2>1, <1>0, <1>1 DEF Rx!TickEnter, Rx!Goto, Rx!ringvars, RxTypes, InStep, Tick
    <3> QED  BY <3>1, <3>2
  <2>3. CASE Rx(x, k, b)!TickPoll(c)
    <3>1. /\ UNCHANGED <<ring, g_rxhead, hw, toCome, arrived, handled, g_stash, rxcopy, caller,
                          g_rx_busy, g_rx_remote_only>>
          /\ pc[c] = "poll" /\ pc' \in {[pc EXCEPT ![c] = "copy"], [pc EXCEPT ![c] = "end"]}
          /\ pc'[c] = "copy" => held' = [held EXCEPT ![c] = ring[g_rxhead]] /\ ring[g_rxhead] # 0
          /\ pc'[c] = "end" => held' = held
        BY Zenon, <2>3, <1>0 DEF Rx!TickPoll, Rx!rp1eth_rx_poll, Rx!NoFrame, Rx!Goto, Rx!ringvars, RxTypes
    <3>2. Polled(x)'
        BY Zenon, <3>1, <1>0 DEF Polled, RxTypes
    <3>3. Fresh' /\ Filled(r)'
        BY <3>1, <1>0, <1>1 DEF Fresh, Filled
    <3>a. \A e \in x : /\ pc'[e] = "dispatch" <=> pc[e] = "dispatch"
                       /\ pc'[e] \in Tick <=> pc[e] \in Tick
                       /\ pc'[e] = pc[e] \/ pc'[e] \in Tick
        BY Zenon, <3>1, <1>0 DEF RxTypes, Tick
    <3>4. Gone(x, r)'
        BY <3>1, <3>a, <1>1 DEF Gone, Among
    <3>5. s => InStep(x, r)'
        BY <3>1, <3>a, <1>1 DEF InStep
    <3> QED  BY <3>2, <3>3, <3>4, <3>5
  <2>4. CASE Rx(x, k, b)!TickCopy(c)
    <3>1. /\ ring' = [ring EXCEPT ![g_rxhead] = 0] /\ g_rxhead' = (g_rxhead + 1) % RXN
          /\ UNCHANGED <<hw, toCome, arrived, handled, g_stash, held, caller, g_rx_busy, g_rx_remote_only>>
          /\ rxcopy' = ring[g_rxhead] /\ ring[g_rxhead] # 0 /\ cpu = c /\ pc[c] = "copy"
          /\ pc' = [pc EXCEPT ![c] = "dispatch"]
        BY <2>4, <1>0 DEF Rx!TickCopy, Rx!rp1eth_rx_release, Rx!NoFrame, Rx!Goto, Polled
    <3>2. /\ Filled(r + 1)' /\ Fresh' /\ r + 1 \in Nat /\ r + 1 <= Len(arrived)
          /\ ring[g_rxhead] = arrived[r + 1] /\ ~ Among(r, arrived[r + 1])
        BY <3>1, <1>0, <1>1, Released
    <3>3. \A e \in x \ {c} : pc[e] \notin Tick
        BY <3>1, <1>0 DEF OnCpu
    <3>4. Polled(x)'
        BY <3>1, <3>3, <1>0 DEF Polled, Tick, RxTypes
    <3>n. \A m \in 1 .. r : m \in 1 .. r + 1
        OBVIOUS
    <3>5. \A f : Among(r, f) => Among(r + 1, f)' /\ f # arrived[r + 1]
        BY <3>1, <3>2, <3>n DEF Among
    <3>6. Among(r + 1, rxcopy)'
      <4>1. r + 1 \in 1 .. r + 1
        OBVIOUS
      <4> QED  BY <4>1, <3>1, <3>2 DEF Among
    <3>7. Gone(x, r + 1)'
        BY <3>1, <3>2, <3>5, <3>6, <1>1 DEF Gone
    <3>8. s => InStep(x, r + 1)'
      <4> SUFFICES ASSUME s PROVE InStep(x, r + 1)'
        OBVIOUS
      <4>1. ~ \E e \in x : pc[e] = "dispatch"
        BY <3>1, <3>3 DEF Tick
      <4>2. r = Len(handled)
        BY <4>1, <1>1 DEF InStep
      <4>3. \E e \in x : pc'[e] = "dispatch"
        BY <3>1, <1>0 DEF RxTypes
      <4>4. \E e \in x : pc[e] \in Tick
        BY <3>1 DEF Tick
      <4>5. \E e \in x : pc'[e] \in Tick
        BY <4>3 DEF Tick
      <4>6. \A e \in x : pc'[e] \in Tick \cup {"idle", "block", "off"}
        BY <3>1, <1>0, <1>1 DEF InStep, RxTypes, Tick
      <4> QED  BY <4>2, <4>3, <4>4, <4>5, <4>6, <3>1, <3>2, <1>1 DEF InStep
    <3> QED  BY <3>2, <3>4, <3>7, <3>8
  <2>6. CASE Rx(x, k, b)!TickEnd(c)
    <3>1. Polled(x)' /\ Fresh' /\ Filled(r)' /\ Gone(x, r)'
        BY <2>6, <1>0, <1>1, QuietStep DEF Rx!TickEnd, Rx!Goto, Rx!ringvars, RxTypes
    <3>2. \A e \in x \ {c} : pc[e] \notin Tick
        BY <2>6, <1>0 DEF OnCpu, Rx!TickEnd, Tick
    <3>3. s => InStep(x, r)'
        BY <2>6, <3>2, <1>0, <1>1 DEF Rx!TickEnd, Rx!Goto, Rx!ringvars, RxTypes, InStep, Tick
    <3> QED  BY <3>1, <3>3
  <2>7. CASE Rx(x, k, b)!TickBusy(c)
    <3>1. Polled(x)' /\ Fresh' /\ Filled(r)' /\ Gone(x, r)'
        BY <2>7, <1>0, <1>1, QuietStep DEF Rx!TickBusy, Rx!Goto, Rx!ringvars, RxTypes
    <3>2. s => InStep(x, r)'
        BY <2>7, <1>0, <1>1 DEF Rx!TickBusy, Rx!Goto, Rx!ringvars, RxTypes, InStep, Tick
    <3> QED  BY <3>1, <3>2
  <2>8. CASE Rx(x, k, b)!net_rx_remote_window_on(c)
    <3>1. Polled(x)' /\ Fresh' /\ Filled(r)' /\ Gone(x, r)'
        BY <2>8, <1>0, <1>1, QuietStep DEF Rx!net_rx_remote_window_on, Rx!Goto, Rx!ringvars, RxTypes
    <3>2. ~ s
        BY <2>8, <1>1 DEF Rx!net_rx_remote_window_on, InStep, Tick
    <3> QED  BY <3>1, <3>2
  <2>10. CASE Rx(x, k, b)!CallSleeps(c)
    <3>1. Polled(x)' /\ Fresh' /\ Filled(r)' /\ Gone(x, r)'
        BY <2>10, <1>0, <1>1, QuietStep DEF Rx!CallSleeps, Rx!Goto, Rx!ringvars, RxTypes
    <3>2. ~ s
        BY <2>10, <1>1 DEF Rx!CallSleeps, InStep, Tick
    <3> QED  BY <3>1, <3>2
  <2>11. CASE Rx(x, k, b)!net_rx_remote_window_off(c)
    <3>1. Polled(x)' /\ Fresh' /\ Filled(r)' /\ Gone(x, r)'
        BY Zenon, <2>11, <1>0, <1>1, QuietStep DEF Rx!net_rx_remote_window_off, Rx!Goto, Rx!ringvars, RxTypes
    <3>2. ~ s
        BY <2>11, <1>1 DEF Rx!net_rx_remote_window_off, InStep, Tick
    <3> QED  BY <3>1, <3>2
  <2>a. cpu = c => \A e \in x \ {c} : pc[e] \notin Tick
    BY <1>0 DEF OnCpu
  <2>2. CASE Rx(x, k, b)!TickStash(c)
    <3>1. CASE g_stash = << >>
      <4>1. Polled(x)' /\ Fresh' /\ Filled(r)' /\ Gone(x, r)'
        BY Zenon, <2>2, <3>1, <1>0, <1>1, QuietStep DEF Rx!TickStash, Rx!Goto, Rx!ringvars, RxTypes
      <4>2. s => InStep(x, r)'
        <5>1. \A e \in x : /\ pc'[e] = "dispatch" <=> pc[e] = "dispatch"
                           /\ pc'[e] \in Tick <=> pc[e] \in Tick
                           /\ pc'[e] = pc[e] \/ pc'[e] \in Tick
            BY <2>2, <3>1, <1>0 DEF Rx!TickStash, Rx!Goto, RxTypes, Tick
        <5> QED  BY <5>1, <2>2, <3>1, <1>1 DEF Rx!TickStash, Rx!ringvars, InStep
      <4> QED  BY <4>1, <4>2
    <3>2. CASE g_stash # << >>
      <4> DEFINE e == g_stash[Len(g_stash)]
                 n == Len(g_stash)
      <4>1. /\ UNCHANGED <<ring, g_rxhead, hw, toCome, arrived, held, rxcopy>>
            /\ g_stash' = SubSeq(g_stash, 1, n - 1) /\ handled' = Append(handled, e)
            /\ pc' \in {[pc EXCEPT ![c] = "stash"], [pc EXCEPT ![c] = "open"]}
            /\ cpu = c /\ pc[c] = "stash"
        BY <2>2, <3>2 DEF Rx!TickStash, Rx!Dispatch, Rx!Goto, Rx!ringvars
      <4>2. ~ s
        BY <3>2, <1>1 DEF InStep
      <4>3. \A d \in x : pc'[d] # "dispatch" /\ (pc'[d] = "copy" => pc[d] = "copy")
        BY Zenon, <4>1, <2>a, <1>0 DEF RxTypes, Tick
      <4>4. Polled(x)' /\ Fresh' /\ Filled(r)'
        BY <4>1, <4>3, <1>0, <1>1 DEF Polled, Fresh, Filled
      <4>5. n \in Nat \ {0} /\ n \in DOMAIN g_stash /\ DOMAIN g_stash = 1 .. n /\ e \in DOMAIN k
        BY <3>2, <1>0 DEF RxTypes
      <4>6. /\ DOMAIN g_stash' = 1 .. n - 1
            /\ \A i \in 1 .. n - 1 : g_stash'[i] = g_stash[i]
        <5>1. \A i \in 1 .. n - 1 : g_stash[i] \in DOMAIN k
            BY <4>5, <1>0 DEF RxTypes
        <5>2. n - 1 \in Int /\ 1 \in Int
            BY <4>5
        <5> HIDE DEF n
        <5>3. /\ SubSeq(g_stash, 1, n - 1) \in Seq(DOMAIN k)
              /\ Len(SubSeq(g_stash, 1, n - 1)) = IF 1 <= n - 1 THEN (n - 1) - 1 + 1 ELSE 0
              /\ \A i \in 1 .. (n - 1) - 1 + 1 : SubSeq(g_stash, 1, n - 1)[i] = g_stash[1 + i - 1]
            BY <5>1, <5>2, SubSeqProperties
        <5>4. Len(SubSeq(g_stash, 1, n - 1)) = n - 1
            BY <5>3, <4>5
        <5>5. \A i \in 1 .. n - 1 : SubSeq(g_stash, 1, n - 1)[i] = g_stash[i]
            BY <5>3, <4>5
        <5> QED  BY <4>1, <5>3, <5>4, <5>5
      <4>7. Without(handled, e) /\ Among(r, e) /\ NoTwice(handled) /\ NoTwice(g_stash)
        BY <4>5, <1>1, GoneIs DEF Without
      <4>8. /\ NoTwice(handled)' /\ \A i \in DOMAIN handled' :
                  handled'[i] = e \/ (i \in DOMAIN handled /\ handled'[i] = handled[i])
        <5>1. handled \in Seq(DOMAIN k)
            BY <1>0 DEF RxTypes
        <5> HIDE DEF e
        <5> QED  BY <5>1, <4>1, <4>5, <4>7, Joins, SMTT(40) DEF NoTwice
      <4>9. \A i \in DOMAIN g_stash' : i \in DOMAIN g_stash /\ i # n /\ g_stash'[i] = g_stash[i]
        BY <4>5, <4>6
      <4>10. \A f : Among(r, f)' <=> Among(r, f)
        BY <4>1 DEF Among
      <4>11. Gone(x, r)'
        BY <4>3, <4>5, <4>7, <4>8, <4>9, <4>10, <1>1 DEF Gone, NoTwice, Without
      <4> QED  BY <4>2, <4>4, <4>11
    <3> QED  BY <3>1, <3>2
  <2>5. CASE Rx(x, k, b)!TickDispatch(c)
    <3>1. /\ UNCHANGED <<ring, g_rxhead, hw, toCome, arrived, held, g_rx_busy, g_rx_remote_only>>
          /\ pc[c] = "dispatch" /\ cpu = c
          /\ pc' \in {[pc EXCEPT ![c] = "poll"], [pc EXCEPT ![c] = "open"]}
          /\ \/ handled' = Append(handled, rxcopy) /\ g_stash' = g_stash
             \/ handled' = handled /\ g_stash' = Append(g_stash, rxcopy)
             \/ handled' = handled /\ g_stash' = g_stash
        BY <2>5 DEF Rx!TickDispatch, Rx!Dispatch, Rx!PutAside, Rx!Goto, Rx!ringvars
    <3>2. \A d \in x : pc'[d] # "dispatch" /\ (pc'[d] = "copy" => pc[d] = "copy")
        BY Zenon, <3>1, <2>a, <1>0 DEF RxTypes, Tick
    <3>3. Polled(x)' /\ Fresh' /\ Filled(r)'
        BY <3>1, <3>2, <1>0, <1>1 DEF Polled, Fresh, Filled
    <3>4. Among(r, rxcopy) /\ Without(handled, rxcopy) /\ Without(g_stash, rxcopy)
        BY <3>1, <1>1, GoneIs
    <3>5. rxcopy \in DOMAIN k
        BY <3>4, <1>0, <1>1, InRange
    <3>6. \A f : Among(r, f)' <=> Among(r, f)
        BY <3>1 DEF Among
    <3>7. Among(r, rxcopy)' <=> Among(r, rxcopy')
        BY <3>1 DEF Among
    <3>8. Gone(x, r)'
      <4> DEFINE e == rxcopy
      <4>1. PICK g : g = rxcopy
        OBVIOUS
      <4>2. Among(r, g)'
        BY <4>1, <3>4, <3>6
      <4> QED  BY Zenon, <4>1, <4>2, <3>1, <3>2, <3>4, <3>5, <3>6, <1>0, <1>1, Placed
    <3>9. s => InStep(x, r)'
      <4> SUFFICES ASSUME s PROVE InStep(x, r)'
        OBVIOUS
      <4>1. g_rx_remote_only = 0 /\ k[rxcopy] # "run"
        BY <3>5, <1>1, <1>s DEF InStep
      <4>2. /\ handled' = Append(handled, rxcopy) /\ g_stash' = g_stash /\ caller' = caller
            /\ pc' = [pc EXCEPT ![c] = "poll"]
        BY <4>1, <2>5 DEF Rx!TickDispatch, Rx!Dispatch, Rx!Goto
      <4>3. r = Len(handled) + 1 /\ rxcopy = arrived[r]
        BY <3>1, <1>1 DEF InStep
      <4>4. /\ Len(handled') = Len(handled) + 1 /\ DOMAIN handled' = 1 .. Len(handled) + 1
            /\ handled'[Len(handled) + 1] = rxcopy /\ \A i \in 1 .. Len(handled) : handled'[i] = handled[i]
            /\ DOMAIN handled = 1 .. Len(handled) /\ Len(handled) \in Nat
        BY <4>2, <3>5, <1>0, AppendProperties DEF RxTypes
      <4>5. \A i \in DOMAIN handled' : handled'[i] = arrived'[i]
        <5>1. \A i \in DOMAIN handled : handled[i] = arrived[i]
            BY <1>1 DEF InStep
        <5> QED  BY <5>1, <4>3, <4>4, <3>1
      <4>6. \E d \in x : pc'[d] \in Tick
        BY <4>2, <1>0 DEF Tick, RxTypes
      <4>7. \A d \in x : caller'[d] = "none" /\ pc'[d] \in Tick \cup {"idle", "block", "off"}
        BY <4>2, <1>0, <1>1 DEF InStep, RxTypes, Tick
      <4>8. g_rx_busy = 1
        BY <3>1, <1>1 DEF InStep, Tick
      <4>9. g_stash = << >>
        BY <1>1 DEF InStep
      <4> QED  BY <4>1, <4>2, <4>3, <4>4, <4>5, <4>6, <4>7, <4>8, <4>9, <3>1, <3>2 DEF InStep
    <3> QED  BY <3>3, <3>8, <3>9
  <2>9. CASE Rx(x, k, b)!net_rx_pump(c)
    <3>0. cpu = c /\ pc[c] \in {"pump", "browse"} /\ ~ s
        BY <2>9, <1>1 DEF Rx!net_rx_pump, InStep, Tick
    <3>1. CASE ~ (budget[c] > 0 /\ ring[g_rxhead] # 0)
      <4>1. Polled(x)' /\ Fresh' /\ Filled(r)' /\ Gone(x, r)'
        BY Zenon, <2>9, <3>1, <1>0, <1>1, QuietStep
            DEF Rx!net_rx_pump, Rx!rp1eth_rx_poll, Rx!NoFrame, Rx!Goto, Rx!ringvars, RxTypes
      <4> QED  BY <4>1, <3>0
    <3>2. CASE budget[c] > 0 /\ ring[g_rxhead] # 0
      <4> DEFINE e == ring[g_rxhead]
      <4>1. /\ ring' = [ring EXCEPT ![g_rxhead] = 0] /\ g_rxhead' = (g_rxhead + 1) % RXN
            /\ UNCHANGED <<hw, toCome, arrived, held, pc, rxcopy>>
            /\ \/ handled' = Append(handled, e) /\ g_stash' = g_stash
               \/ handled' = handled /\ g_stash' = Append(g_stash, e)
               \/ handled' = handled /\ g_stash' = g_stash
        BY <2>9, <3>2 DEF Rx!net_rx_pump, Rx!rp1eth_rx_release, Rx!PutAside, Rx!rp1eth_rx_poll, Rx!NoFrame
      <4>2. /\ Filled(r + 1)' /\ Fresh' /\ r + 1 \in Nat /\ r + 1 <= Len(arrived)
            /\ e = arrived[r + 1] /\ ~ Among(r, arrived[r + 1])
        BY <3>2, <4>1, <1>0, <1>1, Released
      <4>3. \A d \in x : pc'[d] \notin {"copy", "dispatch"}
        BY <4>1, <3>0, <2>a DEF Tick
      <4>4. Polled(x)'
        BY <4>3 DEF Polled
      <4>5. PICK g : g = e
        OBVIOUS
      <4>6. g \in DOMAIN k
        BY <4>2, <4>5, <1>0, SMTT(30) DEF RxTypes
      <4>7. Without(handled, g) /\ Without(g_stash, g)
        BY <4>2, <4>5, <1>1, GoneIs DEF Without
      <4>8. r + 1 \in 1 .. r + 1 /\ \A m \in 1 .. r : m \in 1 .. r + 1
        OBVIOUS
      <4>9. Among(r + 1, g)' /\ \A f : Among(r, f) => Among(r + 1, f)'
        BY <4>1, <4>2, <4>5, <4>8 DEF Among
      <4>10. /\ \/ handled' = Append(handled, g) /\ g_stash' = g_stash
                \/ handled' = handled /\ g_stash' = Append(g_stash, g)
                \/ handled' = handled /\ g_stash' = g_stash
             /\ \A d \in x : pc'[d] # "dispatch"
        BY <4>1, <4>3, <4>5
      <4>11. Gone(x, r + 1)'
        BY Zenon, <4>2, <4>6, <4>7, <4>9, <4>10, <1>0, <1>1, Placed
      <4> QED  BY <3>0, <4>2, <4>4, <4>11
    <3> QED  BY <3>1, <3>2
  <2> QED  BY <1>8, <2>1, <2>2, <2>3, <2>4, <2>5, <2>6, <2>7, <2>8, <2>9, <2>10, <2>11 DEF Rx!Run
<1> QED  BY <1>2, <1>3, <1>4, <1>5, <1>6, <1>7, <1>8 DEF Rx!Next

\* Where no frame runs a program, nothing is inside TCP for longer than a dispatch.
LEMMA TcpIdleStep ==
    ASSUME NEW x, NEW k, NEW b, NEW s, RxHyp(x, k, b, s), RingInv(x, k, s), "wm" \in x,
           inTcp = {}, Rx(x, k, b)!Next
    PROVE  inTcp' = {}
<1>0. RxTypes(x, k) /\ \A f \in DOMAIN k : k[f] # "run"
    BY DEF RingInv, RxHyp
<1>1. PICK r \in Nat : Filled(r) /\ Gone(x, r)
    BY DEF RingInv
<1>2. ASSUME NEW c \in x, Rx(x, k, b)!TickStash(c) PROVE inTcp' = {}
  <2>1. g_stash # << >> => g_stash[Len(g_stash)] \in DOMAIN k
    BY <1>0 DEF RxTypes
  <2> QED  BY <1>0, <1>2, <2>1 DEF Rx!TickStash, Rx!Dispatch
<1>3. ASSUME NEW c \in x, Rx(x, k, b)!TickDispatch(c) PROVE inTcp' = {}
  <2>1. rxcopy \in DOMAIN k
    BY <1>0, <1>1, <1>3, InRange DEF Rx!TickDispatch, Gone
  <2> QED  BY <1>0, <1>3, <2>1 DEF Rx!TickDispatch, Rx!Dispatch
<1>4. ASSUME NEW c \in x, Rx(x, k, b)!Run(c) PROVE inTcp' = {}
    BY <1>2, <1>3, <1>4
        DEF Rx!Run, Rx!TickEnter, Rx!TickPoll, Rx!TickCopy, Rx!TickEnd, Rx!TickBusy,
            Rx!net_rx_remote_window_on, Rx!net_rx_pump, Rx!CallSleeps, Rx!net_rx_remote_window_off
<1> QED  BY <1>4 DEF Rx!Next, Rx!Receive, Rx!Leave, Rx!Switch, Rx!Wake, Rx!ShellCall, Rx!BrowserFetch

\* The guard where only the net process ticks: it is set inside a tick, and the window
\* is open while a call made there waits.
GuardInv(x) ==
    /\ pc \in [x -> Place] /\ caller \in [x -> {"none", "idle", "stash", "poll"}]
    /\ cpu \in x /\ ready \subseteq x
    /\ g_rx_busy \in {0, 1} /\ g_rx_remote_only \in {0, 1} /\ inTcp \subseteq {"net"}
    /\ g_rx_busy = 1 <=> pc["net"] \in Tick \cup {"open"}
    /\ caller["net"] = "none" =>
          pc["net"] \in Tick \cup {"idle", "block", "off"} /\ g_rx_remote_only = 0
    /\ caller["net"] # "none" =>
          /\ pc["net"] \in {"open", "pump", "wait", "block", "dozing"}
          /\ caller["net"] \in {"stash", "poll"}
    /\ "browser" \in x =>
          caller["browser"] = "none" /\ pc["browser"] \in {"idle", "browse", "asleep", "off"}

LEMMA GuardInit ==
    ASSUME NEW x, NEW k, x = {"net"} \/ x = {"net", "browser"}, Rx(x, k, FALSE)!Init
    PROVE  GuardInv(x)
BY DEF GuardInv, Rx!Init, Place, Tick

\* The network process moves on inside a tick, or into a handler that opens the window.
LEMMA GuardMove ==
    ASSUME NEW x, "net" \in x, x \subseteq {"net", "browser"}, GuardInv(x), pc["net"] \in Tick,
           UNCHANGED <<g_rx_busy, g_rx_remote_only, cpu, ready>>,
           NEW v \in Tick \cup {"open"}, pc' = [pc EXCEPT !["net"] = v],
           \/ /\ v = "open" /\ inTcp' = inTcp \cup {"net"}
              /\ \E w \in {"stash", "poll"} : caller' = [caller EXCEPT !["net"] = w]
           \/ v # "open" /\ UNCHANGED <<caller, inTcp>>
    PROVE  GuardInv(x)'
<1>1. pc \in [x -> Place] /\ caller \in [x -> {"none", "idle", "stash", "poll"}]
    BY DEF GuardInv
<1>2. v \in Place
    BY DEF Place, Tick
<1>3. pc' \in [x -> Place] /\ pc'["net"] = v /\ ("browser" \in x => pc'["browser"] = pc["browser"])
    BY <1>1, <1>2
<1>4. /\ caller' \in [x -> {"none", "idle", "stash", "poll"}]
      /\ "browser" \in x => caller'["browser"] = caller["browser"]
      /\ v = "open" => caller'["net"] \in {"stash", "poll"}
      /\ v # "open" => caller'["net"] = caller["net"]
  <2>1. CASE \E w \in {"stash", "poll"} : v = "open" /\ caller' = [caller EXCEPT !["net"] = w]
      BY <1>1, <2>1
  <2>2. CASE v # "open" /\ UNCHANGED <<caller, inTcp>>
      BY <1>1, <2>2
  <2> QED  BY <2>1, <2>2
<1>5. caller["net"] = "none"
    BY DEF GuardInv, Tick
<1>6. g_rx_busy = 1 /\ g_rx_remote_only = 0
    BY <1>5 DEF GuardInv
<1>7. inTcp' \subseteq {"net"}
    BY Zenon DEF GuardInv
<1>8. "open" \notin Tick /\ "open" \in {"open", "pump", "wait", "block", "dozing"}
    BY DEF Tick
<1>9. /\ g_rx_busy' = 1 <=> pc'["net"] \in Tick \cup {"open"}
      /\ caller'["net"] = "none" => pc'["net"] \in Tick \cup {"idle", "block", "off"} /\ g_rx_remote_only' = 0
      /\ caller'["net"] # "none" => /\ pc'["net"] \in {"open", "pump", "wait", "block", "dozing"}
                                    /\ caller'["net"] \in {"stash", "poll"}
    BY <1>3, <1>4, <1>5, <1>6, <1>8
<1>10. /\ cpu' \in x /\ ready' \subseteq x /\ g_rx_busy' \in {0, 1} /\ g_rx_remote_only' \in {0, 1}
       /\ "browser" \in x => caller'["browser"] = "none" /\ pc'["browser"] \in {"idle", "browse", "asleep", "off"}
    BY <1>3, <1>4 DEF GuardInv
<1> QED  BY <1>3, <1>4, <1>7, <1>9, <1>10 DEF GuardInv

\* The guard through every step.
LEMMA GuardStep ==
    ASSUME NEW x, NEW k, x = {"net"} \/ x = {"net", "browser"}, GuardInv(x),
           Rx(x, k, FALSE)!Next
    PROVE  GuardInv(x)'
<1>0. "net" \in x /\ "wm" \notin x /\ x \subseteq {"net", "browser"}
    OBVIOUS
<1>1. CASE Rx(x, k, FALSE)!Receive
    BY <1>1 DEF Rx!Receive, Rx!sched, GuardInv
<1>2. CASE Rx(x, k, FALSE)!Leave
    BY Zenon, <1>0, <1>2 DEF Rx!Leave, Rx!Blocked, Rx!Choose, Rx!Goto, GuardInv, Place, Tick
<1>3. CASE Rx(x, k, FALSE)!Switch
    BY <1>3 DEF Rx!Switch, GuardInv
<1>4. ASSUME NEW c \in x, Rx(x, k, FALSE)!Wake(c) PROVE GuardInv(x)'
    BY <1>0, <1>4 DEF Rx!Wake, Rx!Goto, Rx!sched, GuardInv, Place, Tick
<1>5. CASE "browser" \in x /\ Rx(x, k, FALSE)!BrowserFetch
    BY <1>0, <1>5 DEF Rx!BrowserFetch, Rx!Goto, Rx!sched, GuardInv, Place, Tick
<1>6. ASSUME NEW c \in x, Rx(x, k, FALSE)!Run(c) PROVE GuardInv(x)'
  <2>1. CASE Rx(x, k, FALSE)!TickEnter(c)
    BY <1>0, <2>1 DEF Rx!TickEnter, Rx!Goto, Rx!sched, GuardInv, Place, Tick
  <2>2. CASE Rx(x, k, FALSE)!TickStash(c)
    <3>1. /\ pc["net"] = "stash" /\ UNCHANGED <<g_rx_busy, g_rx_remote_only, cpu, ready>>
          /\ \/ /\ pc' = [pc EXCEPT !["net"] = "open"] /\ caller' = [caller EXCEPT !["net"] = "stash"]
                /\ inTcp' = inTcp \cup {"net"}
             \/ /\ pc' = [pc EXCEPT !["net"] = "stash"] \/ pc' = [pc EXCEPT !["net"] = "poll"]
                /\ UNCHANGED <<caller, inTcp>>
      <4>1. c = "net"
        BY <1>0, <2>2 DEF Rx!TickStash, GuardInv
      <4> QED  BY <4>1, <2>2 DEF Rx!TickStash, Rx!Dispatch, Rx!Goto, Rx!sched
    <3> QED  BY <1>0, <3>1, GuardMove DEF Tick
  <2>3. CASE Rx(x, k, FALSE)!TickPoll(c)
    <3>1. /\ pc["net"] = "poll" /\ UNCHANGED <<g_rx_busy, g_rx_remote_only, cpu, ready, caller, inTcp>>
          /\ pc' = [pc EXCEPT !["net"] = "copy"] \/ pc' = [pc EXCEPT !["net"] = "end"]
      <4>1. c = "net"
        BY <1>0, <2>3 DEF Rx!TickPoll, GuardInv
      <4> QED  BY Zenon, <4>1, <2>3 DEF Rx!TickPoll, Rx!Goto, Rx!sched
    <3> QED  BY <1>0, <3>1, GuardMove DEF Tick
  <2>4. CASE Rx(x, k, FALSE)!TickCopy(c)
    BY <1>0, <2>4 DEF Rx!TickCopy, Rx!Goto, Rx!sched, GuardInv, Place, Tick
  <2>5. CASE Rx(x, k, FALSE)!TickDispatch(c)
    <3>1. /\ pc["net"] = "dispatch" /\ UNCHANGED <<g_rx_busy, g_rx_remote_only, cpu, ready>>
          /\ \/ /\ pc' = [pc EXCEPT !["net"] = "open"] /\ caller' = [caller EXCEPT !["net"] = "poll"]
                /\ inTcp' = inTcp \cup {"net"}
             \/ pc' = [pc EXCEPT !["net"] = "poll"] /\ UNCHANGED <<caller, inTcp>>
      <4>1. c = "net"
        BY <1>0, <2>5 DEF Rx!TickDispatch, GuardInv
      <4> QED  BY Zenon, <4>1, <2>5 DEF Rx!TickDispatch, Rx!Dispatch, Rx!Goto, Rx!sched
    <3> QED  BY <1>0, <3>1, GuardMove DEF Tick
  <2>6. CASE Rx(x, k, FALSE)!TickEnd(c)
    BY <1>0, <2>6 DEF Rx!TickEnd, Rx!Goto, Rx!sched, GuardInv, Place, Tick
  <2>7. CASE Rx(x, k, FALSE)!TickBusy(c)
    BY <1>0, <2>7 DEF Rx!TickBusy, Rx!Goto, Rx!sched, GuardInv, Place, Tick
  <2>8. CASE Rx(x, k, FALSE)!net_rx_remote_window_on(c)
    BY <1>0, <2>8 DEF Rx!net_rx_remote_window_on, Rx!Goto, Rx!sched, GuardInv, Place, Tick
  <2>9. CASE Rx(x, k, FALSE)!net_rx_pump(c)
    <3>1. /\ pc[c] \in {"pump", "browse"}
          /\ UNCHANGED <<g_rx_busy, g_rx_remote_only, cpu, ready, caller, inTcp>>
          /\ \/ UNCHANGED pc
             \/ pc[c] = "pump" /\ pc' = [pc EXCEPT ![c] = "wait"]
             \/ pc[c] = "browse" /\ pc' = [pc EXCEPT ![c] = "asleep"]
        BY Zenon, <2>9 DEF Rx!net_rx_pump, Rx!Goto, Rx!sched
    <3> QED  BY <1>0, <3>1 DEF GuardInv, Place, Tick
  <2>10. CASE Rx(x, k, FALSE)!CallSleeps(c)
    BY <1>0, <2>10 DEF Rx!CallSleeps, Rx!Goto, Rx!sched, GuardInv, Place, Tick
  <2>11. CASE Rx(x, k, FALSE)!net_rx_remote_window_off(c)
    BY <1>0, <2>11 DEF Rx!net_rx_remote_window_off, Rx!Goto, Rx!sched, GuardInv, Place, Tick
  <2> QED  BY Zenon, <1>6, <2>1, <2>2, <2>3, <2>4, <2>5, <2>6, <2>7, <2>8, <2>9, <2>10, <2>11 DEF Rx!Run
<1> QED  BY Zenon, <1>0, <1>1, <1>2, <1>3, <1>4, <1>5, <1>6 DEF Rx!Next

FramesInv ==
    /\ scene = "drain" => RingInv({"net", "wm"}, Plain, TRUE) /\ inTcp = {}
    /\ scene = "window" => RingInv({"net"}, Mixed, FALSE) /\ GuardInv({"net"})
    /\ scene = "shell" => RingInv({"net", "wm"}, Plain, FALSE) /\ inTcp = {}
    /\ scene = "fetch" => GuardInv({"net", "browser"})

\* The scenes are ones the ring's argument is made for.
LEMMA RxScenes ==
    /\ RxHyp({"net", "wm"}, Plain, FALSE, TRUE) /\ RxHyp({"net", "wm"}, Plain, TRUE, FALSE)
    /\ RxHyp({"net"}, Mixed, FALSE, FALSE)
<1>1. \A f \in DOMAIN Plain : Plain[f] \in {"tcp", "remote", "page"}
    BY NetAssumption
<1>2. Plain \in Seq({"tcp", "run", "remote", "page"})
    BY NetAssumption
<1> QED  BY Zenon, <1>1, <1>2, NetAssumption DEF RxHyp

\* What the ring's invariant gives.
LEMMA RingSound ==
    ASSUME NEW x, NEW k, NEW b, NEW s, RxHyp(x, k, b, s), RingInv(x, k, s)
    PROVE  /\ Rx(x, k, b)!RingInStep
           /\ s => Rx(x, k, b)!InOrderOnce /\ Rx(x, k, b)!GuardRestored
<1>0. /\ RxTypes(x, k) /\ RXN \in Nat \ {0} /\ DOMAIN k \subseteq Nat \ {0}
    BY NetAssumption DEF RingInv, RxHyp
<1>1. PICK r \in Nat : Filled(r) /\ Gone(x, r) /\ (s => InStep(x, r))
    BY DEF RingInv
<1>2. Rx(x, k, b)!RingInStep
  <2>1. \A i, j \in 1 .. Len(handled) : handled[i] = handled[j] => i = j
    <3>1. DOMAIN handled = 1 .. Len(handled)
        BY <1>0 DEF RxTypes
    <3>2. \A i, j \in DOMAIN handled : handled[i] = handled[j] => i = j
        BY <1>1 DEF Gone
    <3> QED  BY <3>1, <3>2
  <2>2. ASSUME NEW t \in 0 .. RXN - 1, ring[t] # 0 PROVE ring[g_rxhead] # 0
    <3>1. PICK i \in r + 1 .. Len(arrived) : t = (i - 1) % RXN
        BY <1>1, <2>2 DEF Filled
    <3>2. r + 1 \in r + 1 .. Len(arrived) /\ (r + 1) - 1 = r /\ r + 1 \in 1 .. Len(arrived)
        BY <1>0, <1>1, <3>1 DEF Filled, RxTypes
    <3>3. ring[g_rxhead] = arrived[r + 1]
        BY <1>1, <3>2 DEF Filled
    <3>4. arrived[r + 1] \in DOMAIN k
        BY <1>0, <3>2 DEF RxTypes
    <3> QED  BY <1>0, <3>3, <3>4
  <2> QED  BY <2>1, <2>2 DEF Rx!RingInStep, Rx!Slot, Rx!NoFrame
<1>3. ASSUME s PROVE Rx(x, k, b)!InOrderOnce
  <2>1. /\ \A i \in DOMAIN handled : handled[i] = arrived[i]
        /\ Len(handled) \in Nat /\ DOMAIN handled = 1 .. Len(handled)
        /\ Len(handled) <= Len(arrived) /\ Len(arrived) \in Nat
    <3>1. Len(handled) \in Nat /\ DOMAIN handled = 1 .. Len(handled) /\ Len(arrived) \in Nat
        BY <1>0 DEF RxTypes
    <3>2. /\ \A i \in DOMAIN handled : handled[i] = arrived[i]
          /\ r = Len(handled) \/ r = Len(handled) + 1
        BY <1>1, <1>3 DEF InStep
    <3>3. r <= Len(arrived)
        BY <1>1 DEF Filled
    <3>4. Len(handled) <= Len(arrived)
      <4> DEFINE m == Len(handled)  a == Len(arrived)
      <4>1. m \in Nat /\ a \in Nat /\ r \in Nat /\ (r = m \/ r = m + 1) /\ r <= a
        BY Zenon, <3>1, <3>2, <3>3, <1>1
      <4> HIDE DEF m, a
      <4>2. m <= a
        BY <4>1
      <4> QED  BY <4>2, Zenon DEF m, a
    <3> QED  BY Zenon, <3>1, <3>2, <3>4
  <2> DEFINE n == Len(handled)
             q == SubSeq(arrived, 1, n)
  <2>2. \A i \in 1 .. n : arrived[i] \in DOMAIN k
    BY <1>0, <2>1, SMTT(30) DEF RxTypes
  <2>3. n \in Nat
    BY <2>1
  <2>4. q \in Seq(DOMAIN k) /\ Len(q) = n /\ \A i \in 1 .. n : q[i] = arrived[i]
    <3> HIDE DEF n
    <3>1. /\ q \in Seq(DOMAIN k)
          /\ Len(q) = IF 1 <= n THEN n - 1 + 1 ELSE 0
          /\ \A i \in 1 .. n - 1 + 1 : q[i] = arrived[1 + i - 1]
        BY <2>2, <2>3, SubSeqProperties
    <3>2. Len(q) = n
        BY <3>1, <2>3
    <3>3. \A i \in 1 .. n : q[i] = arrived[i]
        BY <3>1, <2>3
    <3> QED  BY <3>1, <3>2, <3>3
  <2> HIDE DEF q
  <2>5. handled = q
    BY Zenon, <1>0, <2>1, <2>4, SeqEqual DEF RxTypes
  <2> QED  BY <2>5 DEF Rx!InOrderOnce, q
<1>4. ASSUME s PROVE Rx(x, k, b)!GuardRestored
    BY <1>1, <1>4 DEF Rx!GuardRestored, InStep, Tick
<1> QED  BY <1>2, <1>3, <1>4

\* What the guard's invariant gives.
LEMMA GuardSound ==
    ASSUME NEW x, NEW k, x = {"net"} \/ x = {"net", "browser"}, GuardInv(x)
    PROVE  Rx(x, k, FALSE)!GuardRestored /\ Rx(x, k, FALSE)!NoTcpReentry
<1>1. Rx(x, k, FALSE)!GuardRestored
    BY DEF GuardInv, Rx!GuardRestored, Tick
<1>2. Rx(x, k, FALSE)!NoTcpReentry
    BY DEF GuardInv, Rx!NoTcpReentry
<1> QED  BY Zenon, <1>1, <1>2

\* The scenes of the receive path, one step at a time.
LEMMA RxSceneStep ==
    ASSUME [Next]_allvars
    PROVE  /\ scene' = scene
           /\ scene = "drain" => Rx({"net", "wm"}, Plain, FALSE)!Next \/ UNCHANGED rxvars
           /\ scene = "window" => Rx({"net"}, Mixed, FALSE)!Next \/ UNCHANGED rxvars
           /\ scene = "shell" => Rx({"net", "wm"}, Plain, TRUE)!Next \/ UNCHANGED rxvars
           /\ scene = "fetch" => Rx({"net", "browser"}, Mixed, FALSE)!Next \/ UNCHANGED rxvars
<1>1. CASE UNCHANGED allvars
    BY <1>1 DEF allvars
<1>2. CASE Next
    BY Zenon, <1>2 DEF Next, Rest
<1> QED  BY Zenon, <1>1, <1>2

\* Nothing changes, nothing breaks.
LEMMA RxKept ==
    ASSUME UNCHANGED rxvars, NEW x, NEW k, NEW s
    PROVE  /\ RingInv(x, k, s) => RingInv(x, k, s)'
           /\ GuardInv(x) => GuardInv(x)'
<1>1. UNCHANGED <<ring, g_rxhead, hw, toCome, arrived, handled, g_rx_busy, g_rx_remote_only,
                  g_stash, rxcopy, pc, held, budget, caller, cpu, ready, inTcp>>
    BY DEF rxvars
<1>2. GuardInv(x) => GuardInv(x)'
    BY <1>1 DEF GuardInv
<1>3. ASSUME RingInv(x, k, s) PROVE RingInv(x, k, s)'
  <2>1. RxTypes(x, k)' /\ OnCpu(x)' /\ Polled(x)' /\ Fresh'
    BY Zenon, <1>1, <1>3 DEF RingInv, RxTypes, OnCpu, Polled, Fresh
  <2>2. PICK r \in Nat : Filled(r) /\ Gone(x, r) /\ (s => InStep(x, r))
    BY <1>3 DEF RingInv
  <2>3. Filled(r)' /\ Gone(x, r)' /\ (s => InStep(x, r)')
    BY <1>1, <2>2 DEF Filled, Gone, Among, InStep
  <2> QED  BY <2>1, <2>3 DEF RingInv
<1> QED  BY <1>2, <1>3

\* main.c, genet_rx_tick and net_rx_remote_*: for any ring, stash, budget and sequence of
\* frames, no frame is handed on twice and none out of order where only ticks drain the
\* ring, the software keeps its position, and the guard comes back.
THEOREM FramesAreOnce == Spec => []FramesOnce
<1>1. Init => FramesInv
  <2> SUFFICES ASSUME Init PROVE FramesInv
    OBVIOUS
  <2>1. /\ scene = "drain" => Rx({"net", "wm"}, Plain, FALSE)!Init
        /\ scene = "window" => Rx({"net"}, Mixed, FALSE)!Init
        /\ scene = "shell" => Rx({"net", "wm"}, Plain, TRUE)!Init
        /\ scene = "fetch" => Rx({"net", "browser"}, Mixed, FALSE)!Init
    BY Zenon DEF Init
  <2>2. ASSUME scene = "drain" PROVE RingInv({"net", "wm"}, Plain, TRUE) /\ inTcp = {}
    <3>1. RingInv({"net", "wm"}, Plain, TRUE)
        BY Zenon, <2>1, <2>2, RxScenes, RingInit
    <3>2. inTcp = {}
        BY <2>1, <2>2 DEF Rx!Init
    <3> QED  BY Zenon, <3>1, <3>2
  <2>3. ASSUME scene = "window" PROVE RingInv({"net"}, Mixed, FALSE) /\ GuardInv({"net"})
    <3>1. RingInv({"net"}, Mixed, FALSE)
        BY Zenon, <2>1, <2>3, RxScenes, RingInit
    <3>2. GuardInv({"net"})
        BY Zenon, <2>1, <2>3, GuardInit
    <3> QED  BY Zenon, <3>1, <3>2
  <2>4. ASSUME scene = "shell" PROVE RingInv({"net", "wm"}, Plain, FALSE) /\ inTcp = {}
    <3>1. RingInv({"net", "wm"}, Plain, FALSE)
        BY Zenon, <2>1, <2>4, RxScenes, RingInit
    <3>2. inTcp = {}
        BY <2>1, <2>4 DEF Rx!Init
    <3> QED  BY Zenon, <3>1, <3>2
  <2>5. ASSUME scene = "fetch" PROVE GuardInv({"net", "browser"})
    BY Zenon, <2>1, <2>5, GuardInit
  <2> QED  BY Zenon, <2>2, <2>3, <2>4, <2>5 DEF FramesInv
<1>2. FramesInv /\ [Next]_allvars => FramesInv'
  <2> SUFFICES ASSUME FramesInv, [Next]_allvars PROVE FramesInv'
    OBVIOUS
  <2>0. UNCHANGED rxvars => inTcp' = inTcp
    BY DEF rxvars
  <2>1. ASSUME scene = "drain" PROVE RingInv({"net", "wm"}, Plain, TRUE)' /\ inTcp' = {}
    BY Zenon, <2>0, <2>1, RxSceneStep, RxScenes, RingStep, TcpIdleStep, RxKept DEF FramesInv
  <2>2. ASSUME scene = "window" PROVE RingInv({"net"}, Mixed, FALSE)' /\ GuardInv({"net"})'
    BY Zenon, <2>2, RxSceneStep, RxScenes, RingStep, GuardStep, RxKept DEF FramesInv
  <2>3. ASSUME scene = "shell" PROVE RingInv({"net", "wm"}, Plain, FALSE)' /\ inTcp' = {}
    BY Zenon, <2>0, <2>3, RxSceneStep, RxScenes, RingStep, TcpIdleStep, RxKept DEF FramesInv
  <2>4. ASSUME scene = "fetch" PROVE GuardInv({"net", "browser"})'
    BY Zenon, <2>4, RxSceneStep, GuardStep, RxKept DEF FramesInv
  <2> QED  BY Zenon, <2>1, <2>2, <2>3, <2>4, RxSceneStep DEF FramesInv
<1>3. FramesInv => FramesOnce
  <2> SUFFICES ASSUME FramesInv PROVE FramesOnce
    OBVIOUS
  <2>1. ASSUME scene = "drain"
        PROVE  /\ Rx({"net", "wm"}, Plain, FALSE)!InOrderOnce /\ Rx({"net", "wm"}, Plain, FALSE)!RingInStep
               /\ Rx({"net", "wm"}, Plain, FALSE)!GuardRestored /\ Rx({"net", "wm"}, Plain, FALSE)!NoTcpReentry
    <3>1. /\ Rx({"net", "wm"}, Plain, FALSE)!InOrderOnce /\ Rx({"net", "wm"}, Plain, FALSE)!RingInStep
          /\ Rx({"net", "wm"}, Plain, FALSE)!GuardRestored
        BY Zenon, <2>1, RxScenes, RingSound DEF FramesInv
    <3>2. Rx({"net", "wm"}, Plain, FALSE)!NoTcpReentry
        BY <2>1 DEF FramesInv, Rx!NoTcpReentry
    <3> QED  BY Zenon, <3>1, <3>2
  <2>2. ASSUME scene = "window"
        PROVE  /\ Rx({"net"}, Mixed, FALSE)!RingInStep /\ Rx({"net"}, Mixed, FALSE)!GuardRestored
               /\ Rx({"net"}, Mixed, FALSE)!NoTcpReentry
    <3>1. Rx({"net"}, Mixed, FALSE)!RingInStep
        BY Zenon, <2>2, RxScenes, RingSound DEF FramesInv
    <3>2. Rx({"net"}, Mixed, FALSE)!GuardRestored /\ Rx({"net"}, Mixed, FALSE)!NoTcpReentry
        BY Zenon, <2>2, GuardSound DEF FramesInv
    <3> QED  BY Zenon, <3>1, <3>2
  <2>3. ASSUME scene = "shell"
        PROVE  /\ Rx({"net", "wm"}, Plain, TRUE)!RingInStep /\ Rx({"net", "wm"}, Plain, TRUE)!NoTcpReentry
    <3>1. Rx({"net", "wm"}, Plain, TRUE)!RingInStep
        BY Zenon, <2>3, RxScenes, RingSound DEF FramesInv
    <3>2. Rx({"net", "wm"}, Plain, TRUE)!NoTcpReentry
        BY <2>3 DEF FramesInv, Rx!NoTcpReentry
    <3> QED  BY Zenon, <3>1, <3>2
  <2>4. ASSUME scene = "fetch"
        PROVE  /\ Rx({"net", "browser"}, Mixed, FALSE)!GuardRestored
               /\ Rx({"net", "browser"}, Mixed, FALSE)!NoTcpReentry
    BY Zenon, <2>4, GuardSound DEF FramesInv
  <2> QED  BY Zenon, <2>1, <2>2, <2>3, <2>4 DEF FramesOnce
<1> QED  BY <1>1, <1>2, <1>3, PTL DEF Spec

-----------------------------------------------------------------------------
(* The TCP server (TcpServer): one connection.  Nothing wraps, so a number    *)
(* on the wire is the number.  p is the length of the response.              *)

TcpHyp(p) == p \in Nat \ {0} /\ ISN + p + 2 < Modulus

\* The first sequence number of the data each way.
Base == ISN + 1
CBase == ClientISN + 1

Conn(p) ==
    [state : {"LISTEN", "SYN_RCVD", "ESTABLISHED", "FIN_WAIT_1", "LAST_ACK"},
     peer : {"nobody", "a"}, my_seq : Nat, peer_seq : Nat, snd_len : {0, p}, snd_una : Nat,
     snd_nxt : Nat, snd_seq0 : Nat, snd_retries : Nat, snd_fin_pending : BOOLEAN,
     peer_fin : BOOLEAN, fin_acked : BOOLEAN]

Host == [st : {"new", "syn", "est", "fin", "gone"}, una : Nat, rcv : Nat, got : Seq(Nat),
         fin : BOOLEAN]

Flag == {"SYN", "ACK", "FIN", "RST", "PSH"}
ToServer == [who : {"a"}, seq : Nat, ack : Nat, flags : SUBSET Flag, data : {0, 1}, win : {0, 1}]
ToClient == [who : {"a"}, seq : Nat, ack : Nat, flags : SUBSET Flag, data : Nat]

\* Nothing more is sent: the slot has sent its FIN or is free again.
Closed(c) == c.state \in {"LISTEN", "LAST_ACK"}

\* Every data segment of T comes before n.
DataBelow(T, n) == \A d \in T : d.data > 0 => d.seq < n

\* A FIN comes once, after everything, and no response is then under way.
FinSeg(p, c, T, k, s) ==
    /\ s.data = 0 /\ c.state \notin {"SYN_RCVD", "ESTABLISHED"} /\ ~k.fin
    /\ s.seq = Base + p \/ (Closed(c) /\ c.snd_len = 0 /\ DataBelow(T, s.seq))
    /\ \A g \in T : "FIN" \in g.flags => g = s

\* What the server has sent: T; c is the slot, k the client.
FromServer(p, c, T, k, sv) ==
    \A s \in T :
        /\ s \in ToClient /\ CBase <= s.ack /\ s.ack <= c.peer_seq
        /\ "SYN" \in s.flags => s.data = 0 /\ s.seq = ISN /\ "FIN" \notin s.flags
        /\ s.data > 0 => s.data <= p /\ s.seq = ISN + s.data /\ "FIN" \notin s.flags /\ sv = 1
        /\ "FIN" \in s.flags => FinSeg(p, c, T, k, s) /\ sv = 1

\* What the client has received: the beginning of the response.
Received(p, c, T, k) ==
    /\ k.st \in {"new", "syn"} => k.got = << >> /\ k.rcv = 0 /\ ~k.fin /\ k.una = 0
    /\ k.st \notin {"new", "syn"} => k.rcv = Base + Len(k.got) + (IF k.fin THEN 1 ELSE 0)
    /\ k.st = "fin" => k.una = ReqLen
    /\ \A i \in 1 .. Len(k.got) : k.got[i] = i
    /\ Len(k.got) <= p
    /\ k.fin => /\ c.state \notin {"SYN_RCVD", "ESTABLISHED"}
                /\ Len(k.got) = p \/ (Closed(c) /\ c.snd_len = 0 /\ DataBelow(T, k.rcv))

\* The send window, and what the client's side has been acknowledged.
Window(p, c, k) ==
    /\ c.peer = "a" /\ c.peer_seq \in CBase .. CBase + ReqLen + 1
    /\ k.una <= c.peer_seq - CBase
    /\ c.snd_una <= Len(k.got)
    /\ c.snd_nxt <= c.snd_len /\ c.snd_nxt <= c.snd_una + INFLIGHT
    /\ c.snd_fin_pending => c.snd_len = p /\ c.state # "FIN_WAIT_1"

\* Before the request is complete.
Gathering(c, k, rq) ==
    /\ c.snd_len = 0 /\ ~c.snd_fin_pending /\ k.got = << >> /\ ~k.fin
    /\ c.state \in {"LISTEN", "SYN_RCVD", "ESTABLISHED"}
    /\ c.peer_seq < CBase + ReqLen
    /\ c.state = "SYN_RCVD" => c.my_seq = Base /\ rq = 0 /\ c.peer_seq = CBase
    /\ c.state = "ESTABLISHED" => c.my_seq = Base /\ c.peer_seq = CBase + rq

\* After it was executed.
Answering(p, c, T, rq) ==
    /\ c.snd_seq0 = Base /\ c.peer_seq >= CBase + ReqLen /\ c.state # "SYN_RCVD"
    /\ c.state = "ESTABLISHED" =>
         /\ rq = 0 /\ c.my_seq <= Base + p /\ DataBelow(T, c.my_seq)
         /\ c.snd_len = p => c.snd_fin_pending /\ c.my_seq = Base + c.snd_nxt

SlotOk(p, c, T, k, sv, rq) ==
    /\ c \in Conn(p) /\ k \in Host /\ rq \in Nat /\ sv \in {0, 1}
    /\ FromServer(p, c, T, k, sv) /\ Received(p, c, T, k) /\ Window(p, c, k)
    /\ sv = 0 => Gathering(c, k, rq)
    /\ sv = 1 => Answering(p, c, T, rq)

\* What the client has sent.
FromClient(k, S) ==
    \A s \in S :
        /\ s \in ToServer
        /\ "SYN" \in s.flags => s.flags = {"SYN"} /\ s.data = 0 /\ s.seq = ClientISN
        /\ "ACK" \in s.flags => s.ack <= k.rcv /\ k.st \notin {"new", "syn"}
        /\ "FIN" \in s.flags => s.data = 0 /\ s.seq = CBase + ReqLen /\ k.una = ReqLen
        /\ s.data = 1 => s.flags = {"ACK"} /\ s.seq \in CBase .. CBase + ReqLen - 1

\* Nobody has connected yet.
NoConn ==
    /\ g_conn.state = "LISTEN" /\ g_conn.snd_len = 0 /\ g_conn.snd_una = 0 /\ ~g_conn.snd_fin_pending
    /\ served["a"] = 0 /\ toClient = {} /\ client["a"].st \in {"new", "syn"}
    /\ client["a"].got = << >> /\ client["a"].rcv = 0 /\ ~client["a"].fin /\ client["a"].una = 0

TcpInv(p) ==
    /\ g_conn \in Conn(p) /\ g_reqlen \in Nat /\ g_isn_seed \in {ISN, ISN + ISNStep}
    /\ served \in [{"a"} -> {0, 1}] /\ client \in [{"a"} -> Host]
    /\ FromClient(client["a"], toServer)
    /\ g_isn_seed = ISN => NoConn
    /\ g_isn_seed # ISN => SlotOk(p, g_conn, toClient, client["a"], served["a"], g_reqlen)

-----------------------------------------------------------------------------
LEMMA TcpNumbers ==
    /\ ISN \in Nat /\ ISNStep \in Nat \ {0} /\ ClientISN \in Nat /\ Modulus \in Nat \ {0}
    /\ ReqLen \in Nat \ {0} /\ INFLIGHT \in Nat \ {0} /\ RETRIES \in Nat
    /\ ClientISN + ReqLen + 2 < Modulus
BY NetAssumption

\* A number below Modulus is itself on the wire.
LEMMA NoWrap ==
    ASSUME NEW n \in Nat, n < Modulus
    PROVE  n % Modulus = n
<1>1. n = (Modulus * 0) + n /\ n \in 0 .. Modulus - 1 /\ Modulus \in Nat \ {0} /\ n \in Int
    BY TcpNumbers
<1> QED  BY <1>1, RemainderIs

\* What tcp_pump leaves: it sends up to `to`, and the FIN only after the last segment.
Moved(c, to) ==
    [c EXCEPT !.snd_nxt = to, !.my_seq = IF c.snd_len > 0 THEN Base + to ELSE @]
Finned(c) ==
    [c EXCEPT !.snd_nxt = c.snd_len, !.my_seq = Base + c.snd_len + 1, !.snd_fin_pending = FALSE,
              !.state = IF c.peer_fin THEN "LAST_ACK" ELSE "FIN_WAIT_1"]
IsData(c, to, s) ==
    /\ s \in ToClient /\ s.ack = c.peer_seq /\ s.flags = {"PSH", "ACK"}
    /\ s.data \in 1 .. to /\ s.seq = ISN + s.data
IsFin(c, s) ==
    s = [who |-> "a", seq |-> Base + c.snd_len, ack |-> c.peer_seq, flags |-> {"FIN", "ACK"}, data |-> 0]
Pumped(c, r, n, to) ==
    \/ c.state \notin {"ESTABLISHED", "FIN_WAIT_1"} /\ r.conn = c /\ r.out = {} /\ to = c.snd_nxt
    \/ /\ c.state \in {"ESTABLISHED", "FIN_WAIT_1"} /\ r.conn = Moved(c, to)
       /\ \A s \in r.out : IsData(c, to, s)
    \/ /\ c.state \in {"ESTABLISHED", "FIN_WAIT_1"} /\ c.snd_fin_pending /\ to = c.snd_len
       /\ r.conn = Finned(c) /\ \A s \in r.out : IsData(c, to, s) \/ IsFin(c, s)

\* The slots tcp_pump is called for.
Sendable(p, c) ==
    /\ c \in Conn(p) /\ c.peer = "a" /\ c.peer_seq \in CBase .. CBase + ReqLen + 1
    /\ c.snd_nxt <= c.snd_len /\ (c.snd_len > 0 => c.snd_seq0 = Base)
    /\ c.snd_fin_pending => c.snd_len = p

LEMMA PumpIs ==
    ASSUME NEW p, NEW f, TcpHyp(p), NEW c, NEW win \in Nat, NEW n \in Nat, Sendable(p, c),
           c.snd_nxt <= n
    PROVE  \E to \in Nat :
             /\ c.snd_nxt <= to /\ to <= c.snd_len /\ to <= n
             /\ to <= c.snd_nxt \/ to <= c.snd_una + INFLIGHT
             /\ win = 0 /\ n > c.snd_len /\ c.state \in {"ESTABLISHED", "FIN_WAIT_1"}
                  => to = c.snd_len \/ to >= c.snd_una + INFLIGHT
             /\ Pumped(c, Tcp(p, f)!tcp_pump(c, win, n), n, to)
<1> DEFINE lim == Tcp(p, f)!Limit(win)
           pt == Tcp(p, f)!PumpTo(c, win)
           to == IF n < pt THEN n ELSE pt
           r == Tcp(p, f)!tcp_pump(c, win, n)
<1>0. /\ ISN \in Nat /\ ClientISN \in Nat /\ Modulus \in Nat /\ ReqLen \in Nat
      /\ INFLIGHT \in Nat \ {0} /\ ClientISN + ReqLen + 2 < Modulus
      /\ p \in Nat \ {0} /\ ISN + p + 2 < Modulus
    BY TcpNumbers DEF TcpHyp
<1>1. /\ c.snd_nxt \in Nat /\ c.snd_len \in {0, p} /\ c.snd_una \in Nat /\ c.peer_seq \in Nat
      /\ c.snd_seq0 \in Nat /\ c.my_seq \in Nat
    BY DEF Sendable, Conn
<1>2. lim \in Nat \ {0} /\ lim <= INFLIGHT /\ (win = 0 => lim = INFLIGHT)
    BY <1>0 DEF Tcp!Limit
<1> HIDE DEF lim
<1>3. /\ pt \in Nat /\ c.snd_nxt <= pt /\ pt <= c.snd_len
      /\ pt = c.snd_nxt \/ pt <= c.snd_una + INFLIGHT
      /\ win = 0 => pt = c.snd_len \/ pt >= c.snd_una + INFLIGHT
    BY <1>0, <1>1, <1>2 DEF Tcp!PumpTo, lim, Sendable
<1> HIDE DEF pt
<1>4. /\ to \in Nat /\ c.snd_nxt <= to /\ to <= c.snd_len /\ to <= n
      /\ to <= c.snd_nxt \/ to <= c.snd_una + INFLIGHT
      /\ win = 0 /\ n > c.snd_len => to = c.snd_len \/ to >= c.snd_una + INFLIGHT
    BY <1>0, <1>1, <1>3
<1>5. CASE c.state \notin {"ESTABLISHED", "FIN_WAIT_1"}
  <2>1. r.conn = c /\ r.out = {}
    BY <1>5 DEF Tcp!tcp_pump
  <2>2. Pumped(c, r, n, c.snd_nxt)
    BY <1>5, <2>1 DEF Pumped
  <2> QED  BY <1>1, <1>5, <2>2 DEF Sendable
<1>6. CASE c.state \in {"ESTABLISHED", "FIN_WAIT_1"}
  <2> DEFINE data == UNION {Tcp(p, f)!tcp_send([c EXCEPT !.my_seq = c.snd_seq0 + i], {"PSH", "ACK"}, i + 1) :
                              i \in c.snd_nxt .. to - 1}
  <2>1. ASSUME NEW s \in data PROVE IsData(c, to, s)
    <3>1. PICK i \in c.snd_nxt .. to - 1 :
            s \in Tcp(p, f)!tcp_send([c EXCEPT !.my_seq = c.snd_seq0 + i], {"PSH", "ACK"}, i + 1)
        BY <2>1
    <3>2. /\ i \in Nat /\ i + 1 \in 1 .. to /\ c.snd_len = p /\ c.snd_seq0 + i = ISN + (i + 1)
          /\ ISN + (i + 1) \in Nat /\ ISN + (i + 1) < Modulus
        BY <1>0, <1>1, <1>4, <3>1 DEF Sendable, Base
    <3>3. c.peer_seq \in Nat /\ c.peer_seq < Modulus /\ c.peer = "a"
        BY <1>0 DEF Sendable, CBase
    <3>4. (ISN + (i + 1)) % Modulus = ISN + (i + 1) /\ c.peer_seq % Modulus = c.peer_seq
        BY <3>2, <3>3, NoWrap
    <3>5. [c EXCEPT !.my_seq = c.snd_seq0 + i].my_seq = ISN + (i + 1)
        BY <3>2 DEF Sendable, Conn
    <3>6. [c EXCEPT !.my_seq = c.snd_seq0 + i].peer_seq = c.peer_seq /\ [c EXCEPT !.my_seq = c.snd_seq0 + i].peer = "a"
        BY <3>3 DEF Sendable, Conn
    <3>7. s = [who |-> "a", seq |-> ISN + (i + 1), ack |-> c.peer_seq, flags |-> {"PSH", "ACK"}, data |-> i + 1]
        BY <3>1, <3>4, <3>5, <3>6 DEF Tcp!tcp_send, Tcp!Seg, Tcp!Wire
    <3> QED  BY <3>2, <3>3, <3>7 DEF IsData, ToClient, Flag
  <2>2. CASE c.snd_fin_pending /\ to >= c.snd_len /\ n > to
    <3> DEFINE c1 == [c EXCEPT !.snd_nxt = to, !.my_seq = IF c.snd_len > 0 THEN c.snd_seq0 + to ELSE @]
               c2 == [c1 EXCEPT !.my_seq = c.snd_seq0 + c.snd_len]
    <3>1. r.conn = [c2 EXCEPT !.my_seq = @ + 1, !.snd_fin_pending = FALSE,
                              !.state = IF c.peer_fin THEN "LAST_ACK" ELSE "FIN_WAIT_1"]
        BY <1>6, <2>2 DEF Tcp!tcp_pump, pt
    <3>2. r.out = data \cup Tcp(p, f)!tcp_send(c2, {"FIN", "ACK"}, 0)
        BY <1>6, <2>2 DEF Tcp!tcp_pump, pt
    <3>3. to = c.snd_len /\ c.snd_len = p /\ c.snd_seq0 = Base
        BY <1>0, <1>1, <1>4, <2>2 DEF Sendable
    <3>4. r.conn = Finned(c)
        BY Zenon, <3>1, <3>3 DEF Finned, Sendable, Conn
    <3>5. c2.my_seq = Base + c.snd_len /\ c2.peer_seq = c.peer_seq /\ c2.peer = "a"
        BY <3>3 DEF Sendable, Conn
    <3>6. (Base + c.snd_len) % Modulus = Base + c.snd_len /\ c.peer_seq % Modulus = c.peer_seq
      <4>1. Base + c.snd_len \in Nat /\ Base + c.snd_len < Modulus
        BY <1>0, <3>3 DEF Base
      <4>2. c.peer_seq \in Nat /\ c.peer_seq < Modulus
        BY <1>0 DEF Sendable, CBase
      <4> QED  BY <4>1, <4>2, NoWrap
    <3>7. ASSUME NEW s \in Tcp(p, f)!tcp_send(c2, {"FIN", "ACK"}, 0) PROVE IsFin(c, s)
        BY <3>5, <3>6 DEF Tcp!tcp_send, Tcp!Seg, Tcp!Wire, IsFin
    <3>8. Pumped(c, r, n, to)
        BY <1>6, <2>1, <2>2, <3>2, <3>3, <3>4, <3>7 DEF Pumped
    <3> QED  BY <1>4, <3>8
  <2>3. CASE ~(c.snd_fin_pending /\ to >= c.snd_len /\ n > to)
    <3>1. r.conn = [c EXCEPT !.snd_nxt = to, !.my_seq = IF c.snd_len > 0 THEN c.snd_seq0 + to ELSE @]
        BY <1>6, <2>3 DEF Tcp!tcp_pump, pt
    <3>2. r.out = data
        BY <1>6, <2>3 DEF Tcp!tcp_pump, pt
    <3>3. r.conn = Moved(c, to)
        BY Zenon, <3>1 DEF Moved, Sendable
    <3>4. Pumped(c, r, n, to)
        BY <1>6, <2>1, <3>2, <3>3 DEF Pumped
    <3> QED  BY <1>4, <3>4
  <2> QED  BY <2>2, <2>3
<1> QED  BY <1>5, <1>6

\* What the network does not take leaves the rest as it was.
LEMMA Fewer ==
    ASSUME NEW p, NEW c, NEW T, NEW k, NEW sv, NEW rq, SlotOk(p, c, T, k, sv, rq),
           NEW T2 \in SUBSET T
    PROVE  SlotOk(p, c, T2, k, sv, rq)
<1>1. FromServer(p, c, T2, k, sv)
    BY DEF SlotOk, FromServer, FinSeg, DataBelow
<1>2. Received(p, c, T2, k)
    BY DEF SlotOk, Received, DataBelow
<1>3. sv = 1 => Answering(p, c, T2, rq)
    BY DEF SlotOk, Answering, DataBelow
<1> QED  BY <1>1, <1>2, <1>3 DEF SlotOk

\* An acknowledgement of the slot's numbers adds nothing.
IsAck(c, s) == s \in ToClient /\ s.ack = c.peer_seq /\ s.flags = {"ACK"} /\ s.data = 0

LEMMA WithAck ==
    ASSUME NEW p, NEW c, NEW T, NEW k, NEW sv, NEW rq, SlotOk(p, c, T, k, sv, rq),
           NEW A, \A s \in A : IsAck(c, s)
    PROVE  SlotOk(p, c, T \cup A, k, sv, rq)
<1>0. CBase <= c.peer_seq /\ c.peer_seq \in Nat
    BY TcpNumbers DEF SlotOk, Window, Conn, CBase
<1>1. \A n : DataBelow(T, n) => DataBelow(T \cup A, n)
    BY DEF DataBelow, IsAck
<1>2. FromServer(p, c, T \cup A, k, sv)
  <2>1. ASSUME NEW s \in T, "FIN" \in s.flags, FinSeg(p, c, T, k, s) PROVE FinSeg(p, c, T \cup A, k, s)
    BY <1>1, <2>1 DEF FinSeg, IsAck
  <2>2. ASSUME NEW s \in A
        PROVE  /\ s \in ToClient /\ CBase <= s.ack /\ s.ack <= c.peer_seq
               /\ "SYN" \notin s.flags /\ "FIN" \notin s.flags /\ s.data = 0
    BY <1>0, <2>2 DEF IsAck
  <2> QED  BY <2>1, <2>2 DEF SlotOk, FromServer
<1>3. Received(p, c, T \cup A, k)
    BY Zenon, <1>1 DEF SlotOk, Received
<1>4. sv = 1 => Answering(p, c, T \cup A, rq)
    BY <1>1 DEF SlotOk, Answering
<1> QED  BY <1>2, <1>3, <1>4 DEF SlotOk

\* The slot after its FIN is a slot.
LEMMA FinnedConn ==
    ASSUME NEW p \in Nat, NEW c \in Conn(p), NEW d, d = Finned(c), c.snd_len = p, Base \in Nat
    PROVE  /\ d \in Conn(p) /\ d.state \in {"LAST_ACK", "FIN_WAIT_1"} /\ d.peer = c.peer
           /\ d.peer_seq = c.peer_seq /\ d.snd_len = p /\ d.snd_una = c.snd_una
           /\ d.snd_seq0 = c.snd_seq0 /\ ~d.snd_fin_pending /\ d.snd_nxt = p
<1> DEFINE st == IF c.peer_fin THEN "LAST_ACK" ELSE "FIN_WAIT_1"
           a == [c EXCEPT !.snd_nxt = p, !.my_seq = Base + p + 1]
<1>0. st \in {"LAST_ACK", "FIN_WAIT_1"}
    OBVIOUS
<1>1. Base + p + 1 \in Nat
    OBVIOUS
<1>2. /\ a \in Conn(p) /\ a.peer = c.peer /\ a.peer_seq = c.peer_seq /\ a.snd_len = p
      /\ a.snd_una = c.snd_una /\ a.snd_seq0 = c.snd_seq0 /\ a.snd_nxt = p
    BY Zenon, <1>1 DEF Conn
<1>3. d = [a EXCEPT !.snd_fin_pending = FALSE, !.state = st]
    BY DEF Finned
<1> HIDE DEF a, st
<1> QED  BY Zenon, <1>0, <1>2, <1>3 DEF Conn

\* c is c0, perhaps gone back to an earlier segment.
Back(p, c, c0) ==
    /\ c \in Conn(p) /\ c.state = c0.state /\ c.peer = c0.peer /\ c.my_seq = c0.my_seq
    /\ c.peer_seq = c0.peer_seq /\ c.snd_len = c0.snd_len /\ c.snd_una = c0.snd_una
    /\ c.snd_seq0 = c0.snd_seq0 /\ c.snd_fin_pending = c0.snd_fin_pending
    /\ c.peer_fin = c0.peer_fin

\* Pumping keeps the slot's invariant, also after going back.
LEMMA PumpOk ==
    ASSUME NEW p, TcpHyp(p), NEW c0, NEW T, NEW k, NEW sv, NEW rq, SlotOk(p, c0, T, k, sv, rq),
           NEW n, NEW r, NEW to \in Nat, NEW c, Back(p, c, c0),
           c0.state \in {"ESTABLISHED", "FIN_WAIT_1"},
           c0.snd_nxt <= to, to <= c0.snd_len, to <= c0.snd_nxt \/ to <= c0.snd_una + INFLIGHT,
           Pumped(c, r, n, to)
    PROVE  SlotOk(p, r.conn, T \cup r.out, k, sv, rq)
<1> DEFINE d == r.conn
           U == T \cup r.out
<1>0. /\ ISN \in Nat /\ ClientISN \in Nat /\ ReqLen \in Nat \ {0} /\ INFLIGHT \in Nat \ {0}
      /\ p \in Nat \ {0}
    BY TcpNumbers DEF TcpHyp
<1>1. /\ c \in Conn(p) /\ c0 \in Conn(p) /\ c.state = c0.state /\ c.peer = c0.peer /\ c.my_seq = c0.my_seq
      /\ c.peer_seq = c0.peer_seq /\ c.snd_len = c0.snd_len /\ c.snd_una = c0.snd_una
      /\ c.snd_seq0 = c0.snd_seq0 /\ c.snd_fin_pending = c0.snd_fin_pending
      /\ c.peer_fin = c0.peer_fin
    BY DEF SlotOk, Back
<1>2. CBase <= c.peer_seq /\ c.peer_seq \in Nat
    BY <1>0, <1>1 DEF SlotOk, Window, Conn, CBase
<1>3. k \in Host /\ rq \in Nat /\ sv \in {0, 1} /\ Len(k.got) \in Nat
    BY DEF SlotOk, Host
<1>4. CASE d = Moved(c, to) /\ \A s \in r.out : IsData(c, to, s)
  <2>1. /\ d \in Conn(p) /\ d.state = c0.state /\ d.peer = c0.peer /\ d.peer_seq = c0.peer_seq
        /\ d.snd_len = c0.snd_len /\ d.snd_una = c0.snd_una /\ d.snd_seq0 = c0.snd_seq0
        /\ d.snd_fin_pending = c0.snd_fin_pending /\ d.snd_nxt = to
        /\ d.my_seq = IF c0.snd_len > 0 THEN Base + to ELSE c0.my_seq
    <3>1. Base + to \in Nat /\ (IF c.snd_len > 0 THEN Base + to ELSE c.my_seq) \in Nat
        BY <1>0, <1>1 DEF Conn, Base
    <3>2. d = [c EXCEPT !.snd_nxt = to, !.my_seq = IF c.snd_len > 0 THEN Base + to ELSE c.my_seq]
        BY <1>1, <1>4 DEF Moved, Conn
    <3>3. d \in Conn(p)
        BY Zenon, <1>1, <3>1, <3>2 DEF Conn
    <3> QED  BY <1>1, <3>2, <3>3 DEF Conn
  <2>2. sv = 0 => r.out = {} /\ to = 0
    <3> SUFFICES ASSUME sv = 0 PROVE r.out = {} /\ to = 0
        OBVIOUS
    <3>1. c0.snd_len = 0
        BY DEF SlotOk, Gathering
    <3>2. to = 0
        BY <3>1
    <3> QED  BY <1>4, <3>2 DEF IsData
  <2>3. \A s \in r.out : /\ s \in ToClient /\ CBase <= s.ack /\ s.ack <= d.peer_seq
                          /\ "SYN" \notin s.flags /\ "FIN" \notin s.flags
                          /\ s.data \in 1 .. to /\ s.seq = ISN + s.data /\ sv = 1
    <3>1. c.peer_seq <= d.peer_seq
        BY <1>1, <1>2, <2>1
    <3>2. ASSUME NEW s \in r.out PROVE sv = 1
        BY <1>3, <2>2, <3>2
    <3> QED  BY <1>2, <1>4, <3>1, <3>2 DEF IsData
  <2>4. c0.snd_len \in {0, p} /\ c0.snd_nxt \in Nat /\ to <= p
    BY <1>0, <1>1 DEF Conn
  <2>5. ~Closed(c0)
    BY DEF Closed
  <2>6. FromServer(p, d, U, k, sv)
    <3>1. ASSUME NEW s \in T, "FIN" \in s.flags PROVE FinSeg(p, d, U, k, s)
        BY <2>1, <2>3, <2>5, <3>1 DEF SlotOk, FromServer, FinSeg
    <3>2. ASSUME NEW s \in T
          PROVE  /\ s \in ToClient /\ CBase <= s.ack /\ s.ack <= d.peer_seq
                 /\ "SYN" \in s.flags => s.data = 0 /\ s.seq = ISN /\ "FIN" \notin s.flags
                 /\ s.data > 0 => s.data <= p /\ s.seq = ISN + s.data /\ "FIN" \notin s.flags /\ sv = 1
                 /\ "FIN" \in s.flags => sv = 1
        BY <2>1 DEF SlotOk, FromServer
    <3>3. ASSUME NEW s \in r.out PROVE s.data <= p
        BY <1>0, <2>3, <2>4
    <3> QED  BY Zenon, <2>3, <3>1, <3>2, <3>3 DEF FromServer
  <2>7. Received(p, d, U, k)
    BY <2>1, <2>5 DEF SlotOk, Received
  <2>8. Window(p, d, k)
    <3>1. c0.snd_una \in Nat
        BY <1>1 DEF Conn
    <3>2. Window(p, c0, k)
        BY DEF SlotOk
    <3>3. to <= c0.snd_una + INFLIGHT
        BY <1>0, <2>4, <3>1, <3>2 DEF Window
    <3> QED  BY <2>1, <3>2, <3>3 DEF Window
  <2>9. sv = 0 => Gathering(d, k, rq)
    <3> SUFFICES ASSUME sv = 0 PROVE Gathering(d, k, rq)
        OBVIOUS
    <3>1. Gathering(c0, k, rq)
        BY DEF SlotOk
    <3>2. d.my_seq = c0.my_seq
        BY <2>1, <3>1 DEF Gathering
    <3> QED  BY <2>1, <3>1, <3>2 DEF Gathering
  <2>10. sv = 1 => Answering(p, d, U, rq)
    <3> SUFFICES ASSUME sv = 1 PROVE Answering(p, d, U, rq)
        OBVIOUS
    <3>1. Answering(p, c0, T, rq)
        BY DEF SlotOk
    <3>2. ASSUME c0.state = "ESTABLISHED"
          PROVE  /\ rq = 0 /\ d.my_seq <= Base + p /\ DataBelow(U, d.my_seq)
                 /\ d.snd_len = p => d.snd_fin_pending /\ d.my_seq = Base + d.snd_nxt
      <4>1. CASE c0.snd_len = p
        <5>1. d.my_seq = Base + to /\ c0.my_seq = Base + c0.snd_nxt /\ Base \in Nat
            BY <1>0, <2>1, <3>1, <3>2, <4>1 DEF Answering, Base
        <5>2. ASSUME NEW s \in T, s.data > 0 PROVE s.seq < d.my_seq
          <6>1. s.seq < c0.my_seq /\ s.seq \in Nat
            BY <3>1, <3>2, <5>2 DEF Answering, DataBelow, SlotOk, FromServer, ToClient
          <6> QED  BY <6>1, <5>1, <2>4
        <5>3. ASSUME NEW s \in r.out PROVE s.seq < d.my_seq
            BY <1>0, <2>3, <5>1, <5>3 DEF Base
        <5> QED  BY <1>0, <2>1, <2>4, <3>1, <3>2, <4>1, <5>1, <5>2, <5>3 DEF DataBelow, Answering
      <4>2. CASE c0.snd_len = 0
        <5>1. to = 0 /\ d.my_seq = c0.my_seq
            BY <2>1, <4>2
        <5>2. r.out = {}
            BY <2>3, <5>1
        <5> QED  BY <1>0, <2>1, <3>1, <3>2, <4>2, <5>1, <5>2 DEF DataBelow, Answering
      <4> QED  BY <2>4, <4>1, <4>2
    <3> QED  BY <2>1, <3>1, <3>2 DEF Answering
  <2> QED  BY <1>3, <2>1, <2>6, <2>7, <2>8, <2>9, <2>10 DEF SlotOk
<1>5. CASE /\ c.snd_fin_pending /\ to = c.snd_len /\ d = Finned(c)
           /\ \A s \in r.out : IsData(c, to, s) \/ IsFin(c, s)
  <2>0. sv = 1 /\ c0.snd_len = p /\ c0.state = "ESTABLISHED" /\ to = p
    <3>1. c0.snd_fin_pending
        BY <1>1, <1>5
    <3>2. sv # 0
        BY <3>1 DEF SlotOk, Gathering
    <3>3. c0.snd_len = p /\ c0.state # "FIN_WAIT_1"
        BY <3>1 DEF SlotOk, Window
    <3> QED  BY <1>1, <1>3, <1>5, <3>2, <3>3
  <2>1. /\ d \in Conn(p) /\ d.state \in {"LAST_ACK", "FIN_WAIT_1"} /\ d.peer = c0.peer /\ d.peer_seq = c0.peer_seq
        /\ d.snd_len = p /\ d.snd_una = c0.snd_una /\ d.snd_seq0 = c0.snd_seq0
        /\ ~d.snd_fin_pending /\ d.snd_nxt = p
    <3>1. Base \in Nat /\ p \in Nat /\ c.snd_len = p
        BY <1>0, <1>1, <2>0 DEF Base
    <3> QED  BY <1>1, <1>5, <3>1, FinnedConn
  <2>2. /\ \A s \in T : "FIN" \notin s.flags
        /\ ~k.fin
    BY <2>0 DEF SlotOk, FromServer, FinSeg, Received
  <2>3. \A s \in r.out : /\ s \in ToClient /\ CBase <= s.ack /\ s.ack <= d.peer_seq /\ "SYN" \notin s.flags
                          /\ \/ s.data \in 1 .. p /\ s.seq = ISN + s.data /\ "FIN" \notin s.flags
                             \/ /\ s = [who |-> "a", seq |-> Base + p, ack |-> c.peer_seq, flags |-> {"FIN", "ACK"}, data |-> 0]
                                /\ s.data = 0 /\ s.seq = Base + p
    <3>1. ASSUME NEW s \in r.out, IsData(c, to, s)
          PROVE  /\ s \in ToClient /\ CBase <= s.ack /\ s.ack <= d.peer_seq /\ "SYN" \notin s.flags
                 /\ s.data \in 1 .. p /\ s.seq = ISN + s.data /\ "FIN" \notin s.flags
        BY <1>1, <1>2, <2>0, <2>1, <3>1 DEF IsData
    <3>2. ASSUME NEW s \in r.out, IsFin(c, s)
          PROVE  /\ s \in ToClient /\ CBase <= s.ack /\ s.ack <= d.peer_seq /\ "SYN" \notin s.flags
                 /\ s = [who |-> "a", seq |-> Base + p, ack |-> c.peer_seq, flags |-> {"FIN", "ACK"}, data |-> 0]
                 /\ s.data = 0 /\ s.seq = Base + p
      <4>1. Base + p \in Nat /\ c.peer_seq <= d.peer_seq /\ c.snd_len = p
        BY <1>0, <1>1, <1>2, <2>0, <2>1 DEF Base
      <4>2. s = [who |-> "a", seq |-> Base + p, ack |-> c.peer_seq, flags |-> {"FIN", "ACK"}, data |-> 0]
        BY <3>2, <4>1 DEF IsFin
      <4> HIDE DEF d
      <4> QED  BY <1>2, <4>1, <4>2 DEF ToClient, Flag
    <3> QED  BY <1>5, <3>1, <3>2
  <2>4. FromServer(p, d, U, k, sv)
    <3>1. ASSUME NEW s \in U, "FIN" \in s.flags PROVE FinSeg(p, d, U, k, s)
      <4>1. \A g \in U : "FIN" \in g.flags =>
              g = [who |-> "a", seq |-> Base + p, ack |-> c.peer_seq, flags |-> {"FIN", "ACK"}, data |-> 0]
        BY <2>2, <2>3
      <4>2. s.data = 0 /\ s.seq = Base + p
        BY <2>2, <2>3, <3>1
      <4> QED  BY Zenon, <2>1, <2>2, <3>1, <4>1, <4>2 DEF FinSeg
    <3>2. ASSUME NEW s \in T
          PROVE  /\ s \in ToClient /\ CBase <= s.ack /\ s.ack <= d.peer_seq
                 /\ "SYN" \in s.flags => s.data = 0 /\ s.seq = ISN /\ "FIN" \notin s.flags
                 /\ s.data > 0 => s.data <= p /\ s.seq = ISN + s.data /\ "FIN" \notin s.flags /\ sv = 1
        BY <2>1 DEF SlotOk, FromServer
    <3>3. ASSUME NEW s \in r.out
          PROVE  /\ s \in ToClient /\ CBase <= s.ack /\ s.ack <= d.peer_seq /\ "SYN" \notin s.flags
                 /\ s.data > 0 => s.data <= p /\ s.seq = ISN + s.data /\ "FIN" \notin s.flags
        BY <1>0, <2>3, <3>3
    <3> HIDE DEF d
    <3> QED  BY Zenon, <2>0, <3>1, <3>2, <3>3 DEF FromServer
  <2>5. Received(p, d, U, k)
    BY <2>2 DEF SlotOk, Received
  <2>6. Window(p, d, k)
    <3>1. c0.snd_una \in Nat /\ c0.snd_nxt \in Nat
        BY <1>1 DEF Conn
    <3>2. Window(p, c0, k)
        BY DEF SlotOk
    <3>3. to <= c0.snd_una + INFLIGHT
        BY <1>0, <3>1, <3>2 DEF Window
    <3> QED  BY <1>0, <2>0, <2>1, <3>2, <3>3 DEF Window
  <2>7. Answering(p, d, U, rq)
    BY <2>0, <2>1 DEF SlotOk, Answering
  <2> QED  BY <1>3, <2>0, <2>1, <2>4, <2>5, <2>6, <2>7 DEF SlotOk
<1> QED  BY <1>1, <1>4, <1>5 DEF Pumped

\* tcp_pump leaves the peer's numbers alone.
LEMMA PumpPeer ==
    ASSUME NEW p, NEW f, NEW c \in Conn(p), NEW win, NEW n
    PROVE  Tcp(p, f)!tcp_pump(c, win, n).conn.peer_seq = c.peer_seq
BY DEF Tcp!tcp_pump, Conn

\* tcp_pump on a slot in order leaves it in order.
LEMMA PumpSlot ==
    ASSUME NEW p, NEW f, TcpHyp(p), NEW c, NEW T, NEW k, NEW sv, NEW rq,
           SlotOk(p, c, T, k, sv, rq), NEW win \in Nat, NEW n \in Nat, c.snd_nxt <= n
    PROVE  /\ SlotOk(p, Tcp(p, f)!tcp_pump(c, win, n).conn,
                      T \cup Tcp(p, f)!tcp_pump(c, win, n).out, k, sv, rq)
           /\ Tcp(p, f)!tcp_pump(c, win, n).conn.snd_nxt <= n
<1> DEFINE r == Tcp(p, f)!tcp_pump(c, win, n)
<1> HIDE DEF r
<1>0. c \in Conn(p) /\ sv \in {0, 1} /\ p \in Nat \ {0}
    BY DEF SlotOk, TcpHyp
<1>1. Sendable(p, c)
  <2>1. c.snd_len > 0 => sv = 1
    BY <1>0 DEF SlotOk, Gathering
  <2> QED  BY <1>0, <2>1 DEF Sendable, SlotOk, Window, Answering
<1>2. PICK to \in Nat : /\ c.snd_nxt <= to /\ to <= c.snd_len /\ to <= n
                        /\ to <= c.snd_nxt \/ to <= c.snd_una + INFLIGHT
                        /\ Pumped(c, r, n, to)
    BY <1>1, PumpIs DEF r
<1>3. CASE c.state \notin {"ESTABLISHED", "FIN_WAIT_1"}
  <2>1. r.conn = c /\ r.out = {}
    BY <1>2, <1>3 DEF Pumped
  <2>2. T \cup r.out = T
    BY <2>1
  <2> QED  BY <2>1, <2>2 DEF r
<1>4. CASE c.state \in {"ESTABLISHED", "FIN_WAIT_1"}
  <2>1. Back(p, c, c)
    BY <1>0 DEF Back
  <2>2. SlotOk(p, r.conn, T \cup r.out, k, sv, rq)
    BY Zenon, <1>2, <1>4, <2>1, PumpOk
  <2>3. r.conn.snd_nxt = to
    <3>1. Moved(c, to).snd_nxt = to
        BY <1>0 DEF Moved, Conn
    <3>2. Finned(c).snd_nxt = c.snd_len
        BY <1>0 DEF Finned, Conn
    <3> QED  BY <1>2, <1>4, <3>1, <3>2 DEF Pumped
  <2> QED  BY <1>2, <2>2, <2>3 DEF r
<1> QED  BY <1>3, <1>4

\* An acknowledgement of what the client has moves the window (tcp_on_ack).
LEMMA AckOk ==
    ASSUME NEW p, NEW f, TcpHyp(p), NEW c, NEW T, NEW k, NEW sv, NEW rq,
           SlotOk(p, c, T, k, sv, rq), NEW win \in Nat, NEW n \in Nat, c.snd_nxt <= n,
           NEW ack \in Nat, ack <= k.rcv, k.st \notin {"new", "syn"}, c.snd_len > 0
    PROVE  /\ SlotOk(p, Tcp(p, f)!tcp_on_ack(c, ack, win, n).conn,
                      T \cup Tcp(p, f)!tcp_on_ack(c, ack, win, n).out, k, sv, rq)
           /\ Tcp(p, f)!tcp_on_ack(c, ack, win, n).conn.snd_nxt <= n
<1> DEFINE acked == ack - c.snd_seq0
           slid == acked >= 0 /\ acked <= c.snd_len /\ acked > c.snd_una
           d == [c EXCEPT !.snd_una = IF slid THEN acked ELSE @, !.snd_retries = IF slid THEN 0 ELSE @]
<1>0. /\ c \in Conn(p) /\ sv \in {0, 1} /\ p \in Nat \ {0} /\ ISN \in Nat /\ INFLIGHT \in Nat \ {0}
      /\ Len(k.got) \in Nat /\ k.rcv \in Nat /\ k.fin \in BOOLEAN
    BY TcpNumbers DEF SlotOk, TcpHyp, Host
<1>1. sv = 1 /\ c.snd_seq0 = Base /\ c.snd_len = p /\ c.snd_una \in Nat /\ c.snd_retries \in Nat
    BY <1>0 DEF SlotOk, Gathering, Answering, Conn
<1>2. slid => acked \in Nat /\ acked <= Len(k.got)
  <2>1. k.rcv = Base + Len(k.got) + (IF k.fin THEN 1 ELSE 0)
    BY DEF SlotOk, Received
  <2>2. k.fin => Len(k.got) = p
    BY <1>0, <1>1 DEF SlotOk, Received
  <2>3. Base \in Nat
    BY <1>0 DEF Base
  <2>4. ack <= Base + Len(k.got) \/ (Len(k.got) = p /\ ack <= Base + Len(k.got) + 1)
    <3>1. CASE k.fin
        BY <1>0, <2>1, <2>2, <2>3, <3>1
    <3>2. CASE ~k.fin
      <4>1. k.rcv = Base + Len(k.got) + 0
        BY <2>1, <3>2
      <4> QED  BY <1>0, <2>3, <4>1
    <3> QED  BY <3>1, <3>2
  <2>5. acked = ack - Base
    BY <1>1
  <2>6. acked \in Int /\ (acked <= Len(k.got) \/ Len(k.got) = p)
    <3> HIDE DEF acked
    <3> QED  BY <1>0, <2>3, <2>4, <2>5
  <2> HIDE DEF acked
  <2> QED  BY <1>0, <1>1, <2>6
<1> DEFINE u == IF slid THEN acked ELSE c.snd_una
           v == IF slid THEN 0 ELSE c.snd_retries
<1>3. /\ u \in Nat /\ v \in Nat /\ c.snd_una <= u /\ u <= Len(k.got)
      /\ d = [c EXCEPT !.snd_una = u, !.snd_retries = v]
  <2>1. c.snd_una <= Len(k.got)
    BY DEF SlotOk, Window
  <2>2. u \in Nat /\ v \in Nat /\ c.snd_una <= u /\ u <= Len(k.got)
    BY <1>1, <1>2, <2>1
  <2>3. d = [c EXCEPT !.snd_una = u, !.snd_retries = v]
    OBVIOUS
  <2> QED  BY <2>2, <2>3
<1> HIDE DEF u, v
<1> HIDE DEF d
<1>4. /\ d \in Conn(p) /\ d.state = c.state /\ d.peer = c.peer /\ d.my_seq = c.my_seq
      /\ d.peer_seq = c.peer_seq /\ d.snd_len = c.snd_len /\ d.snd_una = u /\ d.snd_nxt = c.snd_nxt
      /\ d.snd_seq0 = c.snd_seq0 /\ d.snd_fin_pending = c.snd_fin_pending
    BY Zenon, <1>0, <1>3 DEF Conn
<1>5. SlotOk(p, d, T, k, sv, rq)
  <2>1. FromServer(p, d, T, k, sv)
    BY <1>4 DEF SlotOk, FromServer, FinSeg, Closed
  <2>2. Received(p, d, T, k)
    BY <1>4 DEF SlotOk, Received, Closed
  <2>3. Window(p, d, k)
    <3>1. c.snd_nxt <= u + INFLIGHT
        BY <1>0, <1>1, <1>3 DEF SlotOk, Window, Conn
    <3> QED  BY <1>3, <1>4, <3>1 DEF SlotOk, Window
  <2>4. Answering(p, d, T, rq)
    BY <1>1, <1>4 DEF SlotOk, Answering
  <2> QED  BY <1>1, <1>4, <2>1, <2>2, <2>3, <2>4 DEF SlotOk
<1>6. Tcp(p, f)!tcp_on_ack(c, ack, win, n) = Tcp(p, f)!tcp_pump(d, win, n)
    BY DEF Tcp!tcp_on_ack, d
<1>7. d.snd_nxt <= n
    BY <1>4
<1>8. /\ SlotOk(p, Tcp(p, f)!tcp_pump(d, win, n).conn, T \cup Tcp(p, f)!tcp_pump(d, win, n).out, k, sv, rq)
      /\ Tcp(p, f)!tcp_pump(d, win, n).conn.snd_nxt <= n
    BY Zenon, <1>5, <1>7, PumpSlot
<1> QED  BY <1>6, <1>8

\* The slot is given up or free again, wherever it was.
LEMMA CloseOk ==
    ASSUME NEW p, NEW c, NEW T, NEW k, NEW sv, NEW rq, SlotOk(p, c, T, k, sv, rq),
           NEW d \in Conn(p), d.state = "LISTEN", d.peer = c.peer, d.peer_seq = c.peer_seq,
           d.snd_len = c.snd_len, d.snd_una = c.snd_una, d.snd_nxt = c.snd_nxt,
           d.snd_seq0 = c.snd_seq0, d.snd_fin_pending = c.snd_fin_pending, NEW rq2 \in Nat
    PROVE  SlotOk(p, d, T, k, sv, rq2)
<1>1. FromServer(p, d, T, k, sv)
    BY DEF SlotOk, FromServer, FinSeg, Closed
<1>2. Received(p, d, T, k)
    BY DEF SlotOk, Received, Closed
<1>3. Window(p, d, k)
    BY DEF SlotOk, Window
<1>4. sv = 0 => Gathering(d, k, rq2)
    BY DEF SlotOk, Gathering
<1>5. sv = 1 => Answering(p, d, T, rq2)
    BY DEF SlotOk, Answering
<1> QED  BY <1>1, <1>2, <1>3, <1>4, <1>5 DEF SlotOk

\* The peer's next number grows once its request is in.
LEMMA SeqOk ==
    ASSUME NEW p, NEW c, NEW T, NEW k, NEW sv, NEW rq, SlotOk(p, c, T, k, sv, rq), sv = 1,
           NEW d \in Conn(p), d.state = c.state, d.peer = c.peer, d.my_seq = c.my_seq,
           d.peer_seq \in c.peer_seq .. CBase + ReqLen + 1,
           d.snd_len = c.snd_len, d.snd_una = c.snd_una, d.snd_nxt = c.snd_nxt,
           d.snd_seq0 = c.snd_seq0, d.snd_fin_pending = c.snd_fin_pending
    PROVE  SlotOk(p, d, T, k, sv, rq)
<1>0. /\ c.peer_seq \in Nat /\ CBase \in Nat /\ ReqLen \in Nat /\ k \in Host /\ k.una \in Nat
      /\ CBase <= c.peer_seq
    BY TcpNumbers DEF SlotOk, Conn, CBase, Host, Window
<1>1. FromServer(p, d, T, k, sv)
  <2>1. ASSUME NEW s \in T PROVE s.ack <= d.peer_seq
    BY <1>0, <2>1 DEF SlotOk, FromServer, ToClient
  <2> QED  BY <2>1 DEF SlotOk, FromServer, FinSeg, Closed
<1>2. Received(p, d, T, k)
    BY DEF SlotOk, Received, Closed
<1>3. Window(p, d, k)
  <2>1. d.peer_seq \in CBase .. CBase + ReqLen + 1 /\ k.una <= d.peer_seq - CBase
    BY <1>0 DEF SlotOk, Window
  <2> QED  BY <2>1 DEF SlotOk, Window
<1>4. Answering(p, d, T, rq)
  <2>1. d.peer_seq >= CBase + ReqLen
    BY <1>0 DEF SlotOk, Answering
  <2> QED  BY <2>1 DEF SlotOk, Answering
<1> QED  BY <1>1, <1>2, <1>3, <1>4 DEF SlotOk

\* What Deliver takes: a segment of the client, k.
Arriving(k, s) == FromClient(k, {s})

\* The acknowledgement the slot sends is one.
LEMMA AckSeg ==
    ASSUME NEW p, NEW f, NEW c \in Conn(p), c.peer = "a", c.peer_seq \in CBase .. CBase + ReqLen + 1
    PROVE  \A s \in Tcp(p, f)!tcp_send(c, {"ACK"}, 0) : IsAck(c, s)
<1>1. c.peer_seq \in Nat /\ c.peer_seq < Modulus /\ c.my_seq \in Nat /\ Modulus \in Nat \ {0}
    BY TcpNumbers DEF CBase, Conn
<1>2. c.peer_seq % Modulus = c.peer_seq /\ c.my_seq % Modulus \in Nat
    BY <1>1, NoWrap
<1>3. ASSUME NEW s \in Tcp(p, f)!tcp_send(c, {"ACK"}, 0) PROVE IsAck(c, s)
  <2>1. s = [who |-> "a", seq |-> c.my_seq % Modulus, ack |-> c.peer_seq, flags |-> {"ACK"}, data |-> 0]
    BY <1>2, <1>3 DEF Tcp!tcp_send, Tcp!Seg, Tcp!Wire
  <2> QED  BY <1>1, <1>2, <2>1 DEF IsAck, ToClient, Flag
<1> QED  BY <1>3

\* OnData: the request grows by its next segment, is executed when complete, and anything
\* else is only acknowledged.
LEMMA DataOk ==
    ASSUME NEW p, NEW f, TcpHyp(p), NEW c, NEW T, NEW k, NEW sv,
           SlotOk(p, c, T, k, sv, g_reqlen), c.state = "ESTABLISHED",
           NEW s, Arriving(k, s), NEW n \in Nat, c.snd_nxt <= n
    PROVE  /\ Tcp(p, f)!Complete(c, s) => sv = 0
           /\ SlotOk(p, Tcp(p, f)!OnData(c, s, n).conn, T \cup Tcp(p, f)!OnData(c, s, n).out, k,
                     IF Tcp(p, f)!Complete(c, s) THEN 1 ELSE sv,
                     IF Tcp(p, f)!Complete(c, s) THEN 0 ELSE Tcp(p, f)!Gathered(c, s))
           /\ s.data = 0 => Tcp(p, f)!OnData(c, s, n).conn = c /\ Tcp(p, f)!OnData(c, s, n).out = {}
<1> DEFINE io == Tcp(p, f)!InOrder(c, s)
           cm == Tcp(p, f)!Complete(c, s)
           ga == Tcp(p, f)!Gathered(c, s)
           c1 == [c EXCEPT !.peer_seq = IF io THEN s.seq + 1 ELSE @]
           r == Tcp(p, f)!OnData(c, s, n)
           A == Tcp(p, f)!tcp_send(c1, {"ACK"}, 0)
<1>0. /\ c \in Conn(p) /\ sv \in {0, 1} /\ p \in Nat \ {0} /\ ISN \in Nat /\ INFLIGHT \in Nat \ {0}
      /\ g_reqlen \in Nat /\ ReqLen \in Nat \ {0} /\ CBase \in Nat /\ c.peer_seq \in Nat /\ Base \in Nat
      /\ s \in ToServer /\ s.data \in {0, 1} /\ s.seq \in Nat /\ s.win \in Nat /\ k \in Host
      /\ c.my_seq \in Nat
    BY TcpNumbers DEF SlotOk, TcpHyp, Conn, CBase, Base, Arriving, FromClient, ToServer
<1>1. ga = IF io THEN g_reqlen + 1 ELSE g_reqlen
    BY DEF Tcp!Gathered
<1>2. cm <=> s.data > 0 /\ ga = ReqLen
    BY DEF Tcp!Complete
<1>3. io <=> s.data > 0 /\ s.seq = c.peer_seq
    BY DEF Tcp!InOrder
<1>4. CASE s.data = 0
  <2>1. ~io /\ ~cm /\ ga = g_reqlen
    BY <1>1, <1>2, <1>3, <1>4
  <2>2. r.conn = c /\ r.out = {}
    BY <1>4 DEF Tcp!OnData
  <2>3. T \cup r.out = T
    BY <2>2
  <2> HIDE DEF r, cm, ga
  <2>4. /\ cm => sv = 0
        /\ SlotOk(p, r.conn, T \cup r.out, k, IF cm THEN 1 ELSE sv, IF cm THEN 0 ELSE ga)
    BY <2>1, <2>2, <2>3
  <2> QED  BY <2>2, <2>4 DEF r, cm, ga
<1>5. CASE s.data = 1
  <2>0. s.seq \in CBase .. CBase + ReqLen - 1
    BY <1>5 DEF Arriving, FromClient
  <2>1. r.out = (IF cm THEN Tcp(p, f)!tcp_send_response(c1, s.win, n).out ELSE {}) \cup A
    BY <1>5 DEF Tcp!OnData
  <2>2. r.conn = IF cm THEN Tcp(p, f)!tcp_send_response(c1, s.win, n).conn ELSE c1
    BY <1>5 DEF Tcp!OnData
  <2>3. ~io => c1 = c
    BY <1>0 DEF Conn
  <2>4. CASE ~io
    <3>1. ~cm /\ ga = g_reqlen
      <4>1. CASE sv = 1
        BY <1>0, <1>1, <1>2, <2>4, <4>1 DEF SlotOk, Answering
      <4>2. CASE sv = 0
        BY <1>0, <1>1, <1>2, <2>4, <4>2 DEF SlotOk, Gathering
      <4> QED  BY <1>0, <4>1, <4>2
    <3>2. r.conn = c /\ r.out = A /\ c1 = c
        BY <2>1, <2>2, <2>3, <2>4, <3>1
    <3>3. \A t \in A : IsAck(c, t)
        BY Zenon, <1>0, <3>2, AckSeg DEF SlotOk, Window
    <3>4. SlotOk(p, c, T \cup A, k, sv, g_reqlen)
        BY <3>3, WithAck
    <3> HIDE DEF r, cm, ga, A
    <3>5. SlotOk(p, r.conn, T \cup r.out, k, IF cm THEN 1 ELSE sv, IF cm THEN 0 ELSE ga)
        BY <3>1, <3>2, <3>4
    <3> QED  BY <1>5, <3>1, <3>5 DEF r, cm, ga
  <2>5. CASE io
    <3>1. sv = 0
      <4>1. sv # 1
        BY <1>0, <1>3, <2>0, <2>5 DEF SlotOk, Answering
      <4> QED  BY <1>0, <4>1
    <3>2. /\ Gathering(c, k, g_reqlen) /\ s.seq = CBase + g_reqlen /\ ga = g_reqlen + 1
          /\ c.peer_seq = CBase + g_reqlen /\ g_reqlen < ReqLen
      <4>1. Gathering(c, k, g_reqlen)
        BY <3>1 DEF SlotOk
      <4> QED  BY <1>0, <1>1, <1>3, <2>5, <4>1 DEF Gathering
    <3>3. c1 = [c EXCEPT !.peer_seq = CBase + g_reqlen + 1]
        BY <1>0, <2>5, <3>2
    <3> HIDE DEF c1, io
    <3>4. /\ c1 \in Conn(p) /\ c1.state = "ESTABLISHED" /\ c1.peer = c.peer /\ c1.my_seq = c.my_seq
          /\ c1.peer_seq = CBase + g_reqlen + 1 /\ c1.snd_len = c.snd_len /\ c1.snd_una = c.snd_una
          /\ c1.snd_nxt = c.snd_nxt /\ c1.snd_fin_pending = c.snd_fin_pending
          /\ c1.snd_retries = c.snd_retries
        BY <1>0, <3>3 DEF Conn
    <3>5. c1.peer = "a" /\ c1.peer_seq \in CBase .. CBase + ReqLen + 1
        BY <1>0, <3>2, <3>4 DEF SlotOk, Window
    <3>6. \A t \in A : IsAck(c1, t)
        BY <3>4, <3>5, AckSeg
    <3> HIDE DEF A
    <3>7. \A t \in T :  /\ t \in ToClient /\ CBase <= t.ack /\ t.ack <= c1.peer_seq /\ t.data = 0
                        /\ "SYN" \in t.flags => t.data = 0 /\ t.seq = ISN /\ "FIN" \notin t.flags
                        /\ "FIN" \notin t.flags
      <4>1. ASSUME NEW t \in T PROVE t.ack <= c1.peer_seq
        <5>1. t.ack <= c.peer_seq /\ t.ack \in Nat
            BY <4>1 DEF SlotOk, FromServer, ToClient
        <5> QED  BY <1>0, <3>2, <3>4, <5>1
      <4>2. ASSUME NEW t \in T PROVE t.data = 0
        BY <3>1, <4>2 DEF SlotOk, FromServer, ToClient
      <4> QED  BY <3>1, <4>1, <4>2 DEF SlotOk, FromServer
    <3>8. /\ c.snd_len = 0 /\ ~c.snd_fin_pending /\ k.got = << >> /\ ~k.fin /\ c.my_seq = Base
          /\ c.snd_una = 0 /\ c.snd_nxt = 0 /\ k.una <= g_reqlen
      <4>1. Window(p, c, k) /\ Len(k.got) = 0
        BY <3>2 DEF SlotOk, Gathering
      <4>2. k.una \in Nat
        BY <1>0 DEF Host
      <4> QED  BY <1>0, <3>2, <4>1, <4>2 DEF Gathering, Conn, Window
    <3>9. Received(p, c1, T, k)
        BY <3>8 DEF SlotOk, Received
    <3>10. CASE ~cm
      <4>1. ga < ReqLen
        BY <1>0, <1>2, <1>5, <3>2, <3>10
      <4>2. FromServer(p, c1, T, k, 0)
        BY <3>7 DEF FromServer
      <4>3. Window(p, c1, k)
        <5>1. k.una <= c1.peer_seq - CBase /\ c1.snd_una <= Len(k.got)
            BY <1>0, <3>4, <3>8 DEF Host
        <5> QED  BY <1>0, <3>4, <3>5, <3>8, <5>1 DEF Window
      <4>4. Gathering(c1, k, ga)
        <5>1. c1.peer_seq = CBase + ga /\ c1.peer_seq < CBase + ReqLen
            BY <1>0, <3>2, <3>4, <4>1
        <5> QED  BY <3>4, <3>8, <5>1 DEF Gathering
      <4>5. SlotOk(p, c1, T, k, 0, ga)
        BY <1>0, <3>2, <3>4, <3>9, <4>2, <4>3, <4>4 DEF SlotOk
      <4>6. SlotOk(p, c1, T \cup A, k, 0, ga)
        BY <3>6, <4>5, WithAck
      <4>7. r.conn = c1 /\ r.out = A
        BY <2>1, <2>2, <3>10
      <4> HIDE DEF r, cm, ga
      <4>8. SlotOk(p, r.conn, T \cup r.out, k, IF cm THEN 1 ELSE sv, IF cm THEN 0 ELSE ga)
        BY <3>1, <3>10, <4>6, <4>7
      <4> QED  BY <1>5, <3>10, <4>8 DEF r, cm, ga
    <3>11. CASE cm
      <4> DEFINE c2 == [c1 EXCEPT !.snd_len = p, !.snd_una = 0, !.snd_nxt = 0,
                                  !.snd_seq0 = c1.my_seq, !.snd_retries = 0, !.snd_fin_pending = TRUE]
                 q == Tcp(p, f)!tcp_pump(c2, s.win, n)
      <4>1. Tcp(p, f)!tcp_send_response(c1, s.win, n) = q
        BY DEF Tcp!tcp_send_response
      <4>2. /\ c2 \in Conn(p) /\ c2.state = "ESTABLISHED" /\ c2.peer = "a" /\ c2.my_seq = Base
            /\ c2.peer_seq = c1.peer_seq /\ c2.snd_len = p /\ c2.snd_una = 0 /\ c2.snd_nxt = 0
            /\ c2.snd_seq0 = Base /\ c2.snd_fin_pending
        <5>1. c1.my_seq = Base
            BY <3>4, <3>8
        <5> QED  BY Zenon, <1>0, <3>4, <3>5, <5>1 DEF Conn
      <4> HIDE DEF c2
      <4>3. c1.peer_seq = CBase + ReqLen
        BY <1>0, <1>2, <3>2, <3>4, <3>11
      <4>4. FromServer(p, c2, T, k, 1)
        BY <3>7, <4>2 DEF FromServer
      <4>5. Received(p, c2, T, k)
        BY <3>8 DEF SlotOk, Received
      <4>6. Window(p, c2, k)
        <5>1. k.una <= c2.peer_seq - CBase /\ c2.snd_una <= Len(k.got)
            BY <1>0, <3>4, <3>8, <4>2 DEF Host
        <5> QED  BY <1>0, <3>5, <4>2, <5>1 DEF Window
      <4>7. Answering(p, c2, T, 0)
        <5>1. DataBelow(T, c2.my_seq)
            BY <3>7 DEF DataBelow
        <5>2. c2.peer_seq >= CBase + ReqLen /\ c2.my_seq <= Base + p /\ c2.my_seq = Base + c2.snd_nxt
            BY <1>0, <4>2, <4>3
        <5> QED  BY <4>2, <5>1, <5>2 DEF Answering
      <4>8. SlotOk(p, c2, T, k, 1, 0)
        BY <1>0, <4>2, <4>4, <4>5, <4>6, <4>7 DEF SlotOk
      <4>9. c2.snd_nxt <= n
        BY <4>2
      <4>10. SlotOk(p, q.conn, T \cup q.out, k, 1, 0) /\ q.conn.peer_seq = c1.peer_seq
        <5>1. PICK w \in Nat : w = s.win
            BY <1>0
        <5>2. PICK i, z : i = 1 /\ z = 0
            OBVIOUS
        <5>3. SlotOk(p, c2, T, k, i, z)
            BY <4>8, <5>2
        <5>4. /\ SlotOk(p, Tcp(p, f)!tcp_pump(c2, w, n).conn, T \cup Tcp(p, f)!tcp_pump(c2, w, n).out, k, i, z)
              /\ Tcp(p, f)!tcp_pump(c2, w, n).conn.peer_seq = c2.peer_seq
          <6>1. SlotOk(p, Tcp(p, f)!tcp_pump(c2, w, n).conn, T \cup Tcp(p, f)!tcp_pump(c2, w, n).out, k, i, z)
            BY Zenon, <4>9, <5>3, PumpSlot
          <6>2. Tcp(p, f)!tcp_pump(c2, w, n).conn.peer_seq = c2.peer_seq
            BY <4>2, PumpPeer
          <6> QED  BY <6>1, <6>2
        <5> QED  BY <4>2, <5>1, <5>2, <5>4
      <4>11. \A t \in A : IsAck(q.conn, t)
        BY <3>6, <4>10 DEF IsAck
      <4>12. SlotOk(p, q.conn, (T \cup q.out) \cup A, k, 1, 0)
        BY <4>10, <4>11, WithAck
      <4>13. r.conn = q.conn /\ T \cup r.out = (T \cup q.out) \cup A
        BY <2>1, <2>2, <3>11, <4>1
      <4> HIDE DEF r, cm, ga, q
      <4>14. SlotOk(p, r.conn, T \cup r.out, k, IF cm THEN 1 ELSE sv, IF cm THEN 0 ELSE ga)
        BY Zenon, <3>11, <4>12, <4>13
      <4> QED  BY <1>5, <3>1, <4>14 DEF r, cm, ga
    <3> QED  BY <3>10, <3>11
  <2> QED  BY <2>4, <2>5
<1> QED  BY <1>0, <1>4, <1>5

\* OnFin: the peer closes its side; the slot pumps on, or sends its own FIN after all data.
LEMMA FinOk ==
    ASSUME NEW p, NEW f, TcpHyp(p), NEW c, NEW T, NEW k, NEW sv, NEW rq,
           SlotOk(p, c, T, k, sv, rq), c.state = "ESTABLISHED",
           NEW s, Arriving(k, s), "FIN" \in s.flags, NEW n \in Nat, c.snd_nxt <= n
    PROVE  SlotOk(p, Tcp(p, f)!OnFin(c, s, n).conn, T \cup Tcp(p, f)!OnFin(c, s, n).out, k, sv, rq)
<1> DEFINE c1 == [c EXCEPT !.peer_seq = s.seq + 1, !.peer_fin = TRUE]
           q == Tcp(p, f)!tcp_pump(c1, s.win, n)
           r == Tcp(p, f)!OnFin(c, s, n)
           A == Tcp(p, f)!tcp_send(c1, {"ACK"}, 0)
           F == Tcp(p, f)!tcp_send(c1, {"FIN", "ACK"}, 0)
<1>0. /\ c \in Conn(p) /\ sv \in {0, 1} /\ p \in Nat \ {0} /\ ISN \in Nat /\ INFLIGHT \in Nat \ {0}
      /\ rq \in Nat /\ ReqLen \in Nat \ {0} /\ CBase \in Nat /\ c.peer_seq \in Nat /\ Base \in Nat
      /\ s \in ToServer /\ k \in Host /\ c.my_seq \in Nat /\ k.una \in Nat
      /\ c.peer = "a" /\ c.snd_len \in {0, p} /\ c.snd_nxt \in Nat
    BY TcpNumbers DEF SlotOk, TcpHyp, Conn, CBase, Base, Arriving, FromClient, Host, Window
<1>1. s.seq = CBase + ReqLen /\ k.una = ReqLen
    BY DEF Arriving, FromClient
<1>2. c.peer_seq >= CBase + ReqLen /\ c.peer_seq <= CBase + ReqLen + 1
    BY <1>0, <1>1 DEF SlotOk, Window
<1>3. sv = 1
    BY <1>0, <1>2 DEF SlotOk, Gathering
<1>4. /\ c1 \in Conn(p) /\ c1.state = c.state /\ c1.peer = c.peer /\ c1.my_seq = c.my_seq
      /\ c1.peer_seq = CBase + ReqLen + 1 /\ c1.snd_len = c.snd_len /\ c1.snd_una = c.snd_una
      /\ c1.snd_nxt = c.snd_nxt /\ c1.snd_seq0 = c.snd_seq0 /\ c1.snd_fin_pending = c.snd_fin_pending
  <2>1. s.seq + 1 = CBase + ReqLen + 1 /\ s.seq + 1 \in Nat
    BY <1>0, <1>1
  <2> QED  BY Zenon, <1>0, <2>1 DEF Conn
<1> HIDE DEF c1
<1>5. c1.peer_seq \in c.peer_seq .. CBase + ReqLen + 1 /\ c1.peer_seq \in CBase .. CBase + ReqLen + 1
    BY <1>0, <1>2, <1>4
<1>6. SlotOk(p, c1, T, k, sv, rq)
    BY <1>3, <1>4, <1>5, SeqOk
<1>7. CASE c.snd_nxt < c.snd_len \/ c.snd_fin_pending
  <2>1. r.conn = q.conn /\ r.out = q.out \cup A
    BY <1>7 DEF Tcp!OnFin, c1
  <2>2. PICK w \in Nat : w = s.win
    BY <1>0 DEF ToServer
  <2>3. c1.snd_nxt <= n
    BY <1>4
  <2>4. SlotOk(p, Tcp(p, f)!tcp_pump(c1, w, n).conn, T \cup Tcp(p, f)!tcp_pump(c1, w, n).out, k, sv, rq)
    BY Zenon, <1>6, <2>3, PumpSlot
  <2>5. SlotOk(p, q.conn, T \cup q.out, k, sv, rq)
    BY <2>2, <2>4
  <2>6. q.conn.peer_seq = c1.peer_seq
    BY <1>4, PumpPeer
  <2>7. \A t \in A : IsAck(c1, t)
    BY <1>0, <1>4, <1>5, AckSeg
  <2>8. \A t \in A : IsAck(q.conn, t)
    BY <2>6, <2>7 DEF IsAck
  <2>9. SlotOk(p, q.conn, (T \cup q.out) \cup A, k, sv, rq)
    BY <2>5, <2>8, WithAck
  <2>10. T \cup r.out = (T \cup q.out) \cup A
    BY <2>1
  <2> HIDE DEF r
  <2>11. SlotOk(p, r.conn, T \cup r.out, k, sv, rq)
    BY Zenon, <2>1, <2>9, <2>10
  <2> QED  BY <2>11 DEF r
<1>8. CASE ~(c.snd_nxt < c.snd_len \/ c.snd_fin_pending)
  <2>1. r.conn = [c1 EXCEPT !.my_seq = @ + 1, !.state = "LAST_ACK"] /\ r.out = F
    BY <1>8 DEF Tcp!OnFin, c1
  <2> DEFINE d == r.conn
             U == T \cup r.out
  <2>2. /\ Answering(p, c1, T, rq) /\ c.snd_len = 0 /\ c.my_seq <= Base + p /\ DataBelow(T, c.my_seq)
    <3>1. Answering(p, c, T, rq) /\ Answering(p, c1, T, rq)
        BY <1>3, <1>6 DEF SlotOk
    <3> QED  BY <1>0, <1>8, <3>1 DEF Answering
  <2>3. /\ d \in Conn(p) /\ d.state = "LAST_ACK" /\ d.peer = c1.peer /\ d.peer_seq = c1.peer_seq
        /\ d.snd_len = 0 /\ d.snd_una = c1.snd_una /\ d.snd_nxt = c1.snd_nxt
        /\ d.snd_seq0 = c1.snd_seq0 /\ ~d.snd_fin_pending
    <3>1. c1.my_seq + 1 \in Nat
        BY <1>0, <1>4
    <3>2. d = [c1 EXCEPT !.my_seq = c1.my_seq + 1, !.state = "LAST_ACK"]
        BY <2>1
    <3> HIDE DEF d
    <3> QED  BY Zenon, <1>4, <1>8, <2>2, <3>1, <3>2 DEF Conn
  <2>4. \A t \in F : t = [who |-> "a", seq |-> c.my_seq, ack |-> c1.peer_seq, flags |-> {"FIN", "ACK"}, data |-> 0]
    <3>1. /\ c.my_seq < Modulus /\ c1.peer_seq \in Nat /\ c1.peer_seq < Modulus
        BY <1>0, <1>4, <2>2, TcpNumbers DEF TcpHyp, Base, CBase
    <3>2. c.my_seq % Modulus = c.my_seq /\ c1.peer_seq % Modulus = c1.peer_seq
        BY <1>0, <3>1, NoWrap
    <3> QED  BY <1>0, <1>4, <3>2 DEF Tcp!tcp_send, Tcp!Seg, Tcp!Wire
  <2>5. \A t \in F : /\ t \in ToClient /\ t.seq = c.my_seq /\ t.ack = c1.peer_seq /\ t.data = 0
                      /\ "SYN" \notin t.flags
    <3>1. c1.peer_seq \in Nat
        BY <1>4 DEF Conn
    <3> QED  BY <1>0, <2>4, <3>1 DEF ToClient, Flag
  <2>6. ~k.fin /\ \A t \in T : "FIN" \notin t.flags
    BY <1>4, <1>6 DEF SlotOk, FromServer, FinSeg, Received
  <2> HIDE DEF F
  <2>7. r.out = F
    BY <2>1
  <2> HIDE DEF r
  <2>8. FromServer(p, d, U, k, sv)
    <3>1. DataBelow(U, c.my_seq)
        BY <2>2, <2>5, <2>7 DEF DataBelow
    <3>2. ASSUME NEW t \in U, "FIN" \in t.flags PROVE FinSeg(p, d, U, k, t)
      <4>1. t \in F /\ \A g \in U : "FIN" \in g.flags => g \in F
        BY <2>6, <2>7, <3>2
      <4>2. t.data = 0 /\ t.seq = c.my_seq /\ \A g \in U : "FIN" \in g.flags => g = t
        BY Zenon, <2>4, <2>5, <4>1
      <4>3. DataBelow(U, t.seq)
        BY <3>1, <4>2
      <4>4. d.state \notin {"SYN_RCVD", "ESTABLISHED"} /\ Closed(d) /\ d.snd_len = 0
        BY <2>3 DEF Closed
      <4> QED  BY <2>6, <4>2, <4>3, <4>4 DEF FinSeg
    <3>3. ASSUME NEW t \in T
          PROVE  /\ t \in ToClient /\ CBase <= t.ack /\ t.ack <= d.peer_seq
                 /\ "SYN" \in t.flags => t.data = 0 /\ t.seq = ISN /\ "FIN" \notin t.flags
                 /\ t.data > 0 => t.data <= p /\ t.seq = ISN + t.data /\ "FIN" \notin t.flags /\ sv = 1
        BY <1>6, <2>3 DEF SlotOk, FromServer
    <3>4. ASSUME NEW t \in F
          PROVE  t \in ToClient /\ CBase <= t.ack /\ t.ack <= d.peer_seq /\ "SYN" \notin t.flags /\ ~(t.data > 0)
        BY <1>5, <1>0, <2>3, <2>5
    <3> HIDE DEF d
    <3> QED  BY <1>3, <2>7, <3>2, <3>3, <3>4 DEF FromServer
  <2>9. Received(p, d, U, k)
    BY <2>6 DEF SlotOk, Received
  <2>10. Window(p, d, k)
    <3>1. c1.snd_len = 0 /\ Window(p, c1, k)
        BY <1>4, <1>6, <2>2 DEF SlotOk
    <3> QED  BY <2>3, <3>1 DEF Window
  <2>11. Answering(p, d, U, rq)
    BY <2>2, <2>3 DEF Answering
  <2>12. SlotOk(p, d, U, k, sv, rq)
    BY <1>0, <1>3, <2>3, <2>8, <2>9, <2>10, <2>11 DEF SlotOk
  <2> QED  BY <2>12 DEF r
<1> QED  BY <1>7, <1>8

\* OnEstablished.
LEMMA EstablishedOk ==
    ASSUME NEW p, NEW f, TcpHyp(p), NEW c, NEW T, NEW k, NEW sv,
           SlotOk(p, c, T, k, sv, g_reqlen), c.state = "ESTABLISHED",
           NEW s, Arriving(k, s), "RST" \notin s.flags, NEW n \in Nat, c.snd_nxt <= n
    PROVE  /\ Tcp(p, f)!Complete(c, s) => sv = 0
           /\ SlotOk(p, Tcp(p, f)!OnEstablished(c, s, n).conn,
                     T \cup Tcp(p, f)!OnEstablished(c, s, n).out, k,
                     IF Tcp(p, f)!Complete(c, s) THEN 1 ELSE sv,
                     IF Tcp(p, f)!Complete(c, s) THEN 0 ELSE Tcp(p, f)!Gathered(c, s))
<1> DEFINE d == Tcp(p, f)!OnData(c, s, n)
           g == Tcp(p, f)!OnFin(d.conn, s, n)
           r == Tcp(p, f)!OnEstablished(c, s, n)
           v == IF Tcp(p, f)!Complete(c, s) THEN 1 ELSE sv
           q == IF Tcp(p, f)!Complete(c, s) THEN 0 ELSE Tcp(p, f)!Gathered(c, s)
<1>1. r.conn = g.conn /\ r.out = d.out \cup g.out
    BY DEF Tcp!OnEstablished
<1>2. /\ Tcp(p, f)!Complete(c, s) => sv = 0
      /\ SlotOk(p, d.conn, T \cup d.out, k, v, q)
      /\ s.data = 0 => d.conn = c /\ d.out = {}
    BY Zenon, DataOk
<1> HIDE DEF d, v, q
<1>3. CASE "FIN" \notin s.flags
  <2>1. g.conn = d.conn /\ g.out = {}
    BY <1>3 DEF Tcp!OnFin
  <2>2. T \cup r.out = T \cup d.out
    BY <1>1, <2>1
  <2> HIDE DEF r, g
  <2>3. SlotOk(p, r.conn, T \cup r.out, k, v, q)
    BY <1>1, <1>2, <2>1, <2>2
  <2> QED  BY <1>2, <2>3 DEF r, v, q
<1>4. CASE "FIN" \in s.flags
  <2>1. s.data = 0
    BY <1>4 DEF Arriving, FromClient
  <2>2. d.conn = c /\ d.out = {}
    BY <1>2, <2>1
  <2>3. SlotOk(p, c, T, k, v, q)
    <3>1. T \cup d.out = T
        BY <2>2
    <3> QED  BY <1>2, <2>2, <3>1
  <2>4. SlotOk(p, Tcp(p, f)!OnFin(c, s, n).conn, T \cup Tcp(p, f)!OnFin(c, s, n).out, k, v, q)
    BY Zenon, <1>4, <2>3, FinOk
  <2>5. r.conn = g.conn /\ T \cup r.out = T \cup g.out
    BY <1>1, <2>2
  <2>6. SlotOk(p, g.conn, T \cup g.out, k, v, q)
    BY <2>2, <2>4
  <2> HIDE DEF r, g
  <2>7. SlotOk(p, r.conn, T \cup r.out, k, v, q)
    BY Zenon, <2>5, <2>6
  <2> QED  BY <1>2, <2>7 DEF r, v, q
<1> QED  BY <1>3, <1>4

\* OnFinWait1 and OnLastAck: the slot is freed when its FIN is acknowledged.
LEMMA FinWaitOk ==
    ASSUME NEW p, NEW f, TcpHyp(p), NEW c, NEW T, NEW k, NEW sv, NEW rq,
           SlotOk(p, c, T, k, sv, rq), c.state = "FIN_WAIT_1", NEW s, Arriving(k, s)
    PROVE  SlotOk(p, Tcp(p, f)!OnFinWait1(c, s).conn, T \cup Tcp(p, f)!OnFinWait1(c, s).out, k, sv, rq)
<1> DEFINE c1 == [c EXCEPT !.fin_acked = @ \/ ("ACK" \in s.flags /\ s.ack = c.my_seq)]
           c2 == IF "FIN" \in s.flags THEN [c1 EXCEPT !.peer_seq = s.seq + 1, !.peer_fin = TRUE] ELSE c1
           r == Tcp(p, f)!OnFinWait1(c, s)
           A == Tcp(p, f)!tcp_send(c2, {"ACK"}, 0)
<1>0. /\ c \in Conn(p) /\ sv \in {0, 1} /\ p \in Nat \ {0} /\ ReqLen \in Nat \ {0} /\ CBase \in Nat
      /\ c.peer_seq \in Nat /\ s \in ToServer /\ c.peer = "a" /\ rq \in Nat
    BY TcpNumbers DEF SlotOk, TcpHyp, Conn, CBase, Arriving, FromClient, Window
<1>1. sv = 1
    BY <1>0 DEF SlotOk, Gathering
<1>2. c.peer_seq >= CBase + ReqLen /\ c.peer_seq <= CBase + ReqLen + 1
    BY <1>0, <1>1 DEF SlotOk, Window, Answering
<1>3. /\ c1 \in Conn(p) /\ c1.state = c.state /\ c1.peer = c.peer /\ c1.my_seq = c.my_seq
      /\ c1.peer_seq = c.peer_seq /\ c1.snd_len = c.snd_len /\ c1.snd_una = c.snd_una
      /\ c1.snd_nxt = c.snd_nxt /\ c1.snd_seq0 = c.snd_seq0 /\ c1.snd_fin_pending = c.snd_fin_pending
  <2>1. PICK b \in BOOLEAN : c1 = [c EXCEPT !.fin_acked = b]
    <3>1. (c.fin_acked \/ ("ACK" \in s.flags /\ s.ack = c.my_seq)) \in BOOLEAN
        OBVIOUS
    <3> QED  BY Zenon, <3>1
  <2> HIDE DEF c1
  <2> QED  BY <1>0, <2>1 DEF Conn
<1> HIDE DEF c1
<1>4. /\ c2 \in Conn(p) /\ c2.state = c.state /\ c2.peer = c.peer /\ c2.my_seq = c.my_seq
      /\ c2.peer_seq \in c.peer_seq .. CBase + ReqLen + 1
      /\ c2.snd_len = c.snd_len /\ c2.snd_una = c.snd_una
      /\ c2.snd_nxt = c.snd_nxt /\ c2.snd_seq0 = c.snd_seq0 /\ c2.snd_fin_pending = c.snd_fin_pending
  <2>1. CASE "FIN" \in s.flags
    <3>1. s.seq + 1 = CBase + ReqLen + 1 /\ s.seq + 1 \in Nat
        BY <1>0, <2>1 DEF Arriving, FromClient
    <3>2. c2 = [c1 EXCEPT !.peer_seq = CBase + ReqLen + 1, !.peer_fin = TRUE]
        BY Zenon, <2>1, <3>1
    <3> HIDE DEF c2
    <3>3. /\ c2 \in Conn(p) /\ c2.state = c1.state /\ c2.peer = c1.peer /\ c2.my_seq = c1.my_seq
          /\ c2.peer_seq = CBase + ReqLen + 1 /\ c2.snd_len = c1.snd_len /\ c2.snd_una = c1.snd_una
          /\ c2.snd_nxt = c1.snd_nxt /\ c2.snd_seq0 = c1.snd_seq0 /\ c2.snd_fin_pending = c1.snd_fin_pending
        BY Zenon, <1>3, <3>1, <3>2 DEF Conn
    <3>4. c2.peer_seq \in c.peer_seq .. CBase + ReqLen + 1
        BY <1>0, <1>2, <3>3
    <3> QED  BY <1>3, <3>3, <3>4
  <2>2. CASE "FIN" \notin s.flags
    BY <1>0, <1>2, <1>3, <2>2
  <2> QED  BY <2>1, <2>2
<1>5. SlotOk(p, c2, T, k, sv, rq)
  <2> HIDE DEF c2
  <2> QED  BY <1>1, <1>4, SeqOk
<1>6. c2.peer_seq \in CBase .. CBase + ReqLen + 1
    BY <1>0, <1>2, <1>4
<1>7. \A t \in A : IsAck(c2, t)
  <2> HIDE DEF c2
  <2> QED  BY <1>0, <1>4, <1>6, AckSeg
<1>8. \A t \in r.out : IsAck(c2, t)
  <2>1. r.out = IF "FIN" \in s.flags THEN A ELSE {}
    BY DEF Tcp!OnFinWait1, c1
  <2> QED  BY <1>7, <2>1
<1>9. SlotOk(p, c2, T \cup r.out, k, sv, rq)
  <2> HIDE DEF c2, r
  <2> QED  BY <1>5, <1>8, WithAck
<1>10. r.conn = [c2 EXCEPT !.state = IF c2.fin_acked THEN "LISTEN" ELSE @]
    BY DEF Tcp!OnFinWait1, c1
<1> HIDE DEF c2, r
<1>11. CASE c2.fin_acked
  <2>1. r.conn = [c2 EXCEPT !.state = "LISTEN"]
    BY <1>10, <1>11
  <2>2. /\ r.conn \in Conn(p) /\ r.conn.state = "LISTEN" /\ r.conn.peer = c2.peer
        /\ r.conn.peer_seq = c2.peer_seq /\ r.conn.snd_len = c2.snd_len /\ r.conn.snd_una = c2.snd_una
        /\ r.conn.snd_nxt = c2.snd_nxt /\ r.conn.snd_seq0 = c2.snd_seq0
        /\ r.conn.snd_fin_pending = c2.snd_fin_pending
    BY <1>4, <2>1 DEF Conn
  <2>3. SlotOk(p, r.conn, T \cup r.out, k, sv, rq)
    BY <1>0, <1>9, <2>2, CloseOk
  <2> QED  BY <2>3 DEF r
<1>12. CASE ~c2.fin_acked
  <2>1. r.conn = c2
    BY <1>4, <1>10, <1>12 DEF Conn
  <2> QED  BY <1>9, <2>1 DEF r
<1> QED  BY <1>11, <1>12

\* A slot that only changes its state to LISTEN.
LEMMA ListenOk ==
    ASSUME NEW p, NEW c, NEW T, NEW k, NEW sv, NEW rq, SlotOk(p, c, T, k, sv, rq), NEW rq2 \in Nat
    PROVE  SlotOk(p, [c EXCEPT !.state = "LISTEN"], T, k, sv, rq2)
<1> DEFINE d == [c EXCEPT !.state = "LISTEN"]
<1>0. c \in Conn(p)
    BY DEF SlotOk
<1>1. /\ d \in Conn(p) /\ d.state = "LISTEN" /\ d.peer = c.peer /\ d.peer_seq = c.peer_seq
      /\ d.snd_len = c.snd_len /\ d.snd_una = c.snd_una /\ d.snd_nxt = c.snd_nxt
      /\ d.snd_seq0 = c.snd_seq0 /\ d.snd_fin_pending = c.snd_fin_pending
    BY <1>0 DEF Conn
<1> HIDE DEF d
<1>2. SlotOk(p, d, T, k, sv, rq2)
    BY <1>1, CloseOk
<1> QED  BY <1>2 DEF d

LEMMA LastAckOk ==
    ASSUME NEW p, NEW f, NEW c, NEW T, NEW k, NEW sv, NEW rq, SlotOk(p, c, T, k, sv, rq), NEW s
    PROVE  /\ Tcp(p, f)!OnLastAck(c, s).out = {}
           /\ SlotOk(p, Tcp(p, f)!OnLastAck(c, s).conn, T, k, sv, rq)
<1>0. c \in Conn(p) /\ rq \in Nat
    BY DEF SlotOk
<1>1. CASE "ACK" \in s.flags /\ s.ack = c.my_seq
  <2>1. Tcp(p, f)!OnLastAck(c, s).conn = [c EXCEPT !.state = "LISTEN"] /\ Tcp(p, f)!OnLastAck(c, s).out = {}
    BY <1>1 DEF Tcp!OnLastAck
  <2> QED  BY <1>0, <2>1, ListenOk
<1>2. CASE ~("ACK" \in s.flags /\ s.ack = c.my_seq)
  <2>1. Tcp(p, f)!OnLastAck(c, s).conn = c /\ Tcp(p, f)!OnLastAck(c, s).out = {}
    BY <1>0, <1>2 DEF Tcp!OnLastAck, Conn
  <2> QED  BY <2>1
<1> QED  BY <1>1, <1>2

LEMMA SynRcvdOk ==
    ASSUME NEW p, NEW f, NEW c, NEW T, NEW k, NEW sv, NEW rq, SlotOk(p, c, T, k, sv, rq),
           c.state = "SYN_RCVD", NEW s
    PROVE  /\ Tcp(p, f)!OnSynRcvd(c, s).out = {}
           /\ SlotOk(p, Tcp(p, f)!OnSynRcvd(c, s).conn, T, k, sv, 0)
<1>0. c \in Conn(p) /\ rq \in Nat /\ sv \in {0, 1}
    BY DEF SlotOk
<1>1. sv = 0 /\ rq = 0 /\ c.my_seq = Base /\ c.peer_seq = CBase
    BY <1>0 DEF SlotOk, Answering, Gathering
<1>2. Tcp(p, f)!OnSynRcvd(c, s).out = {}
    BY DEF Tcp!OnSynRcvd
<1>3. CASE "RST" \in s.flags
  <2>1. Tcp(p, f)!OnSynRcvd(c, s).conn = [c EXCEPT !.state = "LISTEN"]
    BY <1>3 DEF Tcp!OnSynRcvd
  <2>2. SlotOk(p, [c EXCEPT !.state = "LISTEN"], T, k, sv, rq)
    BY <1>0, ListenOk
  <2> QED  BY <1>1, <1>2, <2>1, <2>2
<1>4. CASE "RST" \notin s.flags /\ "ACK" \in s.flags /\ s.ack = c.my_seq
  <2> DEFINE d == [c EXCEPT !.state = "ESTABLISHED"]
  <2>1. Tcp(p, f)!OnSynRcvd(c, s).conn = d
    BY <1>4 DEF Tcp!OnSynRcvd
  <2>2. /\ d \in Conn(p) /\ d.state = "ESTABLISHED" /\ d.peer = c.peer /\ d.peer_seq = c.peer_seq
        /\ d.snd_len = c.snd_len /\ d.snd_una = c.snd_una /\ d.snd_nxt = c.snd_nxt
        /\ d.snd_seq0 = c.snd_seq0 /\ d.snd_fin_pending = c.snd_fin_pending /\ d.my_seq = c.my_seq
    BY <1>0 DEF Conn
  <2> HIDE DEF d
  <2>3. FromServer(p, d, T, k, sv)
    BY <1>1, <2>2 DEF SlotOk, FromServer
  <2>4. Received(p, d, T, k)
    BY <1>1, <2>2 DEF SlotOk, Received, Gathering
  <2>5. Window(p, d, k)
    BY <1>1, <2>2 DEF SlotOk, Window, Gathering
  <2>6. Gathering(d, k, 0)
    <3>1. CBase + 0 = CBase
        BY TcpNumbers DEF CBase
    <3> QED  BY <1>1, <2>2, <3>1 DEF SlotOk, Gathering
  <2>7. SlotOk(p, d, T, k, sv, 0)
    BY <1>0, <1>1, <2>2, <2>3, <2>4, <2>5, <2>6 DEF SlotOk
  <2> QED  BY <1>2, <2>1, <2>7
<1>5. CASE "RST" \notin s.flags /\ ~("ACK" \in s.flags /\ s.ack = c.my_seq)
  <2>1. Tcp(p, f)!OnSynRcvd(c, s).conn = c
    BY <1>0, <1>5 DEF Tcp!OnSynRcvd, Conn
  <2> QED  BY <1>1, <1>2, <2>1
<1> QED  BY <1>3, <1>4, <1>5

\* AfterAck: the acknowledgement of any segment of the client.
LEMMA AfterAckOk ==
    ASSUME NEW p, NEW f, TcpHyp(p), NEW T, NEW k, NEW sv, SlotOk(p, g_conn, T, k, sv, g_reqlen),
           NEW s, Arriving(k, s), NEW n \in Nat, g_conn.snd_nxt <= n
    PROVE  /\ SlotOk(p, Tcp(p, f)!AfterAck(s, n).conn, T \cup Tcp(p, f)!AfterAck(s, n).out, k, sv, g_reqlen)
           /\ Tcp(p, f)!AfterAck(s, n).conn.snd_nxt <= n
<1>0. s \in ToServer
    BY DEF Arriving, FromClient
<1>1. CASE "ACK" \in s.flags /\ g_conn.snd_len > 0
  <2>1. Tcp(p, f)!AfterAck(s, n) = Tcp(p, f)!tcp_on_ack(g_conn, s.ack, s.win, n)
    BY <1>1 DEF Tcp!AfterAck
  <2>2. s.ack <= k.rcv /\ k.st \notin {"new", "syn"}
    BY <1>1 DEF Arriving, FromClient
  <2>3. PICK w \in Nat, y \in Nat : w = s.win /\ y = s.ack
    BY <1>0 DEF ToServer
  <2>4. /\ SlotOk(p, Tcp(p, f)!tcp_on_ack(g_conn, y, w, n).conn,
                   T \cup Tcp(p, f)!tcp_on_ack(g_conn, y, w, n).out, k, sv, g_reqlen)
        /\ Tcp(p, f)!tcp_on_ack(g_conn, y, w, n).conn.snd_nxt <= n
    BY Zenon, <1>1, <2>2, <2>3, AckOk
  <2> QED  BY <2>1, <2>3, <2>4
<1>2. CASE ~("ACK" \in s.flags /\ g_conn.snd_len > 0)
  <2>1. Tcp(p, f)!AfterAck(s, n) = [conn |-> g_conn, out |-> {}]
    BY <1>2 DEF Tcp!AfterAck
  <2>2. T \cup {} = T
    OBVIOUS
  <2> QED  BY <2>1, <2>2
<1> QED  BY <1>1, <1>2

\* tcp_handle_packet on a slot that is in order leaves it in order.
LEMMA HandleOk ==
    ASSUME NEW p, NEW f, TcpHyp(p), NEW k,
           SlotOk(p, g_conn, toClient, k, served["a"], g_reqlen),
           served \in [{"a"} -> {0, 1}], g_isn_seed = ISN + ISNStep,
           NEW s, Arriving(k, s), NEW n, n \in Tcp(p, f)!Accepts(g_conn),
           Tcp(p, f)!tcp_handle_packet(s, n), g_isn_seed' <= ISN + 1 * ISNStep
    PROVE  /\ g_isn_seed' = g_isn_seed /\ served' \in [{"a"} -> {0, 1}]
           /\ SlotOk(p, g_conn', toClient', k, served'["a"], g_reqlen')
<1> DEFINE a == Tcp(p, f)!AfterAck(s, n)
           c == a.conn
           l == Tcp(p, f)!OnListen(c, s)
           r == IF c.state = "LISTEN" THEN [conn |-> l.conn, out |-> l.out]
                ELSE IF s.who # c.peer THEN [conn |-> c, out |-> {}]
                ELSE IF c.state = "SYN_RCVD" THEN Tcp(p, f)!OnSynRcvd(c, s)
                ELSE IF c.state = "ESTABLISHED" THEN Tcp(p, f)!OnEstablished(c, s, n)
                ELSE IF c.state = "FIN_WAIT_1" THEN Tcp(p, f)!OnFinWait1(c, s)
                ELSE Tcp(p, f)!OnLastAck(c, s)
           run == /\ c.state = "ESTABLISHED" /\ s.who = c.peer /\ "RST" \notin s.flags
                  /\ Tcp(p, f)!Complete(c, s)
           sv == served["a"]
           T == toClient \cup a.out
<1>0. /\ sv \in {0, 1} /\ p \in Nat \ {0} /\ s \in ToServer /\ s.who = "a" /\ g_reqlen \in Nat
      /\ ISN \in Nat /\ ISNStep \in Nat \ {0}
    BY TcpNumbers DEF SlotOk, TcpHyp, Arriving, FromClient, ToServer
<1>1. n \in Nat /\ g_conn.snd_nxt <= n
  <2>1. g_conn.snd_nxt \in Nat /\ g_conn.snd_nxt <= p
    BY <1>0 DEF SlotOk, Conn, Window
  <2>2. n = g_conn.snd_nxt \/ n = p + 1
    BY DEF Tcp!Accepts
  <2> QED  BY <1>0, <2>1, <2>2
<1>2. SlotOk(p, c, T, k, sv, g_reqlen) /\ c.snd_nxt <= n
    BY Zenon, <1>1, AfterAckOk
<1>3. /\ g_conn' = r.conn
      /\ g_isn_seed' = IF c.state = "LISTEN" THEN l.isn ELSE g_isn_seed
      /\ served' = IF run THEN [served EXCEPT ![s.who] = @ + 1] ELSE served
      /\ g_reqlen' = IF run \/ r.conn.state \in {"SYN_RCVD"} \/ c.state = "SYN_RCVD" THEN 0
                     ELSE IF c.state = "ESTABLISHED" /\ s.who = c.peer /\ "RST" \notin s.flags
                     THEN Tcp(p, f)!Gathered(c, s) ELSE g_reqlen
    BY DEF Tcp!tcp_handle_packet
<1>4. \E kept \in SUBSET (a.out \cup r.out) : toClient' = toClient \cup kept
    BY DEF Tcp!tcp_handle_packet, Tcp!Carry
<1> HIDE DEF a
<1>5. c \in Conn(p) /\ c.peer = "a"
    BY <1>2 DEF SlotOk, Window
<1>6. ASSUME NEW v, NEW q, SlotOk(p, r.conn, T \cup r.out, k, v, q) PROVE SlotOk(p, g_conn', toClient', k, v, q)
  <2>1. toClient' \in SUBSET (T \cup r.out)
    BY <1>4
  <2> HIDE DEF r, T
  <2>2. SlotOk(p, r.conn, toClient', k, v, q)
    BY <1>6, <2>1, Fewer
  <2> QED  BY <1>3, <2>2
<1>7. CASE c.state = "LISTEN"
  <2>1. "SYN" \notin s.flags
    <3> SUFFICES ASSUME "SYN" \in s.flags PROVE FALSE
        OBVIOUS
    <3>1. l.isn = g_isn_seed + ISNStep
        BY DEF Tcp!OnListen
    <3> QED  BY <1>0, <1>3, <1>7, <3>1
  <2>2. l.conn = c /\ l.out = {} /\ l.isn = g_isn_seed
    BY <2>1 DEF Tcp!OnListen
  <2>3. r.conn = c /\ r.out = {}
    BY <1>7, <2>2
  <2>4. ~run /\ g_reqlen' = g_reqlen /\ served' = served /\ g_isn_seed' = g_isn_seed
    BY <1>3, <1>7, <2>2, <2>3
  <2>5. T \cup r.out = T
    BY <2>3
  <2> HIDE DEF r, T
  <2>6. SlotOk(p, r.conn, T \cup r.out, k, sv, g_reqlen)
    BY <1>2, <2>3, <2>5
  <2>7. SlotOk(p, g_conn', toClient', k, sv, g_reqlen)
    BY <1>6, <2>6
  <2> QED  BY <2>4, <2>7
<1>8. CASE c.state = "SYN_RCVD"
  <2>1. r = Tcp(p, f)!OnSynRcvd(c, s)
    BY <1>0, <1>5, <1>8
  <2>2. ~run /\ g_reqlen' = 0 /\ served' = served /\ g_isn_seed' = g_isn_seed
    BY <1>3, <1>8
  <2> HIDE DEF r, T
  <2>3. r.out = {} /\ SlotOk(p, r.conn, T, k, sv, 0)
    BY <1>2, <1>8, <2>1, SynRcvdOk
  <2>4. T \cup r.out = T
    BY <2>3
  <2>5. SlotOk(p, r.conn, T \cup r.out, k, sv, 0)
    BY <2>3, <2>4
  <2>6. SlotOk(p, g_conn', toClient', k, sv, 0)
    BY <1>6, <2>5
  <2> QED  BY <2>2, <2>6
<1>9. CASE c.state = "ESTABLISHED" /\ "RST" \in s.flags
  <2>1. r = Tcp(p, f)!OnEstablished(c, s, n)
    BY <1>0, <1>5, <1>9
  <2>2. r.conn = [c EXCEPT !.state = "LISTEN"] /\ r.out = {}
    BY <1>9, <2>1 DEF Tcp!OnEstablished
  <2>3. r.conn.state = "LISTEN"
    BY <1>5, <2>2 DEF Conn
  <2>4. ~run /\ g_reqlen' = g_reqlen /\ served' = served /\ g_isn_seed' = g_isn_seed
    BY <1>3, <1>9, <2>3
  <2> HIDE DEF r, T
  <2>5. SlotOk(p, r.conn, T, k, sv, g_reqlen)
    BY <1>0, <1>2, <2>2, ListenOk
  <2>6. T \cup r.out = T
    BY <2>2
  <2>7. SlotOk(p, r.conn, T \cup r.out, k, sv, g_reqlen)
    BY Zenon, <2>5, <2>6
  <2>8. SlotOk(p, g_conn', toClient', k, sv, g_reqlen)
    BY <1>6, <2>7
  <2> QED  BY <2>4, <2>8
<1>10. CASE c.state = "ESTABLISHED" /\ "RST" \notin s.flags
  <2> DEFINE cm == Tcp(p, f)!Complete(c, s)
             v == IF cm THEN 1 ELSE sv
             q == IF cm THEN 0 ELSE Tcp(p, f)!Gathered(c, s)
  <2>1. r = Tcp(p, f)!OnEstablished(c, s, n)
    BY <1>0, <1>5, <1>10
  <2>2. run <=> cm
    BY <1>0, <1>5, <1>10
  <2>3. (cm => sv = 0) /\ SlotOk(p, Tcp(p, f)!OnEstablished(c, s, n).conn, T \cup Tcp(p, f)!OnEstablished(c, s, n).out, k, v, q)
    BY Zenon, <1>1, <1>2, <1>10, EstablishedOk
  <2>4. SlotOk(p, r.conn, T \cup r.out, k, v, q)
    BY Zenon, <2>1, <2>3
  <2>5. g_reqlen' = IF r.conn.state \in {"SYN_RCVD"} THEN 0 ELSE q
    BY <1>0, <1>3, <1>5, <1>10, <2>2
  <2>6. r.conn.state = "SYN_RCVD" => q = 0
    <3>1. v = 1 \/ v = 0
        BY <1>0
    <3> QED  BY Zenon, <2>4, <3>1 DEF SlotOk, Answering, Gathering
  <2>7. g_reqlen' = q /\ g_isn_seed' = g_isn_seed
    BY <1>3, <1>10, <2>5, <2>6
  <2>8. served' \in [{"a"} -> {0, 1}] /\ served'["a"] = v
    BY <1>0, <1>3, <2>2, <2>3
  <2> HIDE DEF r, T, v, q
  <2>9. SlotOk(p, g_conn', toClient', k, v, q)
    BY <1>6, <2>4
  <2> QED  BY <2>7, <2>8, <2>9
<1>11. CASE c.state \in {"FIN_WAIT_1", "LAST_ACK"}
  <2>1. sv = 1
    BY <1>0, <1>2, <1>11 DEF SlotOk, Gathering
  <2>2. SlotOk(p, r.conn, T \cup r.out, k, sv, g_reqlen)
    <3>1. CASE c.state = "FIN_WAIT_1"
      <4>1. r = Tcp(p, f)!OnFinWait1(c, s)
        BY <1>0, <1>5, <3>1
      <4> HIDE DEF r, T
      <4> QED  BY Zenon, <1>2, <3>1, <4>1, FinWaitOk
    <3>2. CASE c.state = "LAST_ACK"
      <4>1. r = Tcp(p, f)!OnLastAck(c, s)
        BY <1>0, <1>5, <3>2
      <4> HIDE DEF r, T
      <4>2. r.out = {} /\ SlotOk(p, r.conn, T, k, sv, g_reqlen)
        BY <1>2, <4>1, LastAckOk
      <4>3. T \cup r.out = T
        BY <4>2
      <4> QED  BY <4>2, <4>3
    <3> QED  BY <1>11, <3>1, <3>2
  <2> HIDE DEF r, T
  <2>3. r.conn.state # "SYN_RCVD"
    BY <2>1, <2>2 DEF SlotOk, Answering
  <2>4. ~run /\ g_reqlen' = g_reqlen /\ served' = served /\ g_isn_seed' = g_isn_seed
    BY <1>3, <1>11, <2>3
  <2>5. SlotOk(p, g_conn', toClient', k, sv, g_reqlen)
    BY <1>6, <2>2
  <2> QED  BY <2>4, <2>5
<1> QED  BY <1>5, <1>7, <1>8, <1>9, <1>10, <1>11 DEF Conn

\* tcp_retransmit_tick: going back to the first segment not acknowledged sends again at
\* least what was sent, and a response given up leaves nothing to send.
LEMMA RetransmitOk ==
    ASSUME NEW p, NEW f, TcpHyp(p), NEW k, NEW sv, SlotOk(p, g_conn, toClient, k, sv, g_reqlen),
           Tcp(p, f)!tcp_retransmit_tick
    PROVE  SlotOk(p, g_conn', toClient', k, sv, g_reqlen)
<1>0. /\ g_conn \in Conn(p) /\ sv \in {0, 1} /\ p \in Nat \ {0} /\ INFLIGHT \in Nat \ {0} /\ Base \in Nat
      /\ g_conn.snd_nxt \in Nat /\ g_conn.snd_una \in Nat /\ g_conn.snd_len \in {0, p}
      /\ g_conn.snd_retries \in Nat /\ Len(k.got) \in Nat /\ g_reqlen \in Nat /\ k \in Host
      /\ RETRIES \in Nat
    BY TcpNumbers DEF SlotOk, TcpHyp, Conn, Base, Host
<1>1. /\ ~(g_conn.snd_una >= g_conn.snd_len /\ ~g_conn.snd_fin_pending)
      /\ g_conn.state \in {"ESTABLISHED", "FIN_WAIT_1"}
    BY DEF Tcp!tcp_retransmit_tick
<1>2. Window(p, g_conn, k) /\ Received(p, g_conn, toClient, k) /\ FromServer(p, g_conn, toClient, k, sv)
    BY DEF SlotOk
<1>3. g_conn.snd_len = p /\ g_conn.snd_una <= p
  <2>1. g_conn.snd_una <= p
    BY <1>0, <1>2 DEF Window, Received
  <2> QED  BY <1>0, <1>1, <1>2, <2>1 DEF Window
<1>4. sv = 1
    BY <1>0, <1>3 DEF SlotOk, Gathering
<1>5. CASE g_conn.snd_retries + 1 > RETRIES
  <2> DEFINE d == g_conn'
  <2>1. /\ d = [g_conn EXCEPT !.snd_len = 0, !.snd_una = 0, !.snd_nxt = 0,
                              !.snd_retries = @ + 1, !.snd_fin_pending = FALSE]
        /\ toClient' = toClient
    BY <1>5 DEF Tcp!tcp_retransmit_tick
  <2>2. /\ d \in Conn(p) /\ d.state = g_conn.state /\ d.peer = g_conn.peer /\ d.peer_seq = g_conn.peer_seq
        /\ d.snd_len = 0 /\ d.snd_una = 0 /\ d.snd_nxt = 0 /\ d.my_seq = g_conn.my_seq
        /\ d.snd_seq0 = g_conn.snd_seq0 /\ ~d.snd_fin_pending
    <3> DEFINE v == g_conn.snd_retries + 1
    <3>1. v \in Nat
        BY <1>0
    <3>2. d = [g_conn EXCEPT !.snd_len = 0, !.snd_una = 0, !.snd_nxt = 0, !.snd_retries = v, !.snd_fin_pending = FALSE]
        BY <2>1
    <3> HIDE DEF v
    <3> HIDE DEF d
    <3> DEFINE x1 == [g_conn EXCEPT !.snd_len = 0, !.snd_una = 0, !.snd_nxt = 0]
    <3>3. /\ x1 \in Conn(p) /\ x1.state = g_conn.state /\ x1.peer = g_conn.peer /\ x1.peer_seq = g_conn.peer_seq
          /\ x1.snd_len = 0 /\ x1.snd_una = 0 /\ x1.snd_nxt = 0 /\ x1.my_seq = g_conn.my_seq
          /\ x1.snd_seq0 = g_conn.snd_seq0
        BY Zenon, <1>0 DEF Conn
    <3>4. d = [x1 EXCEPT !.snd_retries = v, !.snd_fin_pending = FALSE]
        BY <3>2
    <3> HIDE DEF x1
    <3> QED  BY Zenon, <3>1, <3>3, <3>4 DEF Conn
  <2> HIDE DEF d
  <2>3. FromServer(p, d, toClient, k, sv)
    <3>1. ASSUME NEW s \in toClient, "FIN" \in s.flags PROVE FinSeg(p, d, toClient, k, s)
      <4>1. FinSeg(p, g_conn, toClient, k, s) /\ ~Closed(g_conn)
        BY <1>1, <1>2, <3>1 DEF FromServer, Closed
      <4> QED  BY <2>2, <4>1 DEF FinSeg
    <3> QED  BY <1>2, <2>2, <3>1 DEF FromServer
  <2>4. Received(p, d, toClient, k)
    <3>1. ~Closed(g_conn)
        BY <1>1 DEF Closed
    <3> QED  BY <1>2, <2>2, <3>1 DEF Received
  <2>5. Window(p, d, k)
    BY <1>0, <1>2, <2>2 DEF Window
  <2>6. Answering(p, d, toClient, g_reqlen)
    <3>1. Answering(p, g_conn, toClient, g_reqlen) /\ 0 # p
        BY <1>0, <1>4 DEF SlotOk
    <3> QED  BY <2>2, <3>1 DEF Answering
  <2>7. SlotOk(p, d, toClient, k, sv, g_reqlen)
    BY <1>0, <1>4, <2>2, <2>3, <2>4, <2>5, <2>6 DEF SlotOk
  <2> QED  BY <2>1, <2>7 DEF d
<1>6. CASE ~(g_conn.snd_retries + 1 > RETRIES)
  <2> DEFINE c == [g_conn EXCEPT !.snd_retries = @ + 1, !.snd_nxt = g_conn.snd_una]
             r == Tcp(p, f)!tcp_pump(c, 0, c.snd_len + 1)
  <2>1. g_conn' = r.conn /\ \E kept \in SUBSET r.out : toClient' = toClient \cup kept
    BY Zenon, <1>6 DEF Tcp!tcp_retransmit_tick, Tcp!Carry
  <2>2. /\ Back(p, c, g_conn) /\ c.snd_nxt = g_conn.snd_una
    <3>1. g_conn.snd_retries + 1 \in Nat
        BY <1>0
    <3>2. /\ c \in Conn(p) /\ c.state = g_conn.state /\ c.peer = g_conn.peer /\ c.my_seq = g_conn.my_seq
          /\ c.peer_seq = g_conn.peer_seq /\ c.snd_len = g_conn.snd_len /\ c.snd_una = g_conn.snd_una
          /\ c.snd_seq0 = g_conn.snd_seq0 /\ c.snd_fin_pending = g_conn.snd_fin_pending
          /\ c.peer_fin = g_conn.peer_fin /\ c.snd_nxt = g_conn.snd_una
        BY Zenon, <1>0, <3>1 DEF Conn
    <3> HIDE DEF c
    <3> QED  BY <3>2 DEF Back
  <2> HIDE DEF c
  <2>3. Sendable(p, c)
    <3>1. g_conn.snd_seq0 = Base
        BY <1>4 DEF SlotOk, Answering
    <3> QED  BY <1>2, <1>3, <2>2, <3>1 DEF Back, Sendable, Window
  <2>4. PICK m \in Nat : m = c.snd_len + 1
    BY <1>0, <1>3, <2>2 DEF Back
  <2>5. c.snd_nxt <= m /\ m > c.snd_len /\ c.snd_len = p
    BY <1>0, <1>3, <2>2, <2>4 DEF Back
  <2>6. PICK to \in Nat :
             /\ c.snd_nxt <= to /\ to <= c.snd_len /\ to <= m
             /\ to <= c.snd_nxt \/ to <= c.snd_una + INFLIGHT
             /\ 0 = 0 /\ m > c.snd_len /\ c.state \in {"ESTABLISHED", "FIN_WAIT_1"}
                  => to = c.snd_len \/ to >= c.snd_una + INFLIGHT
             /\ Pumped(c, Tcp(p, f)!tcp_pump(c, 0, m), m, to)
    BY <2>3, <2>5, PumpIs
  <2>7. Pumped(c, r, m, to)
    BY <2>4, <2>6
  <2>8. /\ c.state = g_conn.state /\ c.snd_una = g_conn.snd_una /\ c.snd_len = g_conn.snd_len
    BY <2>2 DEF Back
  <2>9. to = p \/ to >= g_conn.snd_una + INFLIGHT
    BY <1>1, <2>5, <2>6, <2>8
  <2>10. g_conn.snd_nxt <= p /\ g_conn.snd_nxt <= g_conn.snd_una + INFLIGHT
    BY <1>2, <1>3 DEF Window
  <2>11. g_conn.snd_nxt <= to /\ to <= g_conn.snd_len
    BY <1>0, <2>6, <2>8, <2>9, <2>10
  <2>12. to <= g_conn.snd_nxt \/ to <= g_conn.snd_una + INFLIGHT
    BY <1>0, <2>2, <2>6, <2>8
  <2> HIDE DEF r
  <2>13. SlotOk(p, r.conn, toClient \cup r.out, k, sv, g_reqlen)
    BY Zenon, <1>1, <2>2, <2>7, <2>11, <2>12, PumpOk
  <2>14. toClient' \in SUBSET (toClient \cup r.out)
    BY <2>1
  <2>15. SlotOk(p, r.conn, toClient', k, sv, g_reqlen)
    BY <2>13, <2>14, Fewer
  <2> QED  BY <2>1, <2>15
<1> QED  BY <1>5, <1>6

\* A SYN takes the free slot (OnListen).
LEMMA AcceptOk ==
    ASSUME NEW p, NEW f, TcpHyp(p), g_conn \in Conn(p), g_reqlen \in Nat, g_isn_seed = ISN,
           served \in [{"a"} -> {0, 1}], client \in [{"a"} -> Host], NoConn,
           NEW s, Arriving(client["a"], s), NEW n, Tcp(p, f)!tcp_handle_packet(s, n)
    PROVE  /\ g_isn_seed' \in {ISN, ISN + ISNStep} /\ served' = served /\ g_reqlen' \in Nat
           /\ g_conn' \in Conn(p)
           /\ g_isn_seed' = ISN => g_conn' = g_conn /\ toClient' = {}
           /\ g_isn_seed' # ISN => SlotOk(p, g_conn', toClient', client["a"], 0, g_reqlen')
<1> DEFINE k == client["a"]
           c == g_conn
           l == Tcp(p, f)!OnListen(c, s)
<1>0. /\ ISN \in Nat /\ ISNStep \in Nat \ {0} /\ p \in Nat \ {0} /\ CBase \in Nat /\ ReqLen \in Nat \ {0}
      /\ ClientISN \in Nat /\ INFLIGHT \in Nat \ {0} /\ Base \in Nat
    BY TcpNumbers DEF TcpHyp, CBase, Base
<1>1. /\ s \in ToServer /\ s.who = "a" /\ "ACK" \notin s.flags
      /\ "SYN" \in s.flags => s.seq = ClientISN
    BY DEF Arriving, FromClient, ToServer, NoConn
<1>2. Tcp(p, f)!AfterAck(s, n) = [conn |-> c, out |-> {}]
    BY <1>1 DEF Tcp!AfterAck
<1>3. /\ g_conn' = l.conn /\ g_isn_seed' = l.isn /\ served' = served
      /\ g_reqlen' = IF l.conn.state \in {"SYN_RCVD"} THEN 0 ELSE g_reqlen
      /\ \E kept \in SUBSET ({} \cup l.out) : toClient' = toClient \cup kept
    BY <1>2 DEF Tcp!tcp_handle_packet, Tcp!Carry, NoConn
<1>4. CASE "SYN" \notin s.flags
  <2>1. l = [conn |-> c, out |-> {}, isn |-> g_isn_seed]
    BY <1>4 DEF Tcp!OnListen
  <2>2. l.conn = c /\ l.out = {} /\ l.isn = ISN
    BY <2>1
  <2> HIDE DEF l
  <2>3. toClient' = {}
    BY <1>3, <2>2 DEF NoConn
  <2> QED  BY <1>3, <2>2, <2>3
<1>5. CASE "SYN" \in s.flags
  <2> DEFINE c1 == [state |-> "SYN_RCVD", peer |-> s.who, my_seq |-> g_isn_seed,
                    peer_seq |-> s.seq + 1, snd_len |-> 0, snd_una |-> 0, snd_nxt |-> 0,
                    snd_seq0 |-> c.snd_seq0, snd_retries |-> 0, snd_fin_pending |-> FALSE,
                    peer_fin |-> FALSE, fin_acked |-> FALSE]
             d == [c1 EXCEPT !.my_seq = @ + 1]
             F == Tcp(p, f)!tcp_send(c1, {"SYN", "ACK"}, 0)
  <2>1. l.conn = d /\ l.isn = ISN + ISNStep /\ l.out = F
    BY <1>5 DEF Tcp!OnListen
  <2>2. /\ d \in Conn(p) /\ d.state = "SYN_RCVD" /\ d.peer = "a" /\ d.my_seq = Base /\ d.peer_seq = CBase
        /\ d.snd_len = 0 /\ d.snd_una = 0 /\ d.snd_nxt = 0 /\ ~d.snd_fin_pending
    <3>1. s.seq + 1 = CBase /\ g_isn_seed + 1 = Base /\ c.snd_seq0 \in Nat
        BY <1>0, <1>1, <1>5 DEF CBase, Base, Conn
    <3>2. /\ c1 \in Conn(p) /\ c1.state = "SYN_RCVD" /\ c1.peer = "a" /\ c1.my_seq = g_isn_seed
          /\ c1.peer_seq = CBase /\ c1.snd_len = 0 /\ c1.snd_una = 0 /\ c1.snd_nxt = 0
          /\ ~c1.snd_fin_pending
        BY <1>0, <1>1, <3>1 DEF Conn
    <3>3. d = [c1 EXCEPT !.my_seq = Base]
        BY Zenon, <3>1, <3>2
    <3> HIDE DEF d, c1
    <3> QED  BY <1>0, <3>2, <3>3 DEF Conn
  <2>3. \A t \in F : t = [who |-> "a", seq |-> ISN, ack |-> CBase, flags |-> {"SYN", "ACK"}, data |-> 0]
    <3>1. s.seq + 1 = CBase
        BY <1>0, <1>1, <1>5 DEF CBase
    <3>2. ISN % Modulus = ISN /\ CBase % Modulus = CBase
      <4>1. ISN < Modulus /\ CBase < Modulus
        BY <1>0, TcpNumbers DEF TcpHyp, CBase
      <4> QED  BY <1>0, <4>1, NoWrap
    <3>3. c1.peer = "a" /\ c1.my_seq = ISN /\ c1.peer_seq = CBase
        BY <1>1, <3>1
    <3> HIDE DEF c1
    <3> QED  BY <3>2, <3>3 DEF Tcp!tcp_send, Tcp!Seg, Tcp!Wire
  <2> HIDE DEF d, F, l
  <2>4. toClient' \subseteq F
    BY <1>3, <2>1 DEF NoConn
  <2>5. FromServer(p, d, toClient', k, 0)
    <3>1. ASSUME NEW t \in F
          PROVE  /\ t \in ToClient /\ CBase <= t.ack /\ t.ack <= d.peer_seq /\ t.seq = ISN
                 /\ t.data = 0 /\ "FIN" \notin t.flags
      <4>1. t = [who |-> "a", seq |-> ISN, ack |-> CBase, flags |-> {"SYN", "ACK"}, data |-> 0]
        BY <2>3
      <4>2. CBase <= CBase /\ d.peer_seq = CBase
        BY <1>0, <2>2
      <4> QED  BY <1>0, <4>1, <4>2 DEF ToClient, Flag
    <3> QED  BY <2>4, <3>1 DEF FromServer
  <2>6. Received(p, d, toClient', k)
    BY <1>0 DEF NoConn, Received
  <2>7. Window(p, d, k)
    <3>1. CBase \in CBase .. CBase + ReqLen + 1 /\ 0 <= CBase - CBase /\ Len(k.got) = 0
        BY <1>0 DEF NoConn
    <3>2. k.una <= d.peer_seq - CBase /\ d.snd_nxt <= d.snd_una + INFLIGHT
        BY <1>0, <2>2, <3>1 DEF NoConn
    <3> QED  BY <2>2, <3>1, <3>2 DEF Window
  <2>8. Gathering(d, k, 0)
    <3>1. CBase < CBase + ReqLen
        BY <1>0
    <3> QED  BY <2>2, <3>1 DEF NoConn, Gathering
  <2>9. SlotOk(p, d, toClient', k, 0, 0)
    BY <2>2, <2>5, <2>6, <2>7, <2>8 DEF SlotOk
  <2>10. g_conn' = d /\ g_reqlen' = 0 /\ g_isn_seed' = ISN + ISNStep
    BY <1>3, <2>1, <2>2
  <2>11. ISN + ISNStep # ISN
    BY <1>0
  <2> QED  BY <1>3, <2>2, <2>9, <2>10, <2>11
<1> QED  BY <1>4, <1>5

\* What a client may send is what FromClient allows.
LEMMA SendOk ==
    ASSUME NEW p, NEW f, client \in [{"a"} -> Host], client["a"].rcv < Modulus,
           client["a"].st = "fin" => client["a"].una = ReqLen,
           NEW s \in Tcp(p, f)!ClientSeg("a"), NEW w \in {0, 1},
           NEW t, t = [who |-> s.who, seq |-> s.seq, ack |-> s.ack, flags |-> s.flags, data |-> s.data, win |-> w]
    PROVE  /\ t \in ToServer /\ "RST" \notin t.flags
           /\ "SYN" \in t.flags => t.flags = {"SYN"} /\ t.data = 0 /\ t.seq = ClientISN
           /\ "ACK" \in t.flags => t.ack <= client["a"].rcv /\ client["a"].st \notin {"new", "syn"}
           /\ "FIN" \in t.flags => t.data = 0 /\ t.seq = CBase + ReqLen /\ client["a"].una = ReqLen
           /\ t.data = 1 => t.flags = {"ACK"} /\ t.seq \in CBase .. CBase + ReqLen - 1
<1> DEFINE k == client["a"]
           W(m) == m % Modulus
           sent == IF k.st = "fin" THEN ReqLen + 2 ELSE k.una + 1
<1>0. /\ ClientISN \in Nat /\ ReqLen \in Nat \ {0} /\ Modulus \in Nat \ {0} /\ ClientISN + ReqLen + 2 < Modulus
      /\ CBase \in Nat /\ k \in Host /\ k.una \in Nat /\ k.rcv \in Nat
      /\ k.st \in {"new", "syn", "est", "fin", "gone"}
    BY TcpNumbers DEF CBase, Host
<1>1. \A i \in 0 .. ReqLen + 2 : W(ClientISN + i) = ClientISN + i
  <2>1. ASSUME NEW i \in 0 .. ReqLen + 2 PROVE ClientISN + i \in Nat /\ ClientISN + i < Modulus
    BY <1>0
  <2> QED  BY <2>1, NoWrap
<1>2. W(k.rcv) = k.rcv /\ \A m \in Nat : W(m) \in Nat
    BY <1>0, NoWrap
<1>3. CASE k.st \in {"new", "syn"}
  <2>1. Tcp(p, f)!ClientSeg("a") = {[who |-> "a", seq |-> W(ClientISN + 0), ack |-> 0, flags |-> {"SYN"}, data |-> 0]}
    BY <1>3 DEF Tcp!ClientSeg, Tcp!Seg, Tcp!Wire
  <2>2. W(ClientISN + 0) = ClientISN
    BY <1>0, <1>1
  <2> HIDE DEF W
  <2>3. s = [who |-> "a", seq |-> ClientISN, ack |-> 0, flags |-> {"SYN"}, data |-> 0]
    BY <2>1, <2>2
  <2>4. t = [who |-> "a", seq |-> ClientISN, ack |-> 0, flags |-> {"SYN"}, data |-> 0, win |-> w]
    BY <2>3
  <2> QED  BY <1>0, <2>4 DEF ToServer, Flag
<1>4. CASE k.st = "est"
  <2>1. \/ \E i \in k.una .. ReqLen - 1 :
              s = [who |-> "a", seq |-> W(ClientISN + (1 + i)), ack |-> W(k.rcv), flags |-> {"ACK"}, data |-> 1]
        \/ s = [who |-> "a", seq |-> W(ClientISN + sent), ack |-> W(k.rcv), flags |-> {"ACK"}, data |-> 0]
    BY <1>4 DEF Tcp!ClientSeg, Tcp!Seg, Tcp!Wire
  <2>2. CASE \E i \in k.una .. ReqLen - 1 :
              s = [who |-> "a", seq |-> W(ClientISN + (1 + i)), ack |-> W(k.rcv), flags |-> {"ACK"}, data |-> 1]
    <3>1. PICK i \in k.una .. ReqLen - 1 :
              s = [who |-> "a", seq |-> W(ClientISN + (1 + i)), ack |-> W(k.rcv), flags |-> {"ACK"}, data |-> 1]
        BY Zenon, <2>2
    <3>2. 1 + i \in 0 .. ReqLen + 2 /\ ClientISN + (1 + i) \in CBase .. CBase + ReqLen - 1
          /\ ClientISN + (1 + i) \in Nat
        BY <1>0 DEF CBase
    <3> DEFINE m == ClientISN + (1 + i)
    <3>3. W(m) = m
        BY <1>1, <3>2
    <3> HIDE DEF W, m
    <3>4. t = [who |-> "a", seq |-> m, ack |-> k.rcv, flags |-> {"ACK"}, data |-> 1, win |-> w]
        BY Zenon, <1>2, <3>1, <3>3 DEF m
    <3>5. m \in Nat /\ m \in CBase .. CBase + ReqLen - 1
        BY <3>2 DEF m
    <3> QED  BY <1>0, <1>4, <3>4, <3>5 DEF ToServer, Flag
  <2>3. CASE s = [who |-> "a", seq |-> W(ClientISN + sent), ack |-> W(k.rcv), flags |-> {"ACK"}, data |-> 0]
    <3>1. ClientISN + sent \in Nat
        BY <1>0
    <3>2. W(ClientISN + sent) \in Nat
        BY <1>2, <3>1
    <3> DEFINE m == W(ClientISN + sent)
    <3> HIDE DEF W, m
    <3>3. t = [who |-> "a", seq |-> m, ack |-> k.rcv, flags |-> {"ACK"}, data |-> 0, win |-> w]
        BY <1>2, <2>3 DEF m
    <3> QED  BY <1>0, <1>4, <3>2, <3>3 DEF ToServer, Flag, m
  <2> QED  BY <2>1, <2>2, <2>3
<1>5. CASE k.st = "fin"
  <2>1. \/ s = [who |-> "a", seq |-> W(ClientISN + (ReqLen + 1)), ack |-> W(k.rcv), flags |-> {"FIN", "ACK"}, data |-> 0]
        \/ s = [who |-> "a", seq |-> W(ClientISN + (ReqLen + 2)), ack |-> W(k.rcv), flags |-> {"ACK"}, data |-> 0]
    BY <1>5 DEF Tcp!ClientSeg, Tcp!Seg, Tcp!Wire
  <2>2. /\ W(ClientISN + (ReqLen + 1)) = CBase + ReqLen /\ W(ClientISN + (ReqLen + 2)) = CBase + ReqLen + 1
        /\ CBase + ReqLen \in Nat /\ CBase + ReqLen + 1 \in Nat
    <3>1. ReqLen + 1 \in 0 .. ReqLen + 2 /\ ReqLen + 2 \in 0 .. ReqLen + 2
        BY <1>0
    <3>2. W(ClientISN + (ReqLen + 1)) = ClientISN + (ReqLen + 1) /\ W(ClientISN + (ReqLen + 2)) = ClientISN + (ReqLen + 2)
        BY <1>1, <3>1
    <3> HIDE DEF W
    <3> QED  BY <1>0, <3>2 DEF CBase
  <2> DEFINE a1 == CBase + ReqLen
             a2 == CBase + ReqLen + 1
             b1 == W(ClientISN + (ReqLen + 1))
             b2 == W(ClientISN + (ReqLen + 2))
             r == W(k.rcv)
  <2>b. b1 = a1 /\ b2 = a2 /\ r = k.rcv
    BY <1>2, <2>2
  <2>c. \/ s = [who |-> "a", seq |-> b1, ack |-> r, flags |-> {"FIN", "ACK"}, data |-> 0]
        \/ s = [who |-> "a", seq |-> b2, ack |-> r, flags |-> {"ACK"}, data |-> 0]
    BY <2>1
  <2>3. \/ t = [who |-> "a", seq |-> a1, ack |-> k.rcv, flags |-> {"FIN", "ACK"}, data |-> 0, win |-> w]
        \/ t = [who |-> "a", seq |-> a2, ack |-> k.rcv, flags |-> {"ACK"}, data |-> 0, win |-> w]
    <3> HIDE DEF W, a1, a2, b1, b2, r
    <3>1. \/ s = [who |-> "a", seq |-> a1, ack |-> k.rcv, flags |-> {"FIN", "ACK"}, data |-> 0]
          \/ s = [who |-> "a", seq |-> a2, ack |-> k.rcv, flags |-> {"ACK"}, data |-> 0]
        BY <2>b, <2>c
    <3>2. CASE s = [who |-> "a", seq |-> a1, ack |-> k.rcv, flags |-> {"FIN", "ACK"}, data |-> 0]
        BY <3>2
    <3>3. CASE s = [who |-> "a", seq |-> a2, ack |-> k.rcv, flags |-> {"ACK"}, data |-> 0]
        BY <3>3
    <3> QED  BY <3>1, <3>2, <3>3
  <2> HIDE DEF W
  <2>4. a1 \in Nat /\ a2 \in Nat /\ k.rcv <= k.rcv
    BY <1>0
  <2>5. CASE t = [who |-> "a", seq |-> a1, ack |-> k.rcv, flags |-> {"FIN", "ACK"}, data |-> 0, win |-> w]
    <3> HIDE DEF a1
    <3>1. t.seq = a1 /\ t.ack = k.rcv /\ t.flags = {"FIN", "ACK"} /\ t.data = 0 /\ t \in ToServer
        BY <1>0, <2>4, <2>5 DEF ToServer, Flag
    <3> QED  BY <1>5, <2>4, <3>1 DEF a1
  <2>6. CASE t = [who |-> "a", seq |-> a2, ack |-> k.rcv, flags |-> {"ACK"}, data |-> 0, win |-> w]
    <3> HIDE DEF a2
    <3>1. t.ack = k.rcv /\ t.flags = {"ACK"} /\ t.data = 0 /\ t \in ToServer
        BY <1>0, <2>4, <2>6 DEF ToServer, Flag
    <3> QED  BY <1>5, <2>4, <3>1
  <2> QED  BY <2>3, <2>5, <2>6
<1>6. CASE k.st = "gone"
  <2>1. Tcp(p, f)!ClientSeg("a") = {}
    BY <1>6 DEF Tcp!ClientSeg
  <2> QED  BY <2>1
<1> QED  BY <1>0, <1>3, <1>4, <1>5, <1>6

\* A client that only changes its state keeps what was received and sent.
LEMMA StOk ==
    ASSUME NEW p, NEW c, NEW T, NEW k, NEW sv, NEW rq, SlotOk(p, c, T, k, sv, rq),
           NEW k2 \in Host, k2.una = k.una, k2.rcv = k.rcv, k2.got = k.got, k2.fin = k.fin,
           k2.st \in {"new", "syn"} <=> k.st \in {"new", "syn"},
           k2.st = "fin" => k2.una = ReqLen
    PROVE  SlotOk(p, c, T, k2, sv, rq)
<1>1. FromServer(p, c, T, k2, sv)
    BY DEF SlotOk, FromServer, FinSeg
<1>2. Received(p, c, T, k2)
    BY DEF SlotOk, Received
<1>3. Window(p, c, k2)
    BY DEF SlotOk, Window
<1>4. sv = 0 => Gathering(c, k2, rq)
    BY DEF SlotOk, Gathering
<1> QED  BY <1>1, <1>2, <1>3, <1>4 DEF SlotOk

LEMMA SentOk ==
    ASSUME NEW k, NEW S, FromClient(k, S), NEW k2, k.rcv \in Nat, k2.rcv \in Nat, k.rcv <= k2.rcv,
           k.una = ReqLen => k2.una = ReqLen,
           k.st \notin {"new", "syn"} => k2.st \notin {"new", "syn"}
    PROVE  FromClient(k2, S)
<1>1. ASSUME NEW s \in S, "ACK" \in s.flags PROVE s.ack <= k2.rcv
  <2>1. s.ack \in Nat /\ s.ack <= k.rcv
    BY <1>1 DEF FromClient, ToServer
  <2> QED  BY <2>1
<1> QED  BY <1>1 DEF FromClient

\* The numbers of the client on the wire.
LEMMA RcvOk ==
    ASSUME NEW p, TcpHyp(p), NEW c, NEW T, NEW k, NEW sv, NEW rq, SlotOk(p, c, T, k, sv, rq)
    PROVE  k.rcv \in Nat /\ k.rcv <= Base + p + 1 /\ k.rcv < Modulus
<1>0. ISN \in Nat /\ Modulus \in Nat \ {0} /\ p \in Nat \ {0} /\ ISN + p + 2 < Modulus /\ Base = ISN + 1 /\ Base \in Nat
    BY TcpNumbers DEF TcpHyp, Base
<1>1. k \in Host /\ Received(p, c, T, k) /\ k.rcv \in Nat /\ Len(k.got) \in Nat
    BY DEF SlotOk, Host
<1>2. CASE k.st \in {"new", "syn"}
  <2>1. k.rcv = 0
    BY <1>1, <1>2 DEF Received
  <2> QED  BY <1>0, <1>1, <2>1
<1>3. CASE k.st \notin {"new", "syn"}
  <2>1. Len(k.got) <= p /\ k.rcv = Base + Len(k.got) + (IF k.fin THEN 1 ELSE 0)
    BY <1>1, <1>3 DEF Received
  <2>2. PICK l \in Nat, e \in {0, 1} : l = Len(k.got) /\ e = IF k.fin THEN 1 ELSE 0
    BY <1>1
  <2>3. l <= p /\ k.rcv = Base + l + e
    BY <2>1, <2>2
  <2>4. PICK b \in Nat : b = Base
    BY <1>0
  <2>5. b + l + e \in Nat /\ b + l + e <= b + p + 1
    <3>1. CASE e = 0
        BY <1>0, <2>3, <3>1
    <3>2. CASE e = 1
        BY <1>0, <2>3, <3>2
    <3> QED  BY <3>1, <3>2
  <2>6. b + p + 1 < Modulus
    BY <1>0, <2>4
  <2>7. b + l + e < Modulus
    BY <2>5, <2>6, TcpNumbers DEF TcpHyp
  <2> QED  BY <2>3, <2>4, <2>5, <2>7
<1> QED  BY <1>2, <1>3

\* The SYN-ACK opens the client's side.
LEMMA SynAckOk ==
    ASSUME NEW p, TcpHyp(p), NEW c, NEW T, NEW k, NEW sv, NEW rq, SlotOk(p, c, T, k, sv, rq),
           k.st = "syn", NEW k2 \in Host, k2.st = "est", k2.rcv = Base, k2.una = k.una,
           k2.got = k.got, k2.fin = k.fin
    PROVE  SlotOk(p, c, T, k2, sv, rq)
<1>0. ISN \in Nat /\ p \in Nat \ {0} /\ Base \in Nat /\ k \in Host
    BY TcpNumbers DEF TcpHyp, Base, SlotOk
<1>3. k.got = << >> /\ k.rcv = 0 /\ ~k.fin /\ k.una = 0
    BY DEF SlotOk, Received
<1>5. FromServer(p, c, T, k2, sv)
    BY <1>3 DEF SlotOk, FromServer, FinSeg
<1>6. Received(p, c, T, k2)
  <2>1. Len(k2.got) = 0 /\ Base = Base + 0 + 0
    BY <1>0, <1>3
  <2> QED  BY <1>0, <1>3, <2>1 DEF Received
<1>7. Window(p, c, k2)
    BY <1>3 DEF SlotOk, Window
<1>8. sv = 0 => Gathering(c, k2, rq)
    BY <1>3 DEF SlotOk, Gathering
<1> QED  BY <1>3, <1>5, <1>6, <1>7, <1>8 DEF SlotOk

\* What an acknowledgement of the server says to the client.
LEMMA AckedOk ==
    ASSUME NEW p, NEW c, NEW T, NEW k, NEW sv, NEW rq, SlotOk(p, c, T, k, sv, rq), NEW s \in T,
           NEW u, u = IF (s.ack - ClientISN - 1) % Modulus <= ReqLen /\ (s.ack - ClientISN - 1) % Modulus > k.una
                      THEN (s.ack - ClientISN - 1) % Modulus ELSE k.una
    PROVE  /\ u \in Nat /\ u <= c.peer_seq - CBase /\ (k.una = ReqLen => u = ReqLen)
<1>0. /\ ClientISN \in Nat /\ ReqLen \in Nat /\ Modulus \in Nat \ {0} /\ ClientISN + ReqLen + 2 < Modulus
      /\ c.peer_seq \in CBase .. CBase + ReqLen + 1 /\ s.ack \in Nat /\ CBase <= s.ack /\ s.ack <= c.peer_seq
      /\ k.una \in Nat /\ k.una <= c.peer_seq - CBase /\ CBase = ClientISN + 1
    BY TcpNumbers DEF SlotOk, Window, FromServer, ToClient, Host, CBase
<1>1. PICK a \in Nat : a = s.ack - ClientISN - 1
    BY <1>0
<1>2. a < Modulus /\ a <= c.peer_seq - CBase
    BY <1>0, <1>1
<1>3. a % Modulus = a
    BY <1>2, NoWrap
<1>4. u = IF a <= ReqLen /\ a > k.una THEN a ELSE k.una
    BY <1>1, <1>3
<1> QED  BY <1>0, <1>1, <1>2, <1>4

\* A segment that is not the next one only acknowledges.
LEMMA StaleOk ==
    ASSUME NEW p, NEW c, NEW T, NEW k, NEW sv, NEW rq, SlotOk(p, c, T, k, sv, rq),
           NEW u \in Nat, u <= c.peer_seq - CBase, k.una = ReqLen => u = ReqLen,
           k.st \notin {"new", "syn"},
           NEW k2 \in Host, k2.st = k.st, k2.una = u, k2.got = k.got, k2.fin = k.fin, k2.rcv = k.rcv
    PROVE  SlotOk(p, c, T, k2, sv, rq)
<1>1. FromServer(p, c, T, k2, sv)
    BY DEF SlotOk, FromServer, FinSeg
<1>2. Received(p, c, T, k2)
    BY DEF SlotOk, Received
<1>3. Window(p, c, k2)
    BY DEF SlotOk, Window
<1>4. sv = 0 => Gathering(c, k2, rq)
    BY DEF SlotOk, Gathering
<1> QED  BY <1>1, <1>2, <1>3, <1>4 DEF SlotOk

\* The next segment of the response is the next for the client too.
LEMMA NextSegment ==
    ASSUME NEW p, TcpHyp(p), NEW c, NEW T, NEW k, NEW sv, NEW rq, SlotOk(p, c, T, k, sv, rq),
           NEW s \in T, s.data > 0, s.seq = k.rcv, k.st \notin {"new", "syn"}
    PROVE  /\ ~k.fin /\ s.data = Len(k.got) + 1 /\ s.data <= p /\ sv = 1 /\ "FIN" \notin s.flags
           /\ k.rcv = Base + Len(k.got)
<1>0. /\ ISN \in Nat /\ p \in Nat \ {0} /\ Base = ISN + 1 /\ Base \in Nat /\ k \in Host /\ Len(k.got) \in Nat
      /\ Received(p, c, T, k) /\ FromServer(p, c, T, k, sv) /\ s \in ToClient /\ s.data \in Nat
    BY TcpNumbers DEF TcpHyp, Base, SlotOk, Host, FromServer, ToClient
<1>1. s.data <= p /\ s.seq = ISN + s.data /\ "FIN" \notin s.flags /\ sv = 1
    BY <1>0 DEF FromServer
<1>2. k.rcv = Base + Len(k.got) + (IF k.fin THEN 1 ELSE 0)
    BY Zenon, <1>0 DEF Received
<1>3. ~k.fin
  <2> SUFFICES ASSUME k.fin PROVE FALSE
    OBVIOUS
  <2>1. k.rcv = Base + Len(k.got) + 1
    BY <1>2
  <2>2. CASE Len(k.got) = p
    <3>1. ISN + s.data = Base + p + 1
        BY Zenon, <1>1, <2>1, <2>2
    <3>2. PICK d \in Nat : d = s.data
        BY <1>0
    <3> QED  BY <1>0, <1>1, <3>1, <3>2
  <2>3. CASE DataBelow(T, k.rcv)
    <3>1. s.seq < k.rcv
        BY <2>3 DEF DataBelow
    <3>2. k.rcv \in Nat
        BY <1>0 DEF Host
    <3> QED  BY <3>1, <3>2
  <2> QED  BY <1>0, <2>2, <2>3 DEF Received
<1>4. k.rcv = Base + Len(k.got)
    BY <1>0, <1>2, <1>3
<1>5. PICK d \in Nat, l \in Nat : d = s.data /\ l = Len(k.got)
    BY <1>0
<1>6. ISN + d = Base + l
    BY Zenon, <1>1, <1>4, <1>5
<1>7. d = l + 1
    BY <1>0, <1>6
<1> QED  BY Zenon, <1>1, <1>3, <1>4, <1>5, <1>7

LEMMA TakeDataOk ==
    ASSUME NEW p, TcpHyp(p), NEW c, NEW T, NEW k, NEW sv, NEW rq, SlotOk(p, c, T, k, sv, rq),
           NEW s \in T, s.data > 0, s.seq = k.rcv, k.st \notin {"new", "syn"},
           NEW u \in Nat, u <= c.peer_seq - CBase, k.una = ReqLen => u = ReqLen,
           NEW k2 \in Host, k2.st = k.st, k2.una = u, k2.got = Append(k.got, s.data),
           k2.fin = k.fin, k2.rcv = k.rcv + 1
    PROVE  SlotOk(p, c, T, k2, sv, rq)
<1>0. /\ ISN \in Nat /\ p \in Nat \ {0} /\ Base = ISN + 1 /\ Base \in Nat /\ k \in Host /\ k.got \in Seq(Nat)
      /\ Len(k.got) \in Nat /\ Received(p, c, T, k) /\ FromServer(p, c, T, k, sv) /\ s.data \in Nat
      /\ Window(p, c, k) /\ c.snd_una \in Nat
  <2>1. ISN \in Nat /\ p \in Nat \ {0} /\ Base = ISN + 1 /\ Base \in Nat
    BY TcpNumbers DEF TcpHyp, Base
  <2>2. /\ k \in Host /\ Received(p, c, T, k) /\ FromServer(p, c, T, k, sv) /\ Window(p, c, k)
        /\ c.snd_una \in Nat
    BY DEF SlotOk, Conn
  <2>3. k.got \in Seq(Nat) /\ Len(k.got) \in Nat
    BY <2>2 DEF Host
  <2>4. s.data \in Nat
    BY <2>2 DEF FromServer, ToClient
  <2> QED  BY <2>1, <2>2, <2>3, <2>4
<1>1. /\ ~k.fin /\ s.data = Len(k.got) + 1 /\ s.data <= p /\ sv = 1 /\ k.rcv = Base + Len(k.got)
    BY NextSegment
<1>2. Len(k2.got) = Len(k.got) + 1 /\ \A i \in 1 .. Len(k2.got) : k2.got[i] = i
  <2>1. Len(k2.got) = Len(k.got) + 1
    BY <1>0
  <2>2. \A i \in 1 .. Len(k.got) : k.got[i] = i
    BY <1>0 DEF Received
  <2>3. ASSUME NEW i \in 1 .. Len(k.got) + 1 PROVE k2.got[i] = i
    <3>1. CASE i = Len(k.got) + 1
      <4>1. Append(k.got, s.data)[Len(k.got) + 1] = s.data
        BY <1>0
      <4> QED  BY <1>1, <3>1, <4>1
    <3>2. CASE i \in 1 .. Len(k.got)
      <4>1. Append(k.got, s.data)[i] = k.got[i]
        BY <1>0, <3>2
      <4> QED  BY <2>2, <3>2, <4>1
    <3> QED  BY <1>0, <3>1, <3>2
  <2> QED  BY <2>1, <2>3
<1>3. FromServer(p, c, T, k2, sv)
    BY <1>0, <1>1 DEF FromServer, FinSeg
<1>4. Received(p, c, T, k2)
  <2>1. k2.rcv = Base + Len(k2.got) + 0 /\ Len(k2.got) <= p
    BY <1>0, <1>1, <1>2
  <2>2. k2.st = "fin" => k2.una = ReqLen
    BY <1>0 DEF Received
  <2> QED  BY <1>1, <1>2, <2>1, <2>2 DEF Received
<1>5. Window(p, c, k2)
  <2>1. c.snd_una <= Len(k2.got)
    BY <1>0, <1>2 DEF Window
  <2> QED  BY <1>0, <2>1 DEF Window
<1> QED  BY <1>1, <1>3, <1>4, <1>5 DEF SlotOk

\* The FIN of the server follows everything it sent.
LEMMA TakeFinOk ==
    ASSUME NEW p, TcpHyp(p), NEW c, NEW T, NEW k, NEW sv, NEW rq, SlotOk(p, c, T, k, sv, rq),
           NEW s \in T, "FIN" \in s.flags, s.seq = k.rcv, k.st \notin {"new", "syn"},
           NEW u \in Nat, u <= c.peer_seq - CBase, k.una = ReqLen => u = ReqLen,
           NEW k2 \in Host, k2.st = k.st, k2.una = u, k2.got = k.got,
           k2.fin = TRUE, k2.rcv = k.rcv + 1
    PROVE  SlotOk(p, c, T \ {s}, k2, sv, rq)
<1> DEFINE T2 == T \ {s}
<1>0. /\ ISN \in Nat /\ p \in Nat \ {0} /\ Base = ISN + 1 /\ Base \in Nat /\ k \in Host
      /\ Len(k.got) \in Nat /\ Received(p, c, T, k) /\ FromServer(p, c, T, k, sv) /\ s.seq \in Nat
      /\ Window(p, c, k) /\ c.snd_una \in Nat
    BY TcpNumbers, SMTT(30) DEF TcpHyp, Base, SlotOk, Host, FromServer, ToClient, Conn
<1>1. FinSeg(p, c, T, k, s) /\ sv = 1
    BY <1>0 DEF FromServer
<1>2. k.rcv = Base + Len(k.got) /\ ~k.fin
    BY <1>0, <1>1 DEF Received, FinSeg
<1>3. \A g \in T2 : "FIN" \notin g.flags
    BY <1>1 DEF FinSeg
<1>4. FromServer(p, c, T2, k2, sv)
    BY <1>0, <1>3 DEF FromServer
<1>5. Len(k.got) = p \/ (Closed(c) /\ c.snd_len = 0 /\ DataBelow(T2, k2.rcv))
  <2>1. CASE s.seq = Base + p
    BY <1>0, <1>2, <2>1
  <2>2. CASE Closed(c) /\ c.snd_len = 0 /\ DataBelow(T, s.seq)
    <3>1. ASSUME NEW d \in T2, d.data > 0 PROVE d.seq < k2.rcv
      <4>1. d.seq < s.seq /\ d.seq \in Nat
        BY <1>0, <2>2, <3>1 DEF DataBelow, FromServer, ToClient
      <4> QED  BY <1>0, <4>1
    <3> QED  BY <2>2, <3>1 DEF DataBelow
  <2> QED  BY <1>1, <2>1, <2>2 DEF FinSeg
<1>6. Received(p, c, T2, k2)
  <2>1. k2.rcv = Base + Len(k2.got) + 1
    BY <1>0, <1>2
  <2>2. k2.st = "fin" => k2.una = ReqLen
    BY <1>0 DEF Received
  <2> QED  BY Zenon, <1>0, <1>1, <1>5, <2>1, <2>2 DEF Received, FinSeg
<1>7. Window(p, c, k2)
    BY <1>0 DEF Window
<1>8. Answering(p, c, T2, rq)
    BY <1>1 DEF SlotOk, Answering, DataBelow
<1> QED  BY <1>1, <1>4, <1>6, <1>7, <1>8 DEF SlotOk

\* A segment arrives at the client.
LEMMA ReceiveOk ==
    ASSUME NEW p, NEW f, TcpHyp(p), client \in [{"a"} -> Host],
           SlotOk(p, g_conn, toClient, client["a"], served["a"], g_reqlen),
           FromClient(client["a"], toServer), Tcp(p, f)!ClientReceive
    PROVE  /\ client' \in [{"a"} -> Host] /\ FromClient(client'["a"], toServer)
           /\ SlotOk(p, g_conn, toClient', client'["a"], served["a"], g_reqlen)
<1> DEFINE k == client["a"]
           sv == served["a"]
           A(s) == (s.ack - ClientISN - 1) % Modulus
           K(s) == IF k.st = "syn" /\ "SYN" \in s.flags /\ s.ack = (ClientISN + 1) % Modulus
                   THEN [k EXCEPT !.st = "est", !.rcv = (s.seq + 1) % Modulus]
                   ELSE IF k.st \notin {"est", "fin"} \/ "SYN" \in s.flags THEN k
                   ELSE [k EXCEPT !.una = IF A(s) <= ReqLen /\ A(s) > @ THEN A(s) ELSE @,
                                  !.got = IF s.seq = k.rcv /\ s.data > 0 THEN Append(@, s.data) ELSE @,
                                  !.fin = @ \/ (s.seq = k.rcv /\ "FIN" \in s.flags),
                                  !.rcv = IF s.seq = k.rcv /\ (s.data > 0 \/ "FIN" \in s.flags)
                                          THEN (@ + 1) % Modulus ELSE @]
<1>1. PICK s \in toClient : toClient' = toClient \ {s} /\ client' = [client EXCEPT ![s.who] =
              IF client[s.who].st = "syn" /\ "SYN" \in s.flags /\ s.ack = (ClientISN + 1) % Modulus
              THEN [client[s.who] EXCEPT !.st = "est", !.rcv = (s.seq + 1) % Modulus]
              ELSE IF client[s.who].st \notin {"est", "fin"} \/ "SYN" \in s.flags THEN client[s.who]
              ELSE [client[s.who] EXCEPT
                      !.una = IF A(s) <= ReqLen /\ A(s) > @ THEN A(s) ELSE @,
                      !.got = IF s.seq = client[s.who].rcv /\ s.data > 0 THEN Append(@, s.data) ELSE @,
                      !.fin = @ \/ (s.seq = client[s.who].rcv /\ "FIN" \in s.flags),
                      !.rcv = IF s.seq = client[s.who].rcv /\ (s.data > 0 \/ "FIN" \in s.flags)
                              THEN (@ + 1) % Modulus ELSE @]]
    BY Zenon DEF Tcp!ClientReceive, Tcp!Wire
<1>2. s.who = "a" /\ s \in ToClient /\ k \in Host /\ s.data \in Nat
    BY DEF SlotOk, FromServer, ToClient
<1> DEFINE k2 == K(s)
<1>3. client' = [client EXCEPT !["a"] = k2]
    BY <1>1, <1>2
<1> HIDE DEF K
<1>4. client'["a"] = k2 /\ (k2 \in Host => client' \in [{"a"} -> Host])
    BY <1>3
<1>5. SUFFICES k2 \in Host /\ FromClient(k2, toServer) /\ SlotOk(p, g_conn, toClient \ {s}, k2, sv, g_reqlen)
    BY <1>1, <1>4
<1>6. ASSUME SlotOk(p, g_conn, toClient, k2, sv, g_reqlen)
      PROVE  SlotOk(p, g_conn, toClient \ {s}, k2, sv, g_reqlen)
  <2>1. toClient \ {s} \in SUBSET toClient
    OBVIOUS
  <2> HIDE DEF k2
  <2> QED  BY <1>6, <2>1, Fewer
<1>7. CASE k.st = "syn" /\ "SYN" \in s.flags /\ s.ack = (ClientISN + 1) % Modulus
  <2>1. k2 = [k EXCEPT !.st = "est", !.rcv = (s.seq + 1) % Modulus]
    BY <1>7 DEF K
  <2> HIDE DEF k2
  <2>a. s.seq + 1 = Base /\ Base \in Nat /\ Base < Modulus
    <3>1. s.seq + 1 = Base
        BY <1>7 DEF SlotOk, FromServer, Base
    <3>2. Base \in Nat /\ Base < Modulus
        BY TcpNumbers DEF TcpHyp, Base
    <3> QED  BY <3>1, <3>2
  <2>b. k2 = [k EXCEPT !.st = "est", !.rcv = Base]
    BY Zenon, <2>1, <2>a, NoWrap
  <2>c. k2 \in Host /\ k2.st = "est" /\ k2.rcv = Base /\ k2.una = k.una /\ k2.got = k.got /\ k2.fin = k.fin
    BY Zenon, <1>2, <2>a, <2>b DEF Host
  <2>2. /\ SlotOk(p, g_conn, toClient, k2, sv, g_reqlen) /\ k2 \in Host /\ k2.una = k.una
        /\ k2.st = "est" /\ k2.rcv = Base
    BY <1>7, <2>c, SynAckOk
  <2>3. k.rcv = 0 /\ Base \in Nat
    <3>1. k.rcv = 0
        BY <1>7 DEF SlotOk, Received
    <3>2. Base \in Nat
        BY TcpNumbers DEF Base
    <3> QED  BY <3>1, <3>2
  <2>4. FromClient(k2, toServer)
    <3>1. 0 <= Base
        BY <2>3
    <3> QED  BY <2>2, <2>3, <3>1, SentOk
  <2> QED  BY <1>6, <2>2, <2>4
<1>8. CASE /\ ~(k.st = "syn" /\ "SYN" \in s.flags /\ s.ack = (ClientISN + 1) % Modulus)
           /\ k.st \notin {"est", "fin"} \/ "SYN" \in s.flags
  <2>1. k2 = k
    BY <1>8 DEF K
  <2> QED  BY <1>2, <1>6, <2>1
<1>9. CASE /\ ~(k.st = "syn" /\ "SYN" \in s.flags /\ s.ack = (ClientISN + 1) % Modulus)
           /\ ~(k.st \notin {"est", "fin"} \/ "SYN" \in s.flags)
  <2> DEFINE u == IF A(s) <= ReqLen /\ A(s) > k.una THEN A(s) ELSE k.una
             g == IF s.seq = k.rcv /\ s.data > 0 THEN Append(k.got, s.data) ELSE k.got
             b == k.fin \/ (s.seq = k.rcv /\ "FIN" \in s.flags)
             r == IF s.seq = k.rcv /\ (s.data > 0 \/ "FIN" \in s.flags) THEN (k.rcv + 1) % Modulus ELSE k.rcv
  <2>1. k2 = [k EXCEPT !.una = u, !.got = g, !.fin = b, !.rcv = r]
    BY <1>2, <1>9 DEF K, Host
  <2>2. u \in Nat /\ u <= g_conn.peer_seq - CBase /\ (k.una = ReqLen => u = ReqLen)
    BY AckedOk
  <2>3. k.rcv \in Nat /\ k.rcv <= Base + p + 1 /\ k.rcv < Modulus /\ Modulus \in Nat \ {0}
    BY RcvOk, TcpNumbers
  <2>4. r \in Nat
    <3>1. (k.rcv + 1) % Modulus \in Nat
        BY <2>3
    <3> QED  BY <2>3, <3>1
  <2>5. g \in Seq(Nat) /\ b \in BOOLEAN
    BY <1>2 DEF Host
  <2>6. k.st \notin {"new", "syn"}
    BY <1>9
  <2> HIDE DEF k2, u
  <2>7. /\ k2 \in Host /\ k2.st = k.st /\ k2.una = u /\ k2.got = g /\ k2.fin = b /\ k2.rcv = r
    <3> HIDE DEF g, b, r
    <3> DEFINE x == [k EXCEPT !.una = u, !.got = g]
    <3>1. x \in Host /\ x.st = k.st /\ x.una = u /\ x.got = g
        BY Zenon, <1>2, <2>2, <2>5 DEF Host
    <3>2. k2 = [x EXCEPT !.fin = b, !.rcv = r]
        BY <2>1
    <3> HIDE DEF x
    <3> QED  BY Zenon, <2>4, <2>5, <3>1, <3>2 DEF Host
  <2>8. CASE ~(s.seq = k.rcv /\ (s.data > 0 \/ "FIN" \in s.flags))
    <3>1. k2.got = k.got /\ k2.fin = k.fin /\ k2.rcv = k.rcv
        BY <1>2, <2>7, <2>8 DEF Host
    <3>2. SlotOk(p, g_conn, toClient, k2, sv, g_reqlen)
        BY <2>2, <2>6, <2>7, <3>1, StaleOk
    <3>3. FromClient(k2, toServer)
      <4>1. k.rcv <= k2.rcv /\ k2.rcv \in Nat
        BY <2>3, <3>1
      <4> QED  BY <2>2, <2>3, <2>7, <4>1, SentOk
    <3> QED  BY <1>6, <2>7, <3>2, <3>3
  <2>9. CASE s.seq = k.rcv /\ s.data > 0
    <3>1. /\ ~k.fin /\ s.data = Len(k.got) + 1 /\ s.data <= p /\ "FIN" \notin s.flags
          /\ k.rcv = Base + Len(k.got)
        BY <2>6, <2>9, NextSegment
    <3>2. k.rcv + 1 \in Nat /\ k.rcv + 1 < Modulus
      <4>1. /\ p \in Nat /\ ISN \in Nat /\ ISN + p + 2 < Modulus /\ Base = ISN + 1 /\ Base \in Nat
            /\ Modulus \in Nat
        BY TcpNumbers DEF TcpHyp, Base
      <4>2. PICK l \in Nat : l = Len(k.got)
        BY <1>2 DEF Host
      <4>3. l + 1 <= p /\ k.rcv = Base + l
        BY <3>1, <4>2
      <4> QED  BY <4>1, <4>3
    <3>3. (k.rcv + 1) % Modulus = k.rcv + 1
        BY <3>2, NoWrap
    <3>4. k2.got = Append(k.got, s.data) /\ k2.fin = k.fin /\ k2.rcv = k.rcv + 1
        BY Zenon, <1>2, <2>7, <2>9, <3>1, <3>3 DEF Host
    <3>5. SlotOk(p, g_conn, toClient, k2, sv, g_reqlen)
        BY <2>2, <2>6, <2>7, <2>9, <3>4, TakeDataOk
    <3>6. FromClient(k2, toServer)
      <4>1. k.rcv <= k2.rcv /\ k2.rcv \in Nat
        BY <2>3, <3>4
      <4> QED  BY <2>2, <2>3, <2>7, <4>1, SentOk
    <3> QED  BY <1>6, <2>7, <3>5, <3>6
  <2>10. CASE s.seq = k.rcv /\ ~(s.data > 0) /\ "FIN" \in s.flags
    <3>1. FinSeg(p, g_conn, toClient, k, s)
        BY <2>10 DEF SlotOk, FromServer
    <3>2. k.rcv + 1 \in Nat /\ k.rcv + 1 < Modulus
      <4>1. /\ p \in Nat /\ ISN \in Nat /\ ISN + p + 2 < Modulus /\ Base = ISN + 1 /\ Base \in Nat
            /\ Modulus \in Nat
        BY TcpNumbers DEF TcpHyp, Base
      <4>2. PICK l \in Nat : l = Len(k.got)
        BY <1>2 DEF Host
      <4>3. l <= p /\ k.rcv = Base + l + (IF k.fin THEN 1 ELSE 0)
        BY <2>6, <4>2 DEF SlotOk, Received
      <4>4. k.rcv = Base + l
        BY <3>1, <4>1, <4>3 DEF FinSeg
      <4> QED  BY <4>1, <4>3, <4>4
    <3>3. (k.rcv + 1) % Modulus = k.rcv + 1
        BY <3>2, NoWrap
    <3>4. k2.got = k.got /\ k2.fin = TRUE /\ k2.rcv = k.rcv + 1
        BY <1>2, <2>7, <2>10, <3>3 DEF Host
    <3>5. SlotOk(p, g_conn, toClient \ {s}, k2, sv, g_reqlen)
        BY Zenon, <2>2, <2>6, <2>7, <2>10, <3>4, TakeFinOk
    <3>6. FromClient(k2, toServer)
      <4>1. k.rcv <= k2.rcv /\ k2.rcv \in Nat
        BY <2>3, <3>4
      <4> QED  BY <2>2, <2>3, <2>7, <4>1, SentOk
    <3> QED  BY <2>7, <3>5, <3>6
  <2> QED  BY <2>8, <2>9, <2>10
<1> QED  BY <1>7, <1>8, <1>9, SMTT(30)

-----------------------------------------------------------------------------
\* Before anyone has connected the clients have only sent SYNs.
LEMMA TcpInit ==
    ASSUME NEW p, NEW f, TcpHyp(p), Tcp(p, f)!Init
    PROVE  TcpInv(p)
<1>0. ISN \in Nat /\ p \in Nat \ {0} /\ ISNStep \in Nat \ {0}
    BY TcpNumbers DEF TcpHyp
<1>1. g_conn \in Conn(p) /\ g_conn.state = "LISTEN" /\ g_conn.snd_len = 0 /\ g_conn.snd_una = 0
      /\ ~g_conn.snd_fin_pending
    BY <1>0 DEF Tcp!Init, Tcp!NoPeer, Conn
<1>2. served \in [{"a"} -> {0, 1}] /\ served["a"] = 0 /\ toServer = {} /\ toClient = {}
      /\ g_reqlen = 0 /\ g_isn_seed = ISN
    BY DEF Tcp!Init
<1>3. client["a"] = [st |-> "new", una |-> 0, rcv |-> 0, got |-> << >>, fin |-> FALSE]
      /\ client = [c \in {"a"} |-> [st |-> "new", una |-> 0, rcv |-> 0, got |-> << >>, fin |-> FALSE]]
    BY DEF Tcp!Init
<1>4. client["a"] \in Host /\ client \in [{"a"} -> Host]
    BY <1>3 DEF Host
<1>5. NoConn
    BY <1>1, <1>2, <1>3 DEF NoConn
<1>6. FromClient(client["a"], toServer)
    BY <1>2 DEF FromClient
<1> QED  BY <1>1, <1>2, <1>4, <1>5, <1>6 DEF TcpInv

\* The rest of what a client does.
LEMMA ClientOk ==
    ASSUME NEW p, NEW f, TcpHyp(p), TcpInv(p),
           \/ Tcp(p, f)!ClientSend("a") \/ Tcp(p, f)!ClientClose("a")
           \/ Tcp(p, f)!ClientGone("a") \/ Tcp(p, f)!ClientReset("a")
    PROVE  TcpInv(p)'
<1> DEFINE k == client["a"]
           k2 == client'["a"]
<1>0. /\ k \in Host /\ client \in [{"a"} -> Host] /\ FromClient(k, toServer) /\ k.rcv \in Nat
      /\ ISN \in Nat /\ ISNStep \in Nat \ {0} /\ k.una \in Nat /\ ReqLen \in Nat \ {0}
    BY TcpNumbers DEF TcpInv, Host
<1>1. UNCHANGED <<g_conn, g_reqlen, g_isn_seed, served, toClient>>
    BY DEF Tcp!ClientSend, Tcp!ClientClose, Tcp!ClientGone, Tcp!ClientReset
<1>2. ASSUME k2 \in Host, k2.una = k.una, k2.rcv = k.rcv, k2.got = k.got, k2.fin = k.fin,
             k2.st \in {"new", "syn"} <=> k.st \in {"new", "syn"},
             k2.st = "fin" => k2.una = ReqLen, client' \in [{"a"} -> Host], FromClient(k2, toServer')
      PROVE  TcpInv(p)'
  <2>1. g_isn_seed = ISN => NoConn'
    BY <1>1, <1>2 DEF TcpInv, NoConn
  <2>2. g_isn_seed # ISN => SlotOk(p, g_conn, toClient, k2, served["a"], g_reqlen)
    <3> HIDE DEF k, k2
    <3> QED  BY <1>2, StOk DEF TcpInv, k
  <2> QED  BY <1>1, <1>2, <2>1, <2>2 DEF TcpInv
<1>3. k.rcv < Modulus /\ (k.st = "fin" => k.una = ReqLen)
  <2>1. CASE g_isn_seed = ISN
    <3>1. k.rcv = 0 /\ k.st # "fin"
        BY <2>1 DEF TcpInv, NoConn
    <3> QED  BY <3>1, TcpNumbers
  <2>2. CASE g_isn_seed # ISN
    <3>1. SlotOk(p, g_conn, toClient, k, served["a"], g_reqlen)
        BY <2>2 DEF TcpInv
    <3>2. k.rcv < Modulus
        BY <3>1, RcvOk
    <3> QED  BY <3>1, <3>2 DEF SlotOk, Received
  <2> QED  BY <2>1, <2>2
<1>4. ASSUME NEW S, S \subseteq toServer, NEW h, h.una = k.una, h.rcv = k.rcv,
             k.st \notin {"new", "syn"} => h.st \notin {"new", "syn"}
      PROVE  FromClient(h, S)
  <2>1. FromClient(k, S)
    BY <1>0, <1>4 DEF FromClient
  <2>2. k.rcv <= h.rcv /\ h.rcv \in Nat
    BY <1>0, <1>4
  <2> HIDE DEF k
  <2> QED  BY <1>0, <1>4, <2>1, <2>2, SentOk
<1>5. CASE Tcp(p, f)!ClientSend("a")
  <2>1. PICK s \in Tcp(p, f)!ClientSeg("a"), w \in {0, 1} :
           toServer' = toServer \cup {[who |-> s.who, seq |-> s.seq, ack |-> s.ack,
                                       flags |-> s.flags, data |-> s.data, win |-> w]}
    BY <1>5 DEF Tcp!ClientSend
  <2> DEFINE t == [who |-> s.who, seq |-> s.seq, ack |-> s.ack, flags |-> s.flags, data |-> s.data, win |-> w]
  <2>2. client' = [client EXCEPT !["a"].st = IF @ = "new" THEN "syn" ELSE @]
    BY <1>5 DEF Tcp!ClientSend
  <2>3. k2 = [k EXCEPT !.st = IF k.st = "new" THEN "syn" ELSE k.st]
    BY <1>0, <2>2
  <2>4. k2 \in Host /\ k2.una = k.una /\ k2.rcv = k.rcv /\ k2.got = k.got /\ k2.fin = k.fin
        /\ k2.st = (IF k.st = "new" THEN "syn" ELSE k.st)
    BY Zenon, <1>0, <2>3 DEF Host
  <2>5. client' \in [{"a"} -> Host]
    BY <1>0, <2>2, <2>4
  <2>6. /\ t \in ToServer
        /\ "SYN" \in t.flags => t.flags = {"SYN"} /\ t.data = 0 /\ t.seq = ClientISN
        /\ "ACK" \in t.flags => t.ack <= k.rcv /\ k.st \notin {"new", "syn"}
        /\ "FIN" \in t.flags => t.data = 0 /\ t.seq = CBase + ReqLen /\ k.una = ReqLen
        /\ t.data = 1 => t.flags = {"ACK"} /\ t.seq \in CBase .. CBase + ReqLen - 1
    <3> HIDE DEF t
    <3> QED  BY <1>0, <1>3, SendOk DEF t
  <2> HIDE DEF t
  <2>7. FromClient(k, toServer \cup {t})
    <3> HIDE DEF k
    <3> QED  BY <1>0, <2>6 DEF FromClient
  <2>8. toServer' = toServer \cup {t}
    BY <2>1 DEF t
  <2>9. FromClient(k2, toServer')
    <3>1. k.rcv <= k2.rcv /\ k2.rcv \in Nat
        BY <1>0, <2>4
    <3> HIDE DEF k, k2
    <3> QED  BY <1>0, <2>4, <2>7, <2>8, <3>1, SentOk
  <2> QED  BY <1>2, <1>3, <2>4, <2>5, <2>9
<1>6. CASE Tcp(p, f)!ClientClose("a")
  <2>1. k.st = "est" /\ k.una = ReqLen /\ client' = [client EXCEPT !["a"].st = "fin"] /\ toServer' = toServer
    BY <1>6 DEF Tcp!ClientClose
  <2>2. k2 = [k EXCEPT !.st = "fin"]
    BY <1>0, <2>1
  <2>3. k2 \in Host /\ k2.una = k.una /\ k2.rcv = k.rcv /\ k2.got = k.got /\ k2.fin = k.fin /\ k2.st = "fin"
    BY Zenon, <1>0, <2>2 DEF Host
  <2>4. client' \in [{"a"} -> Host]
    BY <1>0, <2>1, <2>3
  <2>5. FromClient(k2, toServer')
    <3> HIDE DEF k2
    <3> QED  BY <1>4, <2>1, <2>3
  <2> QED  BY <1>2, <2>1, <2>3, <2>4, <2>5
<1>7. CASE Tcp(p, f)!ClientGone("a") \/ Tcp(p, f)!ClientReset("a")
  <2>1. k.st \in {"est", "fin"} /\ client' = [client EXCEPT !["a"].st = "gone"]
    BY <1>7 DEF Tcp!ClientGone, Tcp!ClientReset
  <2>2. k2 = [k EXCEPT !.st = "gone"]
    BY <1>0, <2>1
  <2>3. k2 \in Host /\ k2.una = k.una /\ k2.rcv = k.rcv /\ k2.got = k.got /\ k2.fin = k.fin /\ k2.st = "gone"
    BY Zenon, <1>0, <2>2 DEF Host
  <2>4. client' \in [{"a"} -> Host]
    BY <1>0, <2>1, <2>3
  <2> DEFINE q == (ClientISN + k.una + 1) % Modulus
             t == [who |-> "a", seq |-> q, ack |-> 0, flags |-> {"RST"}, data |-> 0, win |-> 0]
             S == {s \in toServer : s.who # "a"}
  <2>5. FromClient(k2, S)
    <3>1. S \subseteq toServer
        OBVIOUS
    <3> HIDE DEF k2, S
    <3> QED  BY <1>4, <2>1, <2>3, <3>1
  <2>6. FromClient(k2, {t} \cup S)
    <3>1. q \in Nat
      <4>1. ClientISN + k.una + 1 \in Nat /\ Modulus \in Nat \ {0}
        BY <1>0, TcpNumbers
      <4> QED  BY <4>1
    <3> HIDE DEF q
    <3>2. t \in ToServer /\ t.flags = {"RST"} /\ t.data = 0
        BY <3>1 DEF ToServer, Flag
    <3> HIDE DEF t, S, k2
    <3> QED  BY <2>5, <3>2 DEF FromClient
  <2>7. toServer' = S \/ toServer' = {t} \cup S
    BY <1>7 DEF Tcp!ClientGone, Tcp!ClientReset, Tcp!Wire
  <2>8. FromClient(k2, toServer')
    <3> HIDE DEF k2, S, t
    <3> QED  BY <2>5, <2>6, <2>7
  <2> QED  BY <1>2, <2>1, <2>3, <2>4, <2>8
<1> QED  BY <1>5, <1>6, <1>7

LEMMA TcpStep ==
    ASSUME NEW p, NEW f, TcpHyp(p), TcpInv(p), Tcp(p, f)!Next
    PROVE  TcpInv(p)'
<1>0. /\ ISN \in Nat /\ ISNStep \in Nat \ {0} /\ ISN + ISNStep # ISN /\ g_isn_seed \in {ISN, ISN + ISNStep}
      /\ g_conn \in Conn(p) /\ g_reqlen \in Nat /\ served \in [{"a"} -> {0, 1}] /\ client \in [{"a"} -> Host]
      /\ FromClient(client["a"], toServer)
    BY TcpNumbers DEF TcpInv
<1>1. CASE Tcp(p, f)!Deliver
  <2>1. PICK s \in toServer, n \in Tcp(p, f)!Accepts(g_conn) :
          /\ Tcp(p, f)!tcp_handle_packet(s, n) /\ g_isn_seed' <= ISN + 1 * ISNStep
          /\ toServer' = toServer \ {s} /\ client' = client
    BY <1>1 DEF Tcp!Deliver
  <2>2. Arriving(client["a"], s) /\ FromClient(client["a"], toServer')
    BY <1>0, <2>1 DEF Arriving, FromClient
  <2>3. CASE g_isn_seed = ISN
    <3>0. NoConn
        BY <2>3 DEF TcpInv
    <3>1. /\ g_isn_seed' \in {ISN, ISN + ISNStep} /\ served' = served /\ g_reqlen' \in Nat
          /\ g_conn' \in Conn(p)
          /\ g_isn_seed' = ISN => g_conn' = g_conn /\ toClient' = {}
          /\ g_isn_seed' # ISN => SlotOk(p, g_conn', toClient', client["a"], 0, g_reqlen')
        BY <1>0, <2>1, <2>2, <2>3, <3>0, AcceptOk
    <3>2. g_isn_seed' = ISN => NoConn'
        BY <2>1, <3>0, <3>1 DEF NoConn
    <3>3. served["a"] = 0
        BY <3>0 DEF NoConn
    <3> QED  BY <1>0, <2>1, <2>2, <3>1, <3>2, <3>3 DEF TcpInv
  <2>4. CASE g_isn_seed = ISN + ISNStep
    <3>0. SlotOk(p, g_conn, toClient, client["a"], served["a"], g_reqlen)
        BY <1>0, <2>4 DEF TcpInv
    <3>1. /\ g_isn_seed' = g_isn_seed /\ served' \in [{"a"} -> {0, 1}]
          /\ SlotOk(p, g_conn', toClient', client["a"], served'["a"], g_reqlen')
        BY <1>0, <2>1, <2>2, <2>4, <3>0, HandleOk
    <3>2. g_conn' \in Conn(p) /\ g_reqlen' \in Nat
        BY <3>1 DEF SlotOk
    <3> QED  BY <1>0, <2>1, <2>2, <2>4, <3>1, <3>2 DEF TcpInv
  <2> QED  BY <1>0, <2>3, <2>4
<1>2. CASE Tcp(p, f)!tcp_retransmit_tick
  <2>1. UNCHANGED <<g_reqlen, g_isn_seed, served, client, toServer>>
    BY <1>2 DEF Tcp!tcp_retransmit_tick
  <2>2. g_isn_seed # ISN
    BY <1>2 DEF Tcp!tcp_retransmit_tick, TcpInv, NoConn
  <2>3. SlotOk(p, g_conn', toClient', client["a"], served["a"], g_reqlen)
    BY <1>2, <2>2, RetransmitOk DEF TcpInv
  <2>4. g_conn' \in Conn(p)
    BY <2>3 DEF SlotOk
  <2> QED  BY <1>0, <2>1, <2>2, <2>3, <2>4 DEF TcpInv
<1>3. CASE Tcp(p, f)!tcp_conn_reap
  <2>1. /\ UNCHANGED <<g_isn_seed, served, client, toServer, toClient>> /\ g_conn.state # "LISTEN"
        /\ g_conn' = [g_conn EXCEPT !.state = "LISTEN"] /\ g_reqlen' = 0
    BY <1>3 DEF Tcp!tcp_conn_reap
  <2>2. g_isn_seed # ISN
    BY <2>1 DEF TcpInv, NoConn
  <2>3. SlotOk(p, [g_conn EXCEPT !.state = "LISTEN"], toClient, client["a"], served["a"], 0)
    BY <2>2, ListenOk DEF TcpInv
  <2>4. g_conn' \in Conn(p)
    BY <2>1, <2>3 DEF SlotOk
  <2> QED  BY <1>0, <2>1, <2>2, <2>3, <2>4 DEF TcpInv
<1>4. CASE Tcp(p, f)!ClientReceive
  <2>1. UNCHANGED <<g_conn, g_reqlen, g_isn_seed, served, toServer>> /\ toClient # {}
    BY <1>4 DEF Tcp!ClientReceive
  <2>2. g_isn_seed # ISN
    BY <2>1 DEF TcpInv, NoConn
  <2>3. /\ client' \in [{"a"} -> Host] /\ FromClient(client'["a"], toServer)
        /\ SlotOk(p, g_conn, toClient', client'["a"], served["a"], g_reqlen)
    BY <1>0, <1>4, <2>2, ReceiveOk DEF TcpInv
  <2> QED  BY <1>0, <2>1, <2>2, <2>3 DEF TcpInv
<1>5. CASE \E c \in {"a"} : \/ Tcp(p, f)!ClientSend(c) \/ Tcp(p, f)!ClientClose(c)
                            \/ Tcp(p, f)!ClientGone(c) \/ Tcp(p, f)!ClientReset(c)
    BY <1>5, ClientOk
<1> QED  BY <1>1, <1>2, <1>3, <1>4, <1>5 DEF Tcp!Next, Tcp!ClientNext

LEMMA TcpSound ==
    ASSUME NEW p, NEW f, TcpHyp(p), TcpInv(p)
    PROVE  Tcp(p, f)!ResponseIntact /\ Tcp(p, f)!RequestOnce /\ Tcp(p, f)!AckMeansReceived
<1>0. served["a"] \in {0, 1} /\ client["a"] \in Host
    BY DEF TcpInv
<1>1. Tcp(p, f)!RequestOnce
    BY <1>0 DEF Tcp!RequestOnce
<1>2. CASE g_isn_seed = ISN
  <2>1. NoConn
    BY <1>2 DEF TcpInv
  <2>2. Tcp(p, f)!ResponseIntact
    BY <2>1 DEF NoConn, Tcp!ResponseIntact
  <2>3. Tcp(p, f)!AckMeansReceived
    BY <2>1 DEF NoConn, Tcp!AckMeansReceived
  <2> QED  BY <1>1, <2>2, <2>3
<1>3. CASE g_isn_seed # ISN
  <2>1. SlotOk(p, g_conn, toClient, client["a"], served["a"], g_reqlen)
    BY <1>3 DEF TcpInv
  <2>2. Tcp(p, f)!ResponseIntact
    <3>1. \A i \in 1 .. Len(client["a"].got) : client["a"].got[i] = i
        BY <2>1 DEF SlotOk, Received
    <3>2. DOMAIN client["a"].got = 1 .. Len(client["a"].got)
        BY <1>0 DEF Host
    <3>3. served["a"] = 0 => client["a"].got = << >>
        BY <2>1 DEF SlotOk, Gathering
    <3> QED  BY <3>1, <3>2, <3>3 DEF Tcp!ResponseIntact
  <2>3. Tcp(p, f)!AckMeansReceived
    BY <2>1 DEF SlotOk, Window, Tcp!AckMeansReceived
  <2> QED  BY <1>1, <2>2, <2>3
<1> QED  BY <1>2, <1>3

TcpSceneInv ==
    /\ scene = "request" => TcpInv(SHORT)
    /\ scene = "response" => TcpInv(LONG)

\* tcp_server.c, tcp_handle_packet and tcp_pump: for any response, window, number of
\* retries and segments in flight, whatever is lost, repeated or reordered, the client
\* of a connection receives the beginning of its response in order, its request is
\* executed once, and the send window never passes a segment the client lacks.
THEOREM TcpIsExact == Spec => []TcpExact
<1>0. TcpHyp(SHORT) /\ TcpHyp(LONG)
    BY NetAssumption DEF TcpHyp
<1>1. Init => TcpSceneInv
  <2> SUFFICES ASSUME Init PROVE TcpSceneInv
    OBVIOUS
  <2>1. /\ scene = "request" => Tcp(SHORT, MANY)!Init
        /\ scene = "response" => Tcp(LONG, FEW)!Init
    BY Zenon DEF Init
  <2> QED  BY <1>0, <2>1, TcpInit DEF TcpSceneInv
<1>2. TcpSceneInv /\ [Next]_allvars => TcpSceneInv'
  <2> SUFFICES ASSUME TcpSceneInv, [Next]_allvars PROVE TcpSceneInv'
    OBVIOUS
  <2>1. /\ scene' = scene
        /\ scene = "request" => Tcp(SHORT, MANY)!Next \/ UNCHANGED tcpvars
        /\ scene = "response" => Tcp(LONG, FEW)!Next \/ UNCHANGED tcpvars
    <3>1. CASE UNCHANGED allvars
        BY <3>1 DEF allvars
    <3>2. CASE Next
        BY Zenon, <3>2 DEF Next, Rest
    <3> QED  BY <3>1, <3>2
  <2>2. ASSUME NEW p, TcpInv(p), UNCHANGED tcpvars PROVE TcpInv(p)'
    <3>1. UNCHANGED <<g_conn, g_reqlen, g_isn_seed, served, client, toServer, toClient>>
        BY <2>2 DEF tcpvars
    <3>2. g_isn_seed = ISN => NoConn'
        BY <2>2, <3>1 DEF TcpInv, NoConn
    <3> QED  BY <2>2, <3>1, <3>2 DEF TcpInv
  <2>3. ASSUME scene = "request" PROVE TcpInv(SHORT)'
    BY <1>0, <2>1, <2>2, <2>3, TcpStep DEF TcpSceneInv
  <2>4. ASSUME scene = "response" PROVE TcpInv(LONG)'
    BY <1>0, <2>1, <2>2, <2>4, TcpStep DEF TcpSceneInv
  <2> QED  BY <2>1, <2>3, <2>4 DEF TcpSceneInv
<1>3. TcpSceneInv => TcpExact
    BY <1>0, TcpSound DEF TcpSceneInv, TcpExact
<1> QED  BY <1>1, <1>2, <1>3, PTL DEF Spec

-----------------------------------------------------------------------------
(* The Ethernet controllers and the fan (Ethernet).  A ring index is a     *)
(* count of frames modulo the index width, a descriptor the same count     *)
(* modulo the ring: the invariants name the counts.                        *)

LEMMA ModRange ==
    ASSUME NEW w \in Nat \ {0}, NEW x \in Nat
    PROVE  x % w \in 0 .. w - 1 /\ x % w \in Nat
OBVIOUS

\* Adding to a remainder.
LEMMA ModSum ==
    ASSUME NEW w \in Nat \ {0}, NEW x \in Nat, NEW j \in Nat
    PROVE  ((x % w) + j) % w = (x + j) % w
<1> DEFINE a1 == x \div w
           m == x % w
           y == m + j
           a2 == y \div w
           n == y % w
           z == x + j
           a3 == a1 + a2
<1>1. a1 \in Int /\ m \in 0 .. w - 1 /\ x = (w * a1) + m
    OBVIOUS
<1> HIDE DEF a1, m
<1>2. y \in Int /\ y = m + j
    BY <1>1
<1> HIDE DEF y
<1>. y \in Int
    BY <1>2
<1>3. a2 \in Int /\ n \in 0 .. w - 1 /\ y = (w * a2) + n
    OBVIOUS
<1> HIDE DEF a2, n
<1>4. z \in Int /\ a3 \in Int /\ z = (w * a3) + n
    BY <1>1, <1>2, <1>3
<1> HIDE DEF z, a3
<1>5. z % w = n
    BY <1>3, <1>4, RemainderIs
<1> QED  BY <1>1, <1>5 DEF z, n, y, m

\* A remainder of a multiple of w has the remainder of the number.
LEMMA ModDivides ==
    ASSUME NEW w \in Nat \ {0}, NEW v \in Nat \ {0}, v % w = 0, NEW x \in Nat
    PROVE  (x % v) % w = x % w
<1> DEFINE q == v \div w
           a1 == x \div v
           m == x % v
           a2 == m \div w
           n == m % w
           a3 == (q * a1) + a2
<1>1. q \in Int /\ v = w * q
    OBVIOUS
<1>2. a1 \in Int /\ m \in 0 .. v - 1 /\ x = (v * a1) + m
    OBVIOUS
<1> HIDE DEF q, a1, m
<1>. m \in Int
    BY <1>2
<1>3. a2 \in Int /\ n \in 0 .. w - 1 /\ m = (w * a2) + n
    OBVIOUS
<1> HIDE DEF a2, n
<1>4. v * a1 = w * (q * a1)
    BY <1>1, <1>2
<1>5. a3 \in Int /\ x = (w * a3) + n
  <2>1. q * a1 \in Int
    BY <1>1, <1>2
  <2> QED  BY <1>2, <1>3, <1>4, <2>1
<1> HIDE DEF a3
<1>6. x % w = n
    BY <1>3, <1>5, RemainderIs
<1> QED  BY <1>6 DEF n, m

\* Numbers less than w apart have different remainders.
LEMMA ModApart ==
    ASSUME NEW w \in Nat \ {0}, NEW p \in Nat, NEW q \in Nat, p < q, q < p + w
    PROVE  p % w # q % w
<1> DEFINE a1 == p \div w
           m == p % w
           a2 == q \div w
           n == q % w
<1>1. a1 \in Int /\ m \in 0 .. w - 1 /\ p = (w * a1) + m
    OBVIOUS
<1>2. a2 \in Int /\ n \in 0 .. w - 1 /\ q = (w * a2) + n
    OBVIOUS
<1> SUFFICES ASSUME m = n PROVE FALSE
    OBVIOUS
<1> HIDE DEF a1, m, a2, n
<1>3. w * (a2 - a1) = q - p /\ a2 - a1 \in Int
    BY <1>1, <1>2
<1>4. CASE a2 - a1 >= 1
  <2>1. w * (a2 - a1) >= w
    BY <1>3, <1>4
  <2> QED  BY <2>1, <1>3
<1>5. CASE a2 - a1 <= 0
  <2>1. w * (a2 - a1) <= 0
    BY <1>3, <1>5
  <2> QED  BY <2>1, <1>3
<1> QED  BY <1>3, <1>4, <1>5

LEMMA ModSmall ==
    ASSUME NEW w \in Nat \ {0}, NEW x \in 0 .. w - 1
    PROVE  x % w = x
<1>1. x \in Int /\ x = (w * 0) + x
    OBVIOUS
<1> QED  BY <1>1, RemainderIs

LEMMA ModRound ==
    ASSUME NEW w \in Nat \ {0}, NEW x \in Nat
    PROVE  (x + w) % w = x % w
<1> DEFINE a1 == x \div w
           m == x % w
           z == x + w
           a2 == a1 + 1
<1>1. a1 \in Int /\ m \in 0 .. w - 1 /\ x = (w * a1) + m
    OBVIOUS
<1> HIDE DEF a1, m
<1>2. z \in Int /\ a2 \in Int /\ z = (w * a2) + m
    BY <1>1
<1> HIDE DEF z, a2
<1>3. z % w = m
    BY <1>1, <1>2, RemainderIs
<1> QED  BY <1>3 DEF z, m

\* The distance of two indices is the distance of the counts.
LEMMA ModDiff ==
    ASSUME NEW w \in Nat \ {0}, NEW x \in Nat, NEW d \in 0 .. w - 1
    PROVE  (((x + d) % w) - (x % w) + w) % w = d
<1> DEFINE a1 == x \div w
           m == x % w
           y == x + d
           a2 == y \div w
           n == y % w
           z == (n - m) + w
           a3 == (a1 - a2) + 1
<1>1. a1 \in Int /\ m \in 0 .. w - 1 /\ x = (w * a1) + m
    OBVIOUS
<1>2. a2 \in Int /\ n \in 0 .. w - 1 /\ y = (w * a2) + n
    OBVIOUS
<1>3. y = x + d
    OBVIOUS
<1> HIDE DEF a1, m, a2, n, y
<1>4. z \in Int /\ a3 \in Int /\ z = (w * a3) + d
    BY <1>1, <1>2, <1>3
<1> HIDE DEF z, a3
<1>5. z % w = d
    BY <1>4, RemainderIs
<1> QED  BY <1>5 DEF z, n, y, m

\* How far a driver is, and what its receive side keeps.
UpOk ==
    /\ unit \in {"genet", "gem", "fan"}
    /\ link_up \in [pc : {"off", "dead", "link", "arp", "arpwait", "rx", "probe", "start", "ready"},
                    polls : Nat, pcie : BOOLEAN]
    /\ unit = "fan" => link_up.pc = "off"

RxDma == [prod : Nat, cons : Nat, idx : Nat, desc : [0 .. RING - 1 -> Nat],
          arrived : Nat, held : Nat, last : Nat, cut : BOOLEAN]

NoRx(r) ==
    /\ r.prod \in 0 .. INDEX - 1 /\ r.arrived = 0 /\ r.held = 0 /\ r.last = 0 /\ ~r.cut
    /\ \A i \in 0 .. RING - 1 : r.desc[i] = 0

\* GENET began at position b and c frames have been consumed: the last RING frames that
\* arrived are where their numbers say, the frame held is the next one.
GenetRx(r, b, c) ==
    /\ r.prod = (b + r.arrived) % INDEX
    /\ r.cons = (b + c) % INDEX
    /\ r.idx = (b + c) % RING
    /\ c <= r.arrived /\ r.arrived < c + INDEX
    /\ \A k \in Nat : k < r.arrived /\ r.arrived <= k + RING => r.desc[(b + k) % RING] = k + 1
    /\ r.held # 0 => r.held = c + 1 /\ r.last = c + 1 /\ c < r.arrived /\ ~r.cut
    /\ r.held = 0 /\ ~r.cut => r.last = c

\* The GEM: the descriptors from the software's position on hold the frames not consumed,
\* the others are the controller's.
GemRx(r, c) ==
    /\ r.prod = r.arrived % RING
    /\ r.idx = c % RING
    /\ c <= r.arrived /\ r.arrived <= c + RING /\ ~r.cut
    /\ \A k \in Nat : c <= k /\ k < r.arrived => r.desc[k % RING] = k + 1
    /\ \A k \in Nat : r.arrived <= k /\ k < c + RING => r.desc[k % RING] = 0
    /\ r.held # 0 => r.held = c + 1 /\ r.last = c + 1 /\ c < r.arrived
    /\ r.held = 0 => r.last = c

RxWire ==
    /\ rxdma \in RxDma
    /\ link_up.pc # "ready" => NoRx(rxdma)
    /\ link_up.pc = "ready" /\ unit = "genet" => \E b, c \in Nat : GenetRx(rxdma, b, c)
    /\ link_up.pc = "ready" /\ unit = "gem" => \E c \in Nat : GemRx(rxdma, c)

\* GENET fills the descriptor of its producer index.
GenetFilled(r) ==
    [r EXCEPT !.arrived = @ + 1, !.prod = (@ + 1) % INDEX, !.desc[r.prod % RING] = r.arrived + 1]

LEMMA GenetFills ==
    ASSUME NEW r \in RxDma, NEW b \in Nat, NEW c \in Nat, GenetRx(r, b, c), (r.prod + 1) % INDEX # r.cons,
           NEW s, s = GenetFilled(r)
    PROVE  s \in RxDma /\ GenetRx(s, b, c) /\ s.held = r.held
<1> DEFINE n == r.arrived
           i == (b + n) % RING
<1>0. RING \in Nat \ {0} /\ INDEX \in Nat \ {0} /\ INDEX % RING = 0
    BY WireAssumption
<1>1. r.prod = (b + n) % INDEX /\ n \in Nat /\ b + n \in Nat /\ c \in Nat /\ b + c \in Nat
    BY DEF GenetRx, RxDma
<1>2. r.prod % RING = i /\ i \in 0 .. RING - 1
  <2>1. ((b + n) % INDEX) % RING = (b + n) % RING /\ (b + n) % RING \in 0 .. RING - 1
    BY Zenon, <1>0, <1>1, ModDivides, ModRange
  <2> QED  BY <1>1, <2>1
<1>3. (r.prod + 1) % INDEX = ((b + n) + 1) % INDEX
  <2>1. (((b + n) % INDEX) + 1) % INDEX = ((b + n) + 1) % INDEX
    BY Zenon, <1>0, <1>1, ModSum, 1 \in Nat
  <2> QED  BY <1>1, <2>1
<1>4. n + 1 < c + INDEX
  <2> SUFFICES ASSUME n + 1 = c + INDEX PROVE FALSE
    BY <1>0, <1>1 DEF GenetRx
  <2>1. ((b + c) + INDEX) % INDEX = (b + c) % INDEX
    BY <1>0, <1>1, ModRound
  <2>2. n \in Nat /\ INDEX \in Nat
    BY <1>0, <1>1
  <2>3. (b + n) + 1 = (b + c) + INDEX
    BY <2>2
  <2> QED  BY <1>3, <2>1, <2>3 DEF GenetRx
<1>5. /\ s.arrived = n + 1 /\ s.prod = (b + (n + 1)) % INDEX /\ s.cons = r.cons /\ s.idx = r.idx
      /\ s.held = r.held /\ s.last = r.last /\ s.cut = r.cut
      /\ s.desc = [r.desc EXCEPT ![i] = n + 1]
  <2>1. (b + n) + 1 = b + (n + 1)
    BY <1>1
  <2> QED  BY <1>2, <1>3, <2>1 DEF RxDma, GenetFilled
<1>6. (b + (n + 1)) % INDEX \in Nat
  <2>1. b + (n + 1) \in Nat
    BY <1>1
  <2> QED  BY <1>0, <2>1, ModRange
<1>7. s \in RxDma
  <2>1. s = [r EXCEPT !.arrived = n + 1, !.prod = (b + (n + 1)) % INDEX, !.desc = [r.desc EXCEPT ![i] = n + 1]]
    BY <1>2, <1>3, <1>5 DEF RxDma, GenetFilled
  <2>2. [r.desc EXCEPT ![i] = n + 1] \in [0 .. RING - 1 -> Nat]
    BY <1>1, <1>2 DEF RxDma
  <2>3. n + 1 \in Nat
    BY <1>1
  <2> DEFINE e == n + 1
             p == (b + (n + 1)) % INDEX
             d == [r.desc EXCEPT ![i] = n + 1]
  <2>4. e \in Nat /\ p \in Nat /\ d \in [0 .. RING - 1 -> Nat]
        /\ s = [r EXCEPT !.arrived = e, !.prod = p, !.desc = d]
    BY <1>6, <2>1, <2>2, <2>3
  <2> HIDE DEF e, p, d
  <2> QED  BY <2>4 DEF RxDma
<1>8. ASSUME NEW k \in Nat, k < n + 1, n + 1 <= k + RING
      PROVE  s.desc[(b + k) % RING] = k + 1
  <2>1. CASE k = n
    BY <1>2, <1>5, <2>1 DEF RxDma
  <2>2. CASE k < n
    <3>1. b + k \in Nat /\ b + k < b + n /\ b + n < (b + k) + RING
        BY <1>0, <1>1, <1>8, <2>2
    <3>2. (b + k) % RING # i /\ (b + k) % RING \in 0 .. RING - 1
        BY <1>0, <1>1, <3>1, ModApart, ModRange
    <3>3. r.desc[(b + k) % RING] = k + 1
        BY <1>0, <1>1, <1>8, <2>2 DEF GenetRx
    <3> HIDE DEF i
    <3> QED  BY <1>5, <3>2, <3>3 DEF RxDma
  <2> QED  BY <1>1, <1>8, <2>1, <2>2
<1> HIDE DEF n, i
<1>9. GenetRx(s, b, c)
  <2>1. \A k \in Nat : k < s.arrived /\ s.arrived <= k + RING => s.desc[(b + k) % RING] = k + 1
    BY <1>5, <1>8
  <2> QED  BY <1>1, <1>4, <1>5, <2>1 DEF GenetRx, n
<1> QED  BY <1>5, <1>7, <1>9

\* genet_rx_poll: at most a ring behind, the descriptor at the software index is the next frame.
LEMMA GenetPolls ==
    ASSUME NEW r \in RxDma, NEW b \in Nat, NEW c \in Nat, GenetRx(r, b, c), r.held = 0,
           NEW a, a = (r.prod - r.cons + INDEX) % INDEX, a > 0
    PROVE  /\ a = r.arrived - c
           /\ a <= RING => r.desc[r.idx] = c + 1
<1>0. RING \in Nat \ {0} /\ INDEX \in Nat \ {0}
    BY WireAssumption
<1>1. r.prod = (b + r.arrived) % INDEX /\ r.arrived \in Nat /\ r.cons = (b + c) % INDEX
    BY DEF GenetRx, RxDma
<1> DEFINE d == r.arrived - c
<1>2. d \in 0 .. INDEX - 1 /\ b + r.arrived = (b + c) + d /\ b + c \in Nat
  <2>1. c <= r.arrived /\ r.arrived < c + INDEX
    BY DEF GenetRx
  <2> QED  BY <1>0, <1>1, <2>1
<1> HIDE DEF d
<1>3. a = d
  <2>1. ((((b + c) + d) % INDEX) - ((b + c) % INDEX) + INDEX) % INDEX = d
    BY <1>0, <1>2, ModDiff
  <2> QED  BY <1>1, <1>2, <2>1
<1>4. ASSUME a <= RING PROVE r.desc[r.idx] = c + 1
  <2>1. c < r.arrived /\ r.arrived <= c + RING
    BY <1>0, <1>1, <1>2, <1>3, <1>4 DEF d
  <2> QED  BY <2>1 DEF GenetRx
<1> QED  BY <1>3, <1>4 DEF d

LEMMA GenetRecovers ==
    ASSUME NEW r \in RxDma, NEW b \in Nat, NEW c \in Nat, GenetRx(r, b, c), r.held = 0,
           NEW s, s = Wire!genet_rx_recover(r)
    PROVE  s \in RxDma /\ GenetRx(s, b, r.arrived) /\ s.held = 0
<1>0. RING \in Nat \ {0} /\ INDEX \in Nat \ {0} /\ INDEX % RING = 0
    BY WireAssumption
<1>1. r.prod = (b + r.arrived) % INDEX /\ r.arrived \in Nat /\ b + r.arrived \in Nat
    BY DEF GenetRx, RxDma
<1>2. r.prod % RING = (b + r.arrived) % RING /\ r.prod % RING \in Nat /\ r.prod \in Nat
    BY <1>0, <1>1, ModDivides, ModRange
<1>3. /\ s.arrived = r.arrived /\ s.prod = r.prod /\ s.cons = r.prod /\ s.idx = r.prod % RING
      /\ s.held = 0 /\ s.last = r.last /\ s.cut = TRUE /\ s.desc = r.desc
    BY DEF RxDma, Wire!genet_rx_recover
<1>4. s \in RxDma
    BY <1>2 DEF RxDma, Wire!genet_rx_recover
<1>5. GenetRx(s, b, r.arrived)
    BY <1>0, <1>1, <1>2, <1>3 DEF GenetRx
<1> QED  BY <1>3, <1>4, <1>5

LEMMA GenetHolds ==
    ASSUME NEW r \in RxDma, NEW b \in Nat, NEW c \in Nat, GenetRx(r, b, c), c < r.arrived, r.desc[r.idx] = c + 1,
           NEW s, s = [r EXCEPT !.held = r.desc[r.idx], !.last = r.desc[r.idx], !.cut = FALSE]
    PROVE  s \in RxDma /\ GenetRx(s, b, c) /\ s.held = c + 1
<1>1. /\ s.arrived = r.arrived /\ s.prod = r.prod /\ s.cons = r.cons /\ s.idx = r.idx
      /\ s.held = c + 1 /\ s.last = c + 1 /\ s.cut = FALSE /\ s.desc = r.desc
    BY DEF RxDma
<1>2. s \in RxDma
  <2> DEFINE e == c + 1
  <2>1. s = [r EXCEPT !.held = e, !.last = e, !.cut = FALSE] /\ e \in Nat
    OBVIOUS
  <2> HIDE DEF e
  <2> QED  BY <2>1 DEF RxDma
<1>3. GenetRx(s, b, c)
    BY <1>1 DEF GenetRx
<1> QED  BY <1>1, <1>2, <1>3

LEMMA GenetReleases ==
    ASSUME NEW r \in RxDma, NEW b \in Nat, NEW c \in Nat, GenetRx(r, b, c), r.held # 0,
           NEW s, s = [r EXCEPT !.held = 0, !.cons = (@ + 1) % INDEX, !.idx = (@ + 1) % RING]
    PROVE  s \in RxDma /\ GenetRx(s, b, c + 1) /\ s.held = 0
<1>0. RING \in Nat \ {0} /\ INDEX \in Nat \ {0}
    BY WireAssumption
<1>1. r.cons = (b + c) % INDEX /\ r.idx = (b + c) % RING /\ b + c \in Nat
    BY DEF GenetRx
<1>2. (r.cons + 1) % INDEX = (b + (c + 1)) % INDEX /\ (r.idx + 1) % RING = (b + (c + 1)) % RING
  <2>1. (r.cons + 1) % INDEX = ((b + c) + 1) % INDEX /\ (r.idx + 1) % RING = ((b + c) + 1) % RING
    <3>1. /\ (((b + c) % INDEX) + 1) % INDEX = ((b + c) + 1) % INDEX
          /\ (((b + c) % RING) + 1) % RING = ((b + c) + 1) % RING
        BY Zenon, <1>0, <1>1, ModSum, 1 \in Nat
    <3> QED  BY <1>1, <3>1
  <2>2. (b + c) + 1 = b + (c + 1)
    OBVIOUS
  <2> QED  BY <2>1, <2>2
<1>3. (b + (c + 1)) % INDEX \in Nat /\ (b + (c + 1)) % RING \in Nat
  <2>1. b + (c + 1) \in Nat
    OBVIOUS
  <2> QED  BY <1>0, <2>1, ModRange
<1>4. /\ s.arrived = r.arrived /\ s.prod = r.prod /\ s.cons = (b + (c + 1)) % INDEX
      /\ s.idx = (b + (c + 1)) % RING
      /\ s.held = 0 /\ s.last = r.last /\ s.cut = r.cut /\ s.desc = r.desc
    BY <1>2 DEF RxDma
<1>5. s \in RxDma
    BY <1>2, <1>3 DEF RxDma
<1>6. GenetRx(s, b, c + 1)
  <2>1. r.arrived \in Nat /\ r.last = c + 1 /\ c < r.arrived /\ r.arrived < c + INDEX
    BY DEF GenetRx, RxDma
  <2> QED  BY <1>0, <1>4, <2>1 DEF GenetRx
<1> QED  BY <1>4, <1>5, <1>6

\* The GEM fills a descriptor that is its own.
LEMMA GemFills ==
    ASSUME NEW r \in RxDma, NEW c \in Nat, GemRx(r, c), r.desc[r.prod] = 0,
           NEW s, s = [r EXCEPT !.arrived = @ + 1, !.prod = (@ + 1) % RING,
                                !.desc[r.prod] = r.arrived + 1]
    PROVE  s \in RxDma /\ GemRx(s, c) /\ s.held = r.held
<1> DEFINE n == r.arrived
           i == n % RING
           e == n + 1
           p == e % RING
           d == [r.desc EXCEPT ![i] = e]
<1>0. RING \in Nat \ {0}
    BY WireAssumption
<1>1. r.prod = i /\ n \in Nat /\ e \in Nat /\ c <= n /\ n <= c + RING
    BY DEF GemRx, RxDma
<1>2. i \in 0 .. RING - 1 /\ p \in Nat
    BY <1>0, <1>1, ModRange
<1>3. n < c + RING
  <2> SUFFICES ASSUME n = c + RING PROVE FALSE
    BY <1>0, <1>1
  <2>1. i = c % RING
    BY <1>0, ModRound
  <2>2. c < n
    BY <1>0
  <2>3. r.desc[c % RING] = c + 1
    BY <2>2 DEF GemRx
  <2> QED  BY <1>1, <2>1, <2>3
<1>4. (r.prod + 1) % RING = p
  <2>1. ((n % RING) + 1) % RING = (n + 1) % RING
    BY Zenon, <1>0, <1>1, ModSum, 1 \in Nat
  <2> QED  BY <1>1, <2>1
<1>5. d \in [0 .. RING - 1 -> Nat] /\ s = [r EXCEPT !.arrived = e, !.prod = p, !.desc = d]
    BY <1>1, <1>2, <1>4 DEF RxDma
<1>6. ASSUME NEW k \in Nat, k < n + RING, n < k + RING, k # n
      PROVE  d[k % RING] = r.desc[k % RING]
  <2>1. k % RING # i /\ k % RING \in 0 .. RING - 1
    <3>1. CASE k < n
        BY <1>0, <1>1, <1>6, <3>1, ModApart, ModRange
    <3>2. CASE k > n
        BY <1>0, <1>1, <1>6, <3>2, ModApart, ModRange
    <3> QED  BY <1>1, <1>6, <3>1, <3>2
  <2> HIDE DEF i, e
  <2> QED  BY <2>1 DEF RxDma
<1>7. d[i] = e
    BY <1>2 DEF RxDma
<1> HIDE DEF p, d
<1>8. s \in RxDma
    BY <1>1, <1>2, <1>5 DEF RxDma
<1>9. /\ s.arrived = n + 1 /\ s.prod = p /\ s.idx = r.idx /\ s.held = r.held /\ s.last = r.last
      /\ s.cut = r.cut /\ s.desc = d
    BY <1>5 DEF RxDma
<1>10. ASSUME NEW k \in Nat, c <= k, k < n + 1 PROVE d[k % RING] = k + 1
  <2>1. CASE k = n
    BY <1>7, <2>1
  <2>2. CASE k < n
    <3>1. k < n + RING /\ n < k + RING
        BY <1>0, <1>1, <1>3, <1>10, <2>2
    <3>2. r.desc[k % RING] = k + 1
        BY <1>10, <2>2 DEF GemRx
    <3> QED  BY <1>6, <2>2, <3>1, <3>2
  <2> QED  BY <1>1, <1>10, <2>1, <2>2
<1>11. ASSUME NEW k \in Nat, n + 1 <= k, k < c + RING PROVE d[k % RING] = 0
  <2>1. k < n + RING /\ n < k + RING /\ k # n /\ n <= k
    BY <1>0, <1>1, <1>11
  <2>2. r.desc[k % RING] = 0
    BY <1>11, <2>1 DEF GemRx
  <2> QED  BY <1>6, <2>1, <2>2
<1> HIDE DEF n, i, e
<1>12. GemRx(s, c)
  <2>1. \A k \in Nat : c <= k /\ k < s.arrived => s.desc[k % RING] = k + 1
    BY <1>9, <1>10
  <2>2. \A k \in Nat : s.arrived <= k /\ k < c + RING => s.desc[k % RING] = 0
    BY <1>9, <1>11
  <2>3. s.prod = s.arrived % RING
    BY <1>9 DEF p, e
  <2>4. n + 1 <= c + RING /\ c <= n + 1 /\ (c < n => c < n + 1)
    BY <1>0, <1>1, <1>3
  <2>5. /\ s.idx = c % RING /\ ~s.cut
        /\ s.held # 0 => s.held = c + 1 /\ s.last = c + 1 /\ c < n
        /\ s.held = 0 => s.last = c
    BY <1>9 DEF GemRx, n
  <2> QED  BY <1>9, <2>1, <2>2, <2>3, <2>4, <2>5 DEF GemRx
<1> QED  BY <1>8, <1>9, <1>12

LEMMA GemPolls ==
    ASSUME NEW r \in RxDma, NEW c \in Nat, GemRx(r, c), r.held = 0, r.desc[r.idx] # 0,
           NEW s, s = [r EXCEPT !.held = r.desc[r.idx], !.last = r.desc[r.idx]]
    PROVE  s \in RxDma /\ GemRx(s, c) /\ s.held = c + 1 /\ r.last = c /\ ~r.cut
<1>0. RING \in Nat \ {0}
    BY WireAssumption
<1>1. r.idx = c % RING /\ r.arrived \in Nat /\ c <= r.arrived
    BY DEF GemRx, RxDma
<1>2. c < r.arrived
  <2>1. c < c + RING
    BY <1>0
  <2> QED  BY <1>1, <2>1 DEF GemRx
<1>3. r.desc[r.idx] = c + 1
    BY <1>1, <1>2 DEF GemRx
<1> DEFINE e == c + 1
<1>4. e \in Nat /\ s = [r EXCEPT !.held = e, !.last = e]
    BY <1>3
<1> HIDE DEF e
<1>5. s \in RxDma
    BY <1>4 DEF RxDma
<1>6. /\ s.arrived = r.arrived /\ s.prod = r.prod /\ s.idx = r.idx /\ s.held = e /\ s.last = e
      /\ s.cut = r.cut /\ s.desc = r.desc
    BY <1>4 DEF RxDma
<1>7. GemRx(s, c) /\ s.held = c + 1
    BY <1>2, <1>6 DEF GemRx, e
<1> QED  BY <1>5, <1>7 DEF GemRx

LEMMA GemReleases ==
    ASSUME NEW r \in RxDma, NEW c \in Nat, GemRx(r, c), r.held # 0,
           NEW s, s = [r EXCEPT !.held = 0, !.desc[r.idx] = 0, !.idx = (@ + 1) % RING]
    PROVE  s \in RxDma /\ GemRx(s, c + 1) /\ s.held = 0
<1> DEFINE n == r.arrived
           i == c % RING
           e == c + 1
           p == e % RING
           d == [r.desc EXCEPT ![i] = 0]
<1>0. RING \in Nat \ {0}
    BY WireAssumption
<1>1. r.idx = i /\ n \in Nat /\ e \in Nat /\ c < n /\ n <= c + RING /\ r.last = e
    BY DEF GemRx, RxDma
<1>2. i \in 0 .. RING - 1 /\ p \in Nat
    BY <1>0, <1>1, ModRange
<1>4. (r.idx + 1) % RING = p
  <2>1. ((c % RING) + 1) % RING = (c + 1) % RING
    BY Zenon, <1>0, ModSum, 1 \in Nat
  <2> QED  BY <1>1, <2>1
<1>5. d \in [0 .. RING - 1 -> Nat] /\ s = [r EXCEPT !.held = 0, !.desc = d, !.idx = p]
    BY <1>1, <1>2, <1>4 DEF RxDma
<1>6. ASSUME NEW k \in Nat, c < k, k < c + RING
      PROVE  d[k % RING] = r.desc[k % RING]
  <2>1. k % RING # i /\ k % RING \in 0 .. RING - 1
    BY <1>0, <1>1, <1>6, ModApart, ModRange
  <2> HIDE DEF i
  <2> QED  BY <2>1 DEF RxDma
<1>7. d[i] = 0
    BY <1>2 DEF RxDma
<1> HIDE DEF p, d
<1>8. s \in RxDma
  <2>1. p \in Nat
    BY <1>2
  <2>2. s = [prod |-> r.prod, cons |-> r.cons, idx |-> p, desc |-> d, arrived |-> r.arrived,
             held |-> 0, last |-> r.last, cut |-> r.cut]
    BY <1>5 DEF RxDma
  <2> QED  BY <1>5, <2>1, <2>2 DEF RxDma
<1>9. /\ s.arrived = n /\ s.prod = r.prod /\ s.idx = p /\ s.held = 0 /\ s.last = r.last
      /\ s.cut = r.cut /\ s.desc = d
    BY <1>5 DEF RxDma
<1>10. ASSUME NEW k \in Nat, c + 1 <= k, k < n PROVE d[k % RING] = k + 1
  <2>1. c < k /\ k < c + RING /\ c <= k
    BY <1>0, <1>1, <1>10
  <2>2. r.desc[k % RING] = k + 1
    BY <1>10, <2>1 DEF GemRx
  <2> QED  BY <1>6, <2>1, <2>2
<1>11. ASSUME NEW k \in Nat, n <= k, k < (c + 1) + RING PROVE d[k % RING] = 0
  <2>1. CASE k = c + RING
    <3>1. k % RING = i
        BY <1>0, <2>1, ModRound
    <3> QED  BY <1>7, <3>1
  <2>2. CASE k < c + RING
    <3>1. r.desc[k % RING] = 0
        BY <1>11, <2>2 DEF GemRx
    <3>2. c < k
        BY <1>1, <1>11
    <3> QED  BY <1>6, <2>2, <3>1, <3>2
  <2> QED  BY <1>0, <1>1, <1>11, <2>1, <2>2
<1> HIDE DEF n, i, e
<1>12. GemRx(s, c + 1)
  <2>1. \A k \in Nat : c + 1 <= k /\ k < s.arrived => s.desc[k % RING] = k + 1
    BY <1>9, <1>10
  <2>2. \A k \in Nat : s.arrived <= k /\ k < (c + 1) + RING => s.desc[k % RING] = 0
    BY <1>9, <1>11
  <2>3. s.idx = (c + 1) % RING /\ s.last = c + 1
    BY <1>1, <1>9 DEF p, e
  <2>4. n <= (c + 1) + RING /\ c + 1 <= n
    BY <1>0, <1>1
  <2>5. s.prod = n % RING /\ ~s.cut
    BY <1>9 DEF GemRx, n
  <2> QED  BY <1>9, <2>1, <2>2, <2>3, <2>4, <2>5 DEF GemRx
<1> QED  BY <1>8, <1>9, <1>12

\* The transmit side.
TxDma == [prod : 0 .. INDEX - 1, cons : 0 .. INDEX - 1, idx : Int,
          desc : [0 .. TXN - 1 -> {"none", "arp", "buf", "used"}], buf : Nat, wait : Int,
          ok : Nat, wire : SUBSET Nat, sends : Nat, late : BOOLEAN]

\* GENET has d frames to send, all of them in the one buffer: once it has caught up, the
\* frame that is waited for has been on the wire.
GenetTx(t, d) ==
    /\ t.prod = (t.cons + d) % INDEX
    /\ t.idx % TXN = t.prod % TXN
    /\ \A j \in Nat : j < d => t.desc[(t.cons + j) % TXN] = "buf"
    /\ t.wait > 0 => d > 0 \/ t.wait \in t.wire

GemTx(t) ==
    /\ t.idx \in 0 .. TXN - 1 /\ t.cons \in 0 .. TXN - 1
    /\ t.wait > 0 => t.desc[t.idx] = "buf" \/ t.wait \in t.wire

TxWire ==
    /\ txdma \in TxDma
    /\ txdma.wait > 0 => txdma.buf = txdma.wait
    /\ Wire!SentIsOnWire
    /\ link_up.pc # "ready" => txdma.idx = -1 /\ txdma.wait <= 0
    /\ link_up.pc = "ready" /\ unit = "genet" =>
          /\ txdma.idx \in Nat \cup {-1}
          /\ txdma.wait > 0 => txdma.idx # -1
          /\ txdma.idx # -1 /\ ~txdma.late => \E d \in 0 .. INDEX - 1 : GenetTx(txdma, d)
    /\ link_up.pc = "ready" /\ unit = "gem" => GemTx(txdma)

\* genet_tx_frame: the next descriptor points at the buffer.
GenetQueued(t, x) ==
    [t EXCEPT !.sends = @ + 1, !.buf = t.sends + 1, !.wait = t.sends + 1,
              !.desc[x % TXN] = "buf", !.prod = (@ + 1) % INDEX, !.idx = (x + 1) % INDEX,
              !.late = @ \/ (t.idx < 0 /\ t.cons # t.prod) \/ (t.prod + 1) % INDEX = t.cons]

LEMMA GenetSends ==
    ASSUME NEW t \in TxDma, t.idx \in Nat \cup {-1}, t.wait = 0,
           t.idx # -1 /\ ~t.late => \E d \in 0 .. INDEX - 1 : GenetTx(t, d),
           NEW u, NEW x, x = (IF t.idx < 0 THEN t.cons % TXN ELSE t.idx),
           u = GenetQueued(t, x)
    PROVE  /\ u \in TxDma /\ u.buf = u.wait /\ u.wait > 0 /\ u.ok = t.ok /\ u.wire = t.wire
           /\ t.late => u.late
           /\ u.idx \in Nat
           /\ ~u.late => \E d \in 0 .. INDEX - 1 : GenetTx(u, d)
<1> DEFINE n == t.sends + 1
           p == (t.prod + 1) % INDEX
           i == x % TXN
           y == (x + 1) % INDEX
           z == t.late \/ (t.idx < 0 /\ t.cons # t.prod) \/ p = t.cons
           e == [t.desc EXCEPT ![i] = "buf"]
<1>0. TXN \in Nat \ {0} /\ INDEX \in Nat \ {0} /\ INDEX % TXN = 0
    BY WireAssumption
<1>1. /\ t.prod \in Nat /\ t.cons \in Nat /\ t.sends \in Nat /\ t.late \in BOOLEAN
      /\ t.prod \in 0 .. INDEX - 1 /\ t.cons \in 0 .. INDEX - 1
    BY <1>0 DEF TxDma
<1>2. x \in Nat
    BY <1>0, <1>1, ModRange
<1>3. t.prod + 1 \in Nat /\ x + 1 \in Nat
    BY <1>1, <1>2
<1>4. n \in Nat /\ n > 0 /\ p \in 0 .. INDEX - 1 /\ y \in Nat /\ i \in 0 .. TXN - 1 /\ z \in BOOLEAN
  <2>1. n \in Nat /\ n > 0
    BY <1>1
  <2>2. p \in 0 .. INDEX - 1 /\ y \in Nat /\ i \in 0 .. TXN - 1
    BY Zenon, <1>0, <1>2, <1>3, ModRange
  <2>3. z \in BOOLEAN
    BY Zenon, <1>1
  <2> QED  BY <2>1, <2>2, <2>3
<1>5. e \in [0 .. TXN - 1 -> {"none", "arp", "buf", "used"}]
    BY <1>4 DEF TxDma
<1>6. u = [t EXCEPT !.sends = n, !.buf = n, !.wait = n, !.desc = e, !.prod = p, !.idx = y, !.late = z]
    BY DEF TxDma, GenetQueued
<1>7. ASSUME NEW j \in 0 .. TXN - 1 PROVE e[j] = IF j = i THEN "buf" ELSE t.desc[j]
    BY <1>4, <1>7 DEF TxDma
<1> HIDE DEF n, p, i, y, z, e
<1>8. u \in TxDma
  <2>1. u = [prod |-> p, cons |-> t.cons, idx |-> y, desc |-> e, buf |-> n, wait |-> n, ok |-> t.ok,
             wire |-> t.wire, sends |-> n, late |-> z]
    BY <1>6 DEF TxDma
  <2>2. t.cons \in 0 .. INDEX - 1 /\ t.ok \in Nat /\ t.wire \in SUBSET Nat /\ n \in Int /\ y \in Int
    BY <1>4 DEF TxDma
  <2> QED  BY <1>4, <1>5, <2>1, <2>2 DEF TxDma
<1>9. /\ u.sends = n /\ u.buf = n /\ u.wait = n /\ u.desc = e /\ u.prod = p /\ u.idx = y /\ u.late = z
      /\ u.cons = t.cons /\ u.ok = t.ok /\ u.wire = t.wire
    BY <1>6 DEF TxDma
<1>10. ASSUME ~z PROVE \E d \in 0 .. INDEX - 1 : GenetTx(u, d)
  <2>1. PICK d \in 0 .. INDEX - 1 : /\ t.prod = (t.cons + d) % INDEX /\ x % TXN = t.prod % TXN
                                    /\ \A j \in Nat : j < d => t.desc[(t.cons + j) % TXN] = "buf"
    <3>1. CASE t.idx = -1
      <4>1. t.cons = t.prod /\ x = t.cons % TXN
        BY <1>10, <3>1 DEF z
      <4>2. (t.cons % TXN) % TXN = t.cons % TXN
        BY Zenon, <1>0, <1>1, ModRange, ModSmall
      <4>3. t.prod = (t.cons + 0) % INDEX
        <5>1. t.cons % INDEX = t.cons
            BY Zenon, <1>0, <1>1, ModSmall
        <5>2. t.cons + 0 = t.cons
            BY <1>1
        <5> QED  BY <4>1, <5>1, <5>2
      <4> QED  BY <1>0, <4>1, <4>2, <4>3
    <3>2. CASE t.idx \in Nat
      <4>1. x = t.idx /\ ~t.late /\ t.idx # -1
        BY <1>10, <3>2 DEF z
      <4> QED  BY <4>1 DEF GenetTx
    <3> QED  BY <3>1, <3>2
  <2>2. d \in Nat /\ t.cons + d \in Nat /\ d + 1 \in Nat /\ (t.cons + d) + 1 = t.cons + (d + 1)
    BY <1>0, <1>1
  <2>3. p = (t.cons + (d + 1)) % INDEX
    <3>1. (((t.cons + d) % INDEX) + 1) % INDEX = ((t.cons + d) + 1) % INDEX
        BY Zenon, <1>0, <2>2, ModSum, 1 \in Nat
    <3> QED  BY <2>1, <2>2, <3>1 DEF p
  <2>4. d + 1 < INDEX
    <3> SUFFICES ASSUME d + 1 = INDEX PROVE FALSE
        BY <1>0, <2>1
    <3>1. (t.cons + INDEX) % INDEX = t.cons
        BY <1>0, <1>1, ModRound, ModSmall
    <3> QED  BY <1>10, <2>3, <3>1 DEF z
  <2>5. y % TXN = p % TXN
    <3>1. y % TXN = (x + 1) % TXN /\ p % TXN = (t.prod + 1) % TXN
        BY Zenon, <1>0, <1>3, ModDivides DEF y, p
    <3>2. ((x % TXN) + 1) % TXN = (x + 1) % TXN /\ ((t.prod % TXN) + 1) % TXN = (t.prod + 1) % TXN
        BY Zenon, <1>0, <1>1, <1>2, ModSum, 1 \in Nat
    <3> QED  BY <2>1, <3>1, <3>2
  <2>6. i = (t.cons + d) % TXN
    <3>1. ((t.cons + d) % INDEX) % TXN = (t.cons + d) % TXN
        BY Zenon, <1>0, <2>2, ModDivides
    <3> QED  BY <2>1, <3>1 DEF i
  <2>7. ASSUME NEW j \in Nat, j < d + 1 PROVE e[(t.cons + j) % TXN] = "buf"
    <3>1. t.cons + j \in Nat
        BY <1>1
    <3>2. (t.cons + j) % TXN \in 0 .. TXN - 1
        BY <1>0, <3>1, ModRange
    <3>3. CASE j = d
        BY <1>7, <2>6, <3>2, <3>3
    <3>4. CASE j < d
      <4>1. t.desc[(t.cons + j) % TXN] = "buf"
        BY <2>1, <3>4
      <4> QED  BY <1>7, <3>2, <4>1
    <3> QED  BY <2>2, <2>7, <3>3, <3>4
  <2>8. GenetTx(u, d + 1)
    <3>1. \A j \in Nat : j < d + 1 => u.desc[(u.cons + j) % TXN] = "buf"
        BY <1>9, <2>7
    <3>2. u.prod = (u.cons + (d + 1)) % INDEX /\ u.idx % TXN = u.prod % TXN
        BY <1>9, <2>3, <2>5
    <3>3. d + 1 > 0
        BY <2>2
    <3> QED  BY <3>1, <3>2, <3>3 DEF GenetTx
  <2> QED  BY <1>0, <2>2, <2>4, <2>8
<1> QED  BY <1>1, <1>4, <1>8, <1>9, <1>10 DEF z

\* The controller sends the oldest of its frames.
Taken(t, w, after) ==
    [t EXCEPT !.cons = (@ + 1) % w,
              !.wire = IF t.desc[t.cons % TXN] = "buf" THEN @ \cup {t.buf} ELSE @,
              !.desc[t.cons % TXN] = after]

LEMMA GenetSent ==
    ASSUME NEW t \in TxDma, t.cons # t.prod, t.wait > 0 => t.buf = t.wait,
           NEW u, u = Taken(t, INDEX, t.desc[t.cons % TXN])
    PROVE  /\ u \in TxDma /\ u.buf = t.buf /\ u.wait = t.wait /\ u.ok = t.ok /\ u.idx = t.idx
           /\ u.late = t.late /\ t.wire \subseteq u.wire
           /\ (\E d \in 0 .. INDEX - 1 : GenetTx(t, d)) => \E d \in 0 .. INDEX - 1 : GenetTx(u, d)
<1> DEFINE i == t.cons % TXN
           q == (t.cons + 1) % INDEX
           v == IF t.desc[i] = "buf" THEN t.wire \cup {t.buf} ELSE t.wire
<1>0. TXN \in Nat \ {0} /\ INDEX \in Nat \ {0} /\ INDEX % TXN = 0
    BY WireAssumption
<1>1. /\ t.prod \in Nat /\ t.cons \in Nat /\ t.cons + 1 \in Nat
      /\ t.prod \in 0 .. INDEX - 1 /\ t.cons \in 0 .. INDEX - 1
    BY <1>0 DEF TxDma
<1>2. i \in 0 .. TXN - 1 /\ q \in 0 .. INDEX - 1 /\ q \in Nat
    BY <1>0, <1>1, ModRange
<1>3. v \in SUBSET Nat /\ t.wire \subseteq v /\ (t.desc[i] = "buf" => t.buf \in v)
    BY DEF TxDma
<1>4. [t.desc EXCEPT ![i] = t.desc[i]] = t.desc
    BY <1>2 DEF TxDma
<1>5. u = [t EXCEPT !.cons = q, !.wire = v, !.desc = t.desc]
    BY <1>4 DEF TxDma, Taken
<1> HIDE DEF i, q, v
<1>6. u \in TxDma
    BY <1>2, <1>3, <1>5 DEF TxDma
<1>7. /\ u.cons = q /\ u.wire = v /\ u.desc = t.desc /\ u.prod = t.prod /\ u.idx = t.idx
      /\ u.buf = t.buf /\ u.wait = t.wait /\ u.ok = t.ok /\ u.late = t.late
    BY <1>5 DEF TxDma
<1>8. ASSUME NEW d \in 0 .. INDEX - 1, GenetTx(t, d) PROVE \E c \in 0 .. INDEX - 1 : GenetTx(u, c)
  <2>1. d # 0
    BY <1>0, <1>1, <1>8, ModSmall DEF GenetTx
  <2> DEFINE c == d - 1
  <2>2. c \in 0 .. INDEX - 1 /\ c \in Nat /\ d = 1 + c /\ t.cons + d = (t.cons + 1) + c
    BY <1>0, <1>1, <2>1
  <2> HIDE DEF c
  <2>3. t.prod = (q + c) % INDEX
    <3>1. (((t.cons + 1) % INDEX) + c) % INDEX = ((t.cons + 1) + c) % INDEX
        BY Zenon, <1>0, <1>1, <2>2, ModSum
    <3> QED  BY <1>8, <2>2, <3>1 DEF q, GenetTx
  <2>4. ASSUME NEW j \in Nat, j < c PROVE t.desc[(q + j) % TXN] = "buf"
    <3>1. ((q % TXN) + j) % TXN = (q + j) % TXN
        BY Zenon, <1>0, <1>2, ModSum
    <3>2. q % TXN = (t.cons + 1) % TXN
        BY Zenon, <1>0, <1>1, ModDivides DEF q
    <3>3. (((t.cons + 1) % TXN) + j) % TXN = ((t.cons + 1) + j) % TXN
        BY Zenon, <1>0, <1>1, ModSum
    <3>4. (t.cons + 1) + j = t.cons + (j + 1) /\ j + 1 \in Nat /\ j + 1 < d
        BY <1>1, <2>2, <2>4
    <3>5. t.desc[(t.cons + (j + 1)) % TXN] = "buf"
        BY <1>8, <3>4 DEF GenetTx
    <3> QED  BY <3>1, <3>2, <3>3, <3>4, <3>5
  <2>5. ASSUME t.wait > 0 PROVE t.wait \in v
    <3>1. t.desc[(t.cons + 0) % TXN] = "buf"
        BY <1>8, <2>2 DEF GenetTx
    <3>2. t.cons + 0 = t.cons
        BY <1>1
    <3> QED  BY <1>3, <2>5, <3>1, <3>2 DEF i
  <2>6. GenetTx(u, c)
    BY <1>7, <1>8, <2>3, <2>4, <2>5 DEF GenetTx
  <2> QED  BY <2>2, <2>6
<1> QED  BY <1>3, <1>6, <1>7, <1>8

Advanced(t, q, v, e) == [t EXCEPT !.cons = q, !.wire = v, !.desc = e]

LEMMA AdvancedOk ==
    ASSUME NEW t \in TxDma, NEW q \in 0 .. INDEX - 1, NEW v \in SUBSET Nat,
           NEW e \in [0 .. TXN - 1 -> {"none", "arp", "buf", "used"}], NEW u, u = Advanced(t, q, v, e)
    PROVE  /\ u \in TxDma /\ u.cons = q /\ u.wire = v /\ u.desc = e /\ u.prod = t.prod /\ u.idx = t.idx
           /\ u.buf = t.buf /\ u.wait = t.wait /\ u.ok = t.ok /\ u.late = t.late
<1>1. u = [prod |-> t.prod, cons |-> q, idx |-> t.idx, desc |-> e, buf |-> t.buf, wait |-> t.wait,
           ok |-> t.ok, wire |-> v, sends |-> t.sends, late |-> t.late]
    BY DEF TxDma, Advanced
<1>2. u \in TxDma
    BY <1>1 DEF TxDma
<1> QED  BY <1>2 DEF TxDma, Advanced

LEMMA RingFits ==
    TXN <= INDEX /\ TXN \in Nat \ {0} /\ INDEX \in Nat \ {0}
<1>0. TXN \in Nat \ {0} /\ INDEX \in Nat \ {0} /\ INDEX % TXN = 0
    BY WireAssumption
<1>1. CASE INDEX < TXN
    BY <1>0, <1>1, ModSmall
<1> QED  BY <1>0, <1>1

LEMMA GemSends ==
    ASSUME NEW t \in TxDma, GemTx(t), NEW u,
           u = [t EXCEPT !.sends = @ + 1, !.buf = t.sends + 1, !.wait = t.sends + 1, !.desc[t.idx] = "buf"]
    PROVE  /\ u \in TxDma /\ u.buf = u.wait /\ u.ok = t.ok /\ u.wire = t.wire /\ u.late = t.late
           /\ GemTx(u)
<1> DEFINE n == t.sends + 1
           e == [t.desc EXCEPT ![t.idx] = "buf"]
<1>0. t.sends \in Nat /\ t.idx \in 0 .. TXN - 1 /\ t.cons \in 0 .. TXN - 1
      /\ t.desc \in [0 .. TXN - 1 -> {"none", "arp", "buf", "used"}]
    BY DEF TxDma, GemTx
<1>1. n \in Nat /\ n \in Int /\ e \in [0 .. TXN - 1 -> {"none", "arp", "buf", "used"}] /\ e[t.idx] = "buf"
  <2>1. n \in Nat /\ n \in Int
    BY <1>0
  <2>2. e \in [0 .. TXN - 1 -> {"none", "arp", "buf", "used"}] /\ e[t.idx] = "buf"
    BY Zenon, <1>0
  <2> QED  BY <2>1, <2>2
<1>2. u = [t EXCEPT !.sends = n, !.buf = n, !.wait = n, !.desc = e]
    BY DEF TxDma
<1> HIDE DEF n, e
<1>3. u = [prod |-> t.prod, cons |-> t.cons, idx |-> t.idx, desc |-> e, buf |-> n, wait |-> n, ok |-> t.ok,
           wire |-> t.wire, sends |-> n, late |-> t.late]
    BY <1>2 DEF TxDma
<1>4. u \in TxDma
    BY <1>1, <1>3 DEF TxDma
<1>5. /\ u.buf = u.wait /\ u.ok = t.ok /\ u.wire = t.wire /\ u.late = t.late
      /\ u.idx = t.idx /\ u.cons = t.cons /\ u.desc = e
    BY <1>2 DEF TxDma
<1>6. GemTx(u)
    BY <1>0, <1>1, <1>5 DEF GemTx
<1> QED  BY <1>4, <1>5, <1>6

LEMMA GemSent ==
    ASSUME NEW t \in TxDma, GemTx(t), t.desc[t.cons % TXN] = "buf", t.wait > 0 => t.buf = t.wait,
           NEW u, u = Taken(t, TXN, "used")
    PROVE  /\ u \in TxDma /\ u.buf = t.buf /\ u.wait = t.wait /\ u.ok = t.ok /\ u.late = t.late
           /\ t.wire \subseteq u.wire /\ GemTx(u)
<1> DEFINE i == t.cons
           q == (t.cons + 1) % TXN
           v == t.wire \cup {t.buf}
           e == [t.desc EXCEPT ![i] = "used"]
<1>0. TXN <= INDEX /\ TXN \in Nat \ {0} /\ INDEX \in Nat \ {0}
    BY RingFits
<1>1. i \in 0 .. TXN - 1 /\ i + 1 \in Nat /\ t.cons % TXN = i
  <2>1. i \in 0 .. TXN - 1
    BY DEF GemTx
  <2>2. i + 1 \in Nat
    BY <1>0, <2>1
  <2> QED  BY Zenon, <1>0, <2>1, <2>2, ModSmall
<1>2. q \in 0 .. TXN - 1 /\ q \in 0 .. INDEX - 1
  <2>1. q \in 0 .. TXN - 1
    BY Zenon, <1>0, <1>1, ModRange
  <2> HIDE DEF q
  <2> QED  BY <1>0, <2>1
<1>3. v \in SUBSET Nat /\ t.wire \subseteq v /\ t.buf \in v
    BY DEF TxDma
<1>4. /\ e \in [0 .. TXN - 1 -> {"none", "arp", "buf", "used"}]
      /\ \A j \in 0 .. TXN - 1 : j # i => e[j] = t.desc[j]
    BY <1>1 DEF TxDma
<1>5. u = Advanced(t, q, v, e)
    BY <1>1 DEF TxDma, Taken, Advanced
<1> HIDE DEF i, q, v, e
<1>6. u \in TxDma
  <2>1. q \in 0 .. INDEX - 1
    BY <1>2
  <2>2. v \in SUBSET Nat
    BY <1>3
  <2>3. e \in [0 .. TXN - 1 -> {"none", "arp", "buf", "used"}]
    BY <1>4
  <2> QED  BY <1>5, <2>1, <2>2, <2>3, AdvancedOk
<1>8. ASSUME t.wait > 0 PROVE e[t.idx] = "buf" \/ t.wait \in v
    BY <1>3, <1>8
<1>9. /\ u.buf = t.buf /\ u.wait = t.wait /\ u.ok = t.ok /\ u.late = t.late /\ u.wire = v
      /\ u.idx = t.idx /\ u.cons = q /\ u.desc = e
  <2>1. q \in 0 .. INDEX - 1
    BY <1>2
  <2>2. v \in SUBSET Nat
    BY <1>3
  <2>3. e \in [0 .. TXN - 1 -> {"none", "arp", "buf", "used"}]
    BY <1>4
  <2> QED  BY <1>5, <2>1, <2>2, <2>3, AdvancedOk
<1>10. GemTx(u)
    BY <1>2, <1>8, <1>9 DEF GemTx
<1> QED  BY <1>3, <1>6, <1>9, <1>10

\* The end of a call of either driver.
TxEnded(t, g, y) ==
    [t EXCEPT !.wait = 0, !.ok = IF y THEN t.wait ELSE 0, !.idx = IF g THEN (@ + 1) % TXN ELSE @]

LEMMA TxEnds ==
    ASSUME NEW t \in TxDma, t.wait > 0, NEW g \in BOOLEAN, NEW y \in BOOLEAN, NEW u,
           u = TxEnded(t, g, y),
           g => GemTx(t)
    PROVE  /\ u \in TxDma /\ u.wait = 0 /\ u.ok = (IF y THEN t.wait ELSE 0) /\ u.late = t.late
           /\ u.wire = t.wire /\ u.prod = t.prod /\ u.cons = t.cons /\ u.desc = t.desc
           /\ ~g => u.idx = t.idx
           /\ g => GemTx(u)
<1> DEFINE k == IF y THEN t.wait ELSE 0
           x == IF g THEN (t.idx + 1) % TXN ELSE t.idx
<1>0. TXN \in Nat \ {0}
    BY RingFits
<1>1. k \in Nat /\ 0 \in Int
    BY DEF TxDma
<1>2. ASSUME g PROVE x \in 0 .. TXN - 1
  <2>1. t.idx + 1 \in Nat
    BY <1>2, <1>0 DEF GemTx
  <2> QED  BY <1>0, <1>2, <2>1, ModRange
<1>3. x \in Int /\ (~g => x = t.idx)
  <2>1. CASE g
    BY <1>0, <1>2, <2>1
  <2>2. CASE ~g
    BY <2>2 DEF TxDma
  <2> QED  BY <2>1, <2>2
<1>4. u = [t EXCEPT !.wait = 0, !.ok = k, !.idx = x]
    BY DEF TxDma, TxEnded
<1> HIDE DEF k, x
<1>5. u = [prod |-> t.prod, cons |-> t.cons, idx |-> x, desc |-> t.desc, buf |-> t.buf, wait |-> 0,
           ok |-> k, wire |-> t.wire, sends |-> t.sends, late |-> t.late]
    BY <1>4 DEF TxDma
<1>6. u \in TxDma
    BY <1>1, <1>3, <1>5 DEF TxDma
<1>7. /\ u.wait = 0 /\ u.ok = k /\ u.late = t.late /\ u.idx = x
      /\ u.wire = t.wire /\ u.prod = t.prod /\ u.cons = t.cons /\ u.desc = t.desc
    BY <1>4 DEF TxDma
<1>8. ASSUME g PROVE GemTx(u)
  <2>1. t.cons \in 0 .. TXN - 1
    BY <1>8 DEF GemTx
  <2> QED  BY <1>2, <1>7, <1>8, <2>1 DEF GemTx
<1> QED  BY <1>3, <1>6, <1>7, <1>8 DEF k

-----------------------------------------------------------------------------
\* The fan.
FanWire ==
    /\ fan \in [auto : BOOLEAN, stage : -1 .. 4, level : Int, last : Int, events : Int]
    /\ fan.stage >= 0 /\ fan.last >= 0 =>
          /\ fan.stage < 4 => fan.last < Wire!Up[fan.stage + 1]
          /\ fan.stage > 0 => fan.last >= Wire!Up[fan.stage] - 5

\* A set of stages has a least and a greatest.
LEMMA Stages ==
    ASSUME NEW S \in SUBSET (0 .. 4), S # {}
    PROVE  (\E s \in S : \A t \in S : t <= s) /\ (\E s \in S : \A t \in S : s <= t)
<1>1. \A s \in S : s \in Int /\ 0 <= s /\ s <= 4
    OBVIOUS
<1>2. PICK m \in S : TRUE
    OBVIOUS
<1>3. \E s \in S : \A t \in S : t <= s
  <2>1. CASE 4 \in S
    BY <1>1, <2>1
  <2>2. CASE 4 \notin S /\ 3 \in S
    BY <1>1, <2>2
  <2>3. CASE 4 \notin S /\ 3 \notin S /\ 2 \in S
    BY <1>1, <2>3
  <2>4. CASE 4 \notin S /\ 3 \notin S /\ 2 \notin S /\ 1 \in S
    BY <1>1, <2>4
  <2>5. CASE 4 \notin S /\ 3 \notin S /\ 2 \notin S /\ 1 \notin S
    BY <1>1, <1>2, <2>5
  <2> QED  BY <2>1, <2>2, <2>3, <2>4, <2>5
<1>4. \E s \in S : \A t \in S : s <= t
  <2>1. CASE 0 \in S
    BY <1>1, <2>1
  <2>2. CASE 0 \notin S /\ 1 \in S
    BY <1>1, <2>2
  <2>3. CASE 0 \notin S /\ 1 \notin S /\ 2 \in S
    BY <1>1, <2>3
  <2>4. CASE 0 \notin S /\ 1 \notin S /\ 2 \notin S /\ 3 \in S
    BY <1>1, <2>4
  <2>5. CASE 0 \notin S /\ 1 \notin S /\ 2 \notin S /\ 3 \notin S
    BY <1>1, <1>2, <2>5
  <2> QED  BY <2>1, <2>2, <2>3, <2>4, <2>5
<1> QED  BY <1>3, <1>4

\* The regulator's loops leave the stage between its two trip points.
LEMMA StageIs ==
    ASSUME NEW st \in 0 .. 4, NEW mc \in Int
    PROVE  /\ Wire!Stage(st, mc) \in 0 .. 4
           /\ Wire!Stage(st, mc) < 4 => mc < Wire!Up[Wire!Stage(st, mc) + 1]
           /\ Wire!Stage(st, mc) > 0 => mc >= Wire!Up[Wire!Stage(st, mc)] - 5
<1> DEFINE climbs == {s \in st..4 : \A i \in st..(s - 1) : mc >= Wire!Up[i + 1]}
           top    == CHOOSE s \in climbs : \A t \in climbs : t <= s
           falls  == {s \in 0..top : \A i \in (s + 1)..top : mc < Wire!Up[i] - 5}
           low    == CHOOSE s \in falls : \A t \in falls : s <= t
<1>0. \A i \in 1 .. 4 : Wire!Up[i] \in Int
    BY DEF Wire!Up
<1>1. climbs \in SUBSET (0 .. 4) /\ st \in climbs
    OBVIOUS
<1>2. top \in climbs /\ \A t \in climbs : t <= top
  <2>1. \E s \in climbs : \A t \in climbs : t <= s
    BY <1>1, Stages
  <2> HIDE DEF climbs
  <2> QED  BY <2>1
<1>3. top \in st .. 4 /\ \A i \in st .. (top - 1) : mc >= Wire!Up[i + 1]
    BY <1>2
<1>4. top < 4 => mc < Wire!Up[top + 1]
  <2> SUFFICES ASSUME top < 4, ~(mc < Wire!Up[top + 1]) PROVE FALSE
    OBVIOUS
  <2> HIDE DEF top
  <2>1. top + 1 \in 1 .. 4 /\ mc >= Wire!Up[top + 1]
    BY <1>0, <1>3
  <2>2. \A i \in st .. ((top + 1) - 1) : mc >= Wire!Up[i + 1]
    <3> SUFFICES ASSUME NEW i \in st .. ((top + 1) - 1) PROVE mc >= Wire!Up[i + 1]
        OBVIOUS
    <3>1. CASE i = top
        BY <2>1, <3>1
    <3>2. CASE i \in st .. (top - 1)
        BY <1>3, <3>2
    <3> QED  BY <1>3, <3>1, <3>2
  <2>3. top + 1 \in climbs
    BY <1>3, <2>1, <2>2
  <2>4. top + 1 <= top
    BY <1>2, <2>3
  <2> QED  BY <1>3, <2>4
<1> HIDE DEF climbs, top
<1>5. top \in 0 .. 4
    BY <1>3
<1>6. falls \in SUBSET (0 .. 4) /\ top \in falls
    BY <1>5
<1>7. low \in falls /\ \A t \in falls : low <= t
  <2>1. \E s \in falls : \A t \in falls : s <= t
    BY <1>6, Stages
  <2> HIDE DEF falls
  <2> QED  BY <2>1
<1>8. low \in 0 .. top /\ \A i \in (low + 1) .. top : mc < Wire!Up[i] - 5
    BY <1>7
<1>9. low > 0 => mc >= Wire!Up[low] - 5
  <2> SUFFICES ASSUME low > 0, ~(mc >= Wire!Up[low] - 5) PROVE FALSE
    OBVIOUS
  <2> HIDE DEF low
  <2>1. low \in 1 .. 4 /\ mc < Wire!Up[low] - 5
    BY <1>0, <1>5, <1>8
  <2>2. \A i \in ((low - 1) + 1) .. top : mc < Wire!Up[i] - 5
    <3> SUFFICES ASSUME NEW i \in ((low - 1) + 1) .. top PROVE mc < Wire!Up[i] - 5
        OBVIOUS
    <3>1. CASE i = low
        BY <2>1, <3>1
    <3>2. CASE i \in (low + 1) .. top
        BY <1>8, <3>2
    <3> QED  BY <1>5, <2>1, <3>1, <3>2
  <2>3. low - 1 \in falls
    BY <1>5, <1>8, <2>1, <2>2
  <2>4. low <= low - 1
    BY <1>7, <2>3
  <2> QED  BY <2>1, <2>4
<1> HIDE DEF falls, low
<1>10. low < 4 => mc < Wire!Up[low + 1]
  <2>1. CASE low = top
    BY <1>4, <2>1
  <2>2. CASE low < top
    <3>1. mc < Wire!Up[low + 1] - 5 /\ low + 1 \in 1 .. 4
        BY <1>5, <1>8, <2>2
    <3>2. Wire!Up[low + 1] \in Int
        BY <1>0, <3>1
    <3> QED  BY <3>1, <3>2
  <2> QED  BY <1>5, <1>8, <2>1, <2>2
<1>11. Wire!Stage(st, mc) = low
    BY DEF Wire!Stage, low, falls, top, climbs
<1> QED  BY <1>5, <1>8, <1>9, <1>10, <1>11

-----------------------------------------------------------------------------
WireInv == UpOk /\ RxWire /\ TxWire /\ FanWire

LEMMA WireInit ==
    ASSUME Wire!EInit
    PROVE  WireInv
<1>0. RING \in Nat \ {0} /\ TXN \in Nat \ {0} /\ INDEX \in Nat \ {0} /\ LeftAt \subseteq 0 .. INDEX - 1
    BY WireAssumption
<1>1. UpOk /\ link_up.pc = "off"
    BY DEF Wire!EInit, UpOk
<1>2. PICK b \in 0 .. INDEX - 1 :
        /\ rxdma = [prod |-> b, cons |-> 0, idx |-> 0, desc |-> [i \in 0..RING-1 |-> 0],
                    arrived |-> 0, held |-> 0, last |-> 0, cut |-> FALSE]
        /\ txdma = [prod |-> 0, cons |-> b, idx |-> -1, desc |-> [i \in 0..TXN-1 |-> "none"],
                    buf |-> 0, wait |-> 0, ok |-> 0, wire |-> {}, sends |-> 0, late |-> FALSE]
    BY <1>0 DEF Wire!EInit, Wire!None
<1>3. RxWire
  <2>1. rxdma \in RxDma
    BY <1>0, <1>2 DEF RxDma
  <2>2. NoRx(rxdma)
    BY <1>2 DEF NoRx
  <2> QED  BY <1>1, <2>1, <2>2 DEF RxWire
<1>4. TxWire
  <2>1. txdma \in TxDma
    <3>1. 0 \in 0 .. INDEX - 1 /\ b \in 0 .. INDEX - 1 /\ -1 \in Int /\ {} \in SUBSET Nat
        BY <1>0
    <3>2. [i \in 0..TXN-1 |-> "none"] \in [0 .. TXN - 1 -> {"none", "arp", "buf", "used"}]
        OBVIOUS
    <3> QED  BY <1>2, <3>1, <3>2 DEF TxDma
  <2>2. txdma.wait = 0 /\ txdma.ok = 0 /\ txdma.idx = -1
    BY <1>2
  <2> QED  BY <1>1, <2>1, <2>2 DEF TxWire, Wire!SentIsOnWire, Wire!None
<1>5. FanWire
    BY DEF Wire!EInit, FanWire
<1> QED  BY <1>1, <1>3, <1>4, <1>5 DEF WireInv

\* What the steps before "ready" do.
LEMMA UpStep ==
    ASSUME UpOk, Wire!ENext
    PROVE  UpOk' /\ unit' = unit /\ (link_up.pc = "ready" => link_up' = link_up)
<1>1. unit' = unit
    BY DEF Wire!ENext, Wire!genet_init, Wire!genet_link_poll, Wire!genet_send_one_arp, Wire!genet_arp_wait,
           Wire!genet_init_rx, Wire!rp1pcie_init, Wire!rp1eth_probe, Wire!rp1eth_start, Wire!HwReceive,
           Wire!genet_rx_poll, Wire!genet_rx_release, Wire!rp1eth_rx_poll, Wire!rp1eth_rx_release,
           Wire!genet_tx_frame, Wire!rp1eth_tx_frame, Wire!TxDone, Wire!HwSend,
           Wire!rp1fan_thermal_tick, Wire!fan_route
<1>2. CASE Wire!genet_init
    BY <1>1, <1>2 DEF Wire!genet_init, UpOk
<1>3. CASE Wire!genet_link_poll
  <2>1. PICK x \in {"arp", "dead", "link"} :
            unit = "genet" /\ link_up.pc = "link" /\ link_up' = [link_up EXCEPT !.polls = @ + 1, !.pc = x]
    BY <1>3 DEF Wire!genet_link_poll
  <2>2. link_up' = [pc |-> x, polls |-> link_up.polls + 1, pcie |-> link_up.pcie]
    BY <2>1 DEF UpOk
  <2> QED  BY <1>1, <2>1, <2>2 DEF UpOk
<1>4. CASE Wire!genet_send_one_arp \/ Wire!genet_arp_wait \/ Wire!genet_init_rx
    BY <1>1, <1>4 DEF Wire!genet_send_one_arp, Wire!genet_arp_wait, Wire!genet_init_rx, UpOk
<1>5. CASE Wire!rp1pcie_init
    BY <1>1, <1>5 DEF Wire!rp1pcie_init, UpOk
<1>6. CASE Wire!rp1eth_probe
    BY <1>1, <1>6 DEF Wire!rp1eth_probe, UpOk
<1>7. CASE Wire!rp1eth_start
    BY <1>1, <1>7 DEF Wire!rp1eth_start, UpOk
<1>8. CASE UNCHANGED link_up
    BY <1>1, <1>8 DEF UpOk
<1> QED
    BY <1>1, <1>2, <1>3, <1>4, <1>5, <1>6, <1>7, <1>8
       DEF Wire!ENext, Wire!HwReceive,
           Wire!genet_rx_poll, Wire!genet_rx_release, Wire!rp1eth_rx_poll, Wire!rp1eth_rx_release,
           Wire!genet_tx_frame, Wire!rp1eth_tx_frame, Wire!TxDone, Wire!HwSend,
           Wire!rp1fan_thermal_tick, Wire!fan_route

\* A step that leaves the rings alone and does not make the driver ready.
LEMMA RxKeeps ==
    ASSUME RxWire, rxdma' = rxdma, unit' = unit, link_up'.pc = "ready" <=> link_up.pc = "ready"
    PROVE  RxWire' /\ Wire!NextInOrder
<1>1. RxWire'
    BY DEF RxWire
<1> QED  BY <1>1 DEF Wire!NextInOrder

LEMMA TxKeeps ==
    ASSUME TxWire, txdma' = txdma, unit' = unit, link_up'.pc = "ready" <=> link_up.pc = "ready"
    PROVE  TxWire'
BY DEF TxWire, Wire!SentIsOnWire

\* The receive side.
LEMMA RxStep ==
    ASSUME UpOk, RxWire, Wire!ENext
    PROVE  RxWire' /\ Wire!NextInOrder
<1>0. /\ RING \in Nat \ {0} /\ INDEX \in Nat \ {0} /\ rxdma \in RxDma /\ UpOk' /\ unit' = unit
      /\ link_up.pc = "ready" => link_up' = link_up
    BY WireAssumption, UpStep DEF RxWire
<1>1. CASE Wire!genet_init_rx
  <2>1. /\ unit = "genet" /\ link_up.pc = "rx" /\ link_up'.pc = "ready"
        /\ rxdma' = [rxdma EXCEPT !.cons = rxdma.prod, !.idx = rxdma.prod % RING]
    BY <1>1 DEF Wire!genet_init_rx, UpOk
  <2>2. NoRx(rxdma)
    BY <2>1 DEF RxWire
  <2> DEFINE b == rxdma.prod
             i == b % RING
  <2>3. b \in 0 .. INDEX - 1 /\ b \in Nat
    BY <1>0, <2>2 DEF NoRx
  <2>4. i \in Nat /\ b % INDEX = b /\ b + 0 = b
    BY <1>0, <2>3, ModRange, ModSmall
  <2>5. rxdma' = [rxdma EXCEPT !.cons = b, !.idx = i]
    BY <2>1
  <2> HIDE DEF b, i
  <2>6. rxdma' \in RxDma
    BY <1>0, <2>3, <2>4, <2>5 DEF RxDma
  <2>7. /\ rxdma'.prod = b /\ rxdma'.cons = b /\ rxdma'.idx = i /\ rxdma'.arrived = 0 /\ rxdma'.held = 0
        /\ rxdma'.last = 0 /\ rxdma'.cut = FALSE
    BY <1>0, <2>2, <2>5 DEF RxDma, NoRx, b
  <2>8. GenetRx(rxdma', b, 0)
    BY <1>0, <2>3, <2>4, <2>7 DEF GenetRx, i
  <2>9. RxWire'
    BY <1>0, <2>1, <2>3, <2>6, <2>8 DEF RxWire
  <2> QED  BY <2>7, <2>9 DEF Wire!NextInOrder, Wire!None
<1>2. CASE Wire!rp1eth_start
  <2>1. CASE UNCHANGED rxdma /\ link_up' = [link_up EXCEPT !.polls = @ + 1]
    <3>1. link_up'.pc = link_up.pc
        BY <2>1 DEF UpOk
    <3> QED  BY <1>0, <2>1, <3>1, RxKeeps
  <2>2. CASE /\ link_up' = [link_up EXCEPT !.pc = "ready"]
             /\ rxdma' = [rxdma EXCEPT !.prod = 0, !.idx = 0]
    <3>1. unit = "gem" /\ link_up.pc = "start" /\ link_up'.pc = "ready"
        BY <1>2, <2>2 DEF Wire!rp1eth_start, UpOk
    <3>2. NoRx(rxdma)
        BY <3>1 DEF RxWire
    <3>3. rxdma' \in RxDma
        BY <1>0, <2>2 DEF RxDma
    <3>4. /\ rxdma'.prod = 0 /\ rxdma'.idx = 0 /\ rxdma'.arrived = 0 /\ rxdma'.held = 0
          /\ rxdma'.last = 0 /\ rxdma'.cut = FALSE /\ rxdma'.desc = rxdma.desc
        BY <1>0, <2>2, <3>2 DEF RxDma, NoRx
    <3>5. 0 % RING = 0
        BY <1>0, ModSmall
    <3>6. \A k \in Nat : rxdma'.desc[k % RING] = 0
        BY <1>0, <3>2, <3>4, ModRange DEF NoRx
    <3>7. GemRx(rxdma', 0)
        BY <1>0, <3>4, <3>5, <3>6 DEF GemRx
    <3>8. RxWire'
        BY <1>0, <3>1, <3>3, <3>7 DEF RxWire
    <3> QED  BY <3>4, <3>8 DEF Wire!NextInOrder, Wire!None
  <2> QED  BY <1>2, <2>1, <2>2 DEF Wire!rp1eth_start
<1>3. CASE Wire!HwReceive
  <2>0. link_up.pc = "ready" /\ link_up' = link_up /\ unit # "fan"
    BY <1>0, <1>3 DEF Wire!HwReceive, UpOk
  <2>1. CASE unit = "genet"
    <3>1. PICK b \in Nat, c \in Nat : GenetRx(rxdma, b, c)
        BY <2>0, <2>1 DEF RxWire
    <3>2. /\ (rxdma.prod + 1) % INDEX # rxdma.cons
          /\ rxdma' = GenetFilled(rxdma)
        BY <1>3, <2>1 DEF Wire!HwReceive, GenetFilled
    <3>3. rxdma' \in RxDma /\ GenetRx(rxdma', b, c) /\ rxdma'.held = rxdma.held
        BY Zenon, <1>0, <3>1, <3>2, GenetFills
    <3>4. RxWire'
        BY <1>0, <2>0, <2>1, <3>3 DEF RxWire
    <3> QED  BY <3>3, <3>4 DEF Wire!NextInOrder
  <2>2. CASE unit = "gem"
    <3>1. PICK c \in Nat : GemRx(rxdma, c)
        BY <2>0, <2>2 DEF RxWire
    <3>2. /\ rxdma.desc[rxdma.prod] = 0
          /\ rxdma' = [rxdma EXCEPT !.arrived = @ + 1, !.prod = (@ + 1) % RING,
                                    !.desc[rxdma.prod] = rxdma.arrived + 1]
        BY <1>3, <2>2 DEF Wire!HwReceive, Wire!None
    <3>3. rxdma' \in RxDma /\ GemRx(rxdma', c) /\ rxdma'.held = rxdma.held
        BY <1>0, <3>1, <3>2, GemFills
    <3>4. RxWire'
        BY <1>0, <2>0, <2>2, <3>3 DEF RxWire
    <3> QED  BY <3>3, <3>4 DEF Wire!NextInOrder
  <2> QED  BY <2>0, <2>1, <2>2 DEF UpOk
<1>4. CASE Wire!genet_rx_poll
  <2> DEFINE a == (rxdma.prod - rxdma.cons + INDEX) % INDEX
  <2>0. /\ link_up.pc = "ready" /\ link_up' = link_up /\ unit = "genet" /\ rxdma.held = 0 /\ a > 0
        /\ rxdma' = IF a > RING THEN Wire!genet_rx_recover(rxdma)
                    ELSE [rxdma EXCEPT !.held = rxdma.desc[rxdma.idx], !.last = rxdma.desc[rxdma.idx],
                                       !.cut = FALSE]
    BY <1>0, <1>4 DEF Wire!genet_rx_poll, Wire!None
  <2>1. PICK b \in Nat, c \in Nat : GenetRx(rxdma, b, c)
    BY <2>0 DEF RxWire
  <2>2. a = rxdma.arrived - c /\ (a <= RING => rxdma.desc[rxdma.idx] = c + 1)
    BY <1>0, <2>0, <2>1, GenetPolls
  <2> HIDE DEF a
  <2>3. rxdma.arrived \in Nat /\ a \in Int
    BY <1>0, <2>2 DEF RxDma
  <2>4. CASE a > RING
    <3>1. rxdma' \in RxDma /\ GenetRx(rxdma', b, rxdma.arrived) /\ rxdma'.held = 0
        BY <1>0, <2>0, <2>1, <2>4, GenetRecovers
    <3>2. RxWire'
        BY <1>0, <2>0, <2>3, <3>1 DEF RxWire
    <3> QED  BY <3>1, <3>2 DEF Wire!NextInOrder, Wire!None
  <2>5. CASE ~(a > RING)
    <3>1. rxdma.desc[rxdma.idx] = c + 1 /\ c < rxdma.arrived
        BY <1>0, <2>0, <2>2, <2>3, <2>5
    <3>2. rxdma' \in RxDma /\ GenetRx(rxdma', b, c) /\ rxdma'.held = c + 1
      <4>1. rxdma' = [rxdma EXCEPT !.held = rxdma.desc[rxdma.idx], !.last = rxdma.desc[rxdma.idx],
                                   !.cut = FALSE]
        BY <2>0, <2>5
      <4> QED  BY Zenon, <1>0, <2>1, <3>1, <4>1, GenetHolds
    <3>3. RxWire'
        BY <1>0, <2>0, <3>2 DEF RxWire
    <3>4. c + 1 = (rxdma.arrived + 1) - a /\ (~rxdma.cut => c + 1 = rxdma.last + 1)
        BY <2>0, <2>1, <2>2, <2>3 DEF GenetRx
    <3> QED  BY <3>2, <3>3, <3>4 DEF Wire!NextInOrder, Wire!None, a
  <2> QED  BY <2>4, <2>5
<1>5. CASE Wire!genet_rx_release
  <2>0. /\ unit = "genet" /\ rxdma.held # 0 /\ link_up' = link_up
        /\ rxdma' = [rxdma EXCEPT !.held = 0, !.cons = (@ + 1) % INDEX, !.idx = (@ + 1) % RING]
    BY <1>5 DEF Wire!genet_rx_release, Wire!None
  <2>1. link_up.pc = "ready"
    BY <2>0 DEF RxWire, NoRx
  <2>2. PICK b \in Nat, c \in Nat : GenetRx(rxdma, b, c)
    BY <2>0, <2>1 DEF RxWire
  <2>3. rxdma' \in RxDma /\ GenetRx(rxdma', b, c + 1) /\ rxdma'.held = 0
    BY <1>0, <2>0, <2>2, GenetReleases
  <2>4. c + 1 \in Nat
    OBVIOUS
  <2>5. RxWire'
    BY <1>0, <2>0, <2>1, <2>3, <2>4 DEF RxWire
  <2> QED  BY <2>3, <2>5 DEF Wire!NextInOrder, Wire!None
<1>6. CASE Wire!rp1eth_rx_poll
  <2>0. /\ unit = "gem" /\ rxdma.held = 0 /\ link_up' = link_up /\ link_up.pc = "ready"
        /\ rxdma.desc[rxdma.idx] # 0
        /\ rxdma' = [rxdma EXCEPT !.held = rxdma.desc[rxdma.idx], !.last = rxdma.desc[rxdma.idx]]
    BY <1>6 DEF Wire!rp1eth_rx_poll, Wire!None
  <2>1. PICK c \in Nat : GemRx(rxdma, c)
    BY <2>0 DEF RxWire
  <2>2. rxdma' \in RxDma /\ GemRx(rxdma', c) /\ rxdma'.held = c + 1 /\ rxdma.last = c /\ ~rxdma.cut
    BY <1>0, <2>0, <2>1, GemPolls
  <2>3. RxWire'
    BY <1>0, <2>0, <2>2 DEF RxWire
  <2> QED  BY <2>2, <2>3 DEF Wire!NextInOrder, Wire!None
<1>7. CASE Wire!rp1eth_rx_release
  <2>0. /\ unit = "gem" /\ rxdma.held # 0 /\ link_up' = link_up
        /\ rxdma' = [rxdma EXCEPT !.held = 0, !.desc[rxdma.idx] = 0, !.idx = (@ + 1) % RING]
    BY <1>7 DEF Wire!rp1eth_rx_release, Wire!None
  <2>1. link_up.pc = "ready"
    BY <2>0 DEF RxWire, NoRx
  <2>2. PICK c \in Nat : GemRx(rxdma, c)
    BY <2>0, <2>1 DEF RxWire
  <2>3. rxdma' \in RxDma /\ GemRx(rxdma', c + 1) /\ rxdma'.held = 0
    BY <1>0, <2>0, <2>2, GemReleases
  <2>4. c + 1 \in Nat
    OBVIOUS
  <2>5. RxWire'
    BY <1>0, <2>0, <2>1, <2>3, <2>4 DEF RxWire
  <2> QED  BY <2>3, <2>5 DEF Wire!NextInOrder, Wire!None
<1>8. CASE \/ Wire!genet_init \/ Wire!genet_link_poll \/ Wire!genet_send_one_arp \/ Wire!genet_arp_wait
           \/ Wire!rp1pcie_init \/ Wire!rp1eth_probe
  <2>1. rxdma' = rxdma /\ link_up.pc # "ready" /\ link_up'.pc # "ready"
    BY <1>8 DEF Wire!genet_init, Wire!genet_link_poll, Wire!genet_send_one_arp, Wire!genet_arp_wait,
                Wire!rp1pcie_init, Wire!rp1eth_probe, UpOk
  <2> QED  BY <1>0, <2>1, RxKeeps
<1>9. CASE \/ Wire!genet_tx_frame \/ Wire!rp1eth_tx_frame \/ Wire!TxDone \/ Wire!HwSend
           \/ Wire!rp1fan_thermal_tick \/ Wire!fan_route
  <2>1. rxdma' = rxdma /\ link_up' = link_up
    BY <1>9 DEF Wire!genet_tx_frame, Wire!rp1eth_tx_frame, Wire!TxDone, Wire!HwSend,
                Wire!rp1fan_thermal_tick, Wire!fan_route
  <2> QED  BY <1>0, <2>1, RxKeeps
<1> QED  BY Zenon, <1>1, <1>2, <1>3, <1>4, <1>5, <1>6, <1>7, <1>8, <1>9 DEF Wire!ENext

\* The transmit side.
LEMMA TxStep ==
    ASSUME UpOk, TxWire, Wire!ENext
    PROVE  TxWire'
<1>0. /\ TXN <= INDEX /\ TXN \in Nat \ {0} /\ INDEX \in Nat \ {0} /\ txdma \in TxDma /\ UpOk' /\ unit' = unit
      /\ link_up.pc = "ready" => link_up' = link_up
    BY RingFits, UpStep DEF TxWire
<1>1. CASE Wire!genet_send_one_arp
  <2> DEFINE p == (txdma.cons + 1) % INDEX
             i == txdma.cons % TXN
             e == [txdma.desc EXCEPT ![i] = "arp"]
  <2>1. /\ link_up.pc # "ready" /\ link_up'.pc # "ready"
        /\ txdma' = [txdma EXCEPT !.prod = p, !.desc[i] = "arp", !.wait = -1]
    BY <1>1 DEF Wire!genet_send_one_arp, UpOk
  <2>2. txdma.cons \in Nat /\ txdma.cons + 1 \in Nat
    BY <1>0 DEF TxDma
  <2>3. p \in 0 .. INDEX - 1 /\ i \in 0 .. TXN - 1
    BY <1>0, <2>2, ModRange
  <2>4. e \in [0 .. TXN - 1 -> {"none", "arp", "buf", "used"}]
    BY <1>0, <2>3 DEF TxDma
  <2>5. txdma' = [txdma EXCEPT !.prod = p, !.desc = e, !.wait = -1]
    BY <1>0, <2>1 DEF TxDma
  <2> HIDE DEF p, i, e
  <2>6. txdma' = [prod |-> p, cons |-> txdma.cons, idx |-> txdma.idx, desc |-> e, buf |-> txdma.buf,
                  wait |-> -1, ok |-> txdma.ok, wire |-> txdma.wire, sends |-> txdma.sends,
                  late |-> txdma.late]
    BY <1>0, <2>5 DEF TxDma
  <2>7. txdma' \in TxDma
    BY <1>0, <2>3, <2>4, <2>6 DEF TxDma
  <2>8. /\ txdma'.wait = -1 /\ txdma'.ok = txdma.ok /\ txdma'.wire = txdma.wire /\ txdma'.late = txdma.late
        /\ txdma'.idx = txdma.idx
    BY <1>0, <2>5 DEF TxDma
  <2> QED  BY <2>1, <2>7, <2>8 DEF TxWire, Wire!SentIsOnWire
<1>2. CASE Wire!genet_arp_wait
  <2>1. link_up.pc # "ready" /\ link_up'.pc # "ready" /\ txdma' = [txdma EXCEPT !.wait = 0]
    BY <1>2 DEF Wire!genet_arp_wait, Wire!None, UpOk
  <2>2. /\ txdma'.wait = 0 /\ txdma'.ok = txdma.ok /\ txdma'.wire = txdma.wire /\ txdma'.late = txdma.late
        /\ txdma'.idx = txdma.idx
    BY <1>0, <2>1 DEF TxDma
  <2>3. txdma' \in TxDma
    <3>1. txdma' = [prod |-> txdma.prod, cons |-> txdma.cons, idx |-> txdma.idx, desc |-> txdma.desc,
                    buf |-> txdma.buf, wait |-> 0, ok |-> txdma.ok, wire |-> txdma.wire,
                    sends |-> txdma.sends, late |-> txdma.late]
        BY <1>0, <2>1 DEF TxDma
    <3> QED  BY <1>0, <3>1 DEF TxDma
  <2> QED  BY <2>1, <2>2, <2>3 DEF TxWire, Wire!SentIsOnWire
<1>3. CASE Wire!genet_init_rx
  <2>1. unit = "genet" /\ link_up.pc # "ready" /\ txdma' = txdma
    BY <1>3 DEF Wire!genet_init_rx
  <2>2. txdma.idx = -1 /\ txdma.wait <= 0
    BY <2>1 DEF TxWire
  <2>3. ~(txdma.wait > 0)
    BY <1>0, <2>2 DEF TxDma
  <2> QED  BY <1>0, <2>1, <2>2, <2>3 DEF TxWire, Wire!SentIsOnWire
<1>4. CASE Wire!rp1eth_start
  <2>1. CASE UNCHANGED txdma /\ link_up' = [link_up EXCEPT !.polls = @ + 1]
    <3>1. link_up'.pc = link_up.pc
        BY <2>1 DEF UpOk
    <3> QED  BY <1>0, <2>1, <3>1, TxKeeps
  <2>2. CASE /\ link_up' = [link_up EXCEPT !.pc = "ready"]
             /\ txdma' = [txdma EXCEPT !.idx = 0, !.cons = 0, !.desc = [i \in 0..TXN-1 |-> "used"]]
    <3> DEFINE e == [i \in 0..TXN-1 |-> "used"]
    <3>1. unit = "gem" /\ link_up.pc = "start" /\ link_up'.pc = "ready"
        BY <1>4, <2>2 DEF Wire!rp1eth_start, UpOk
    <3>2. e \in [0 .. TXN - 1 -> {"none", "arp", "buf", "used"}] /\ 0 \in 0 .. INDEX - 1 /\ 0 \in 0 .. TXN - 1
        BY <1>0
    <3>3. ~(txdma.wait > 0)
        BY <1>0, <3>1 DEF TxWire, TxDma
    <3>4. txdma' = [txdma EXCEPT !.idx = 0, !.cons = 0, !.desc = e]
        BY <2>2
    <3> HIDE DEF e
    <3>5. /\ txdma'.wait = txdma.wait /\ txdma'.ok = txdma.ok /\ txdma'.wire = txdma.wire
          /\ txdma'.late = txdma.late /\ txdma'.idx = 0 /\ txdma'.cons = 0
        BY <1>0, <3>4 DEF TxDma
    <3>6. txdma' \in TxDma
      <4>1. txdma' = [prod |-> txdma.prod, cons |-> 0, idx |-> 0, desc |-> e, buf |-> txdma.buf,
                      wait |-> txdma.wait, ok |-> txdma.ok, wire |-> txdma.wire, sends |-> txdma.sends,
                      late |-> txdma.late]
        BY <1>0, <3>4 DEF TxDma
      <4> QED  BY <1>0, <3>2, <4>1 DEF TxDma
    <3>7. GemTx(txdma')
        BY <3>2, <3>3, <3>5 DEF GemTx
    <3> QED  BY <1>0, <3>1, <3>3, <3>5, <3>6, <3>7 DEF TxWire, Wire!SentIsOnWire
  <2> QED  BY <1>4, <2>1, <2>2 DEF Wire!rp1eth_start
<1>5. CASE Wire!genet_tx_frame
  <2> DEFINE x == IF txdma.idx < 0 THEN txdma.cons % TXN ELSE txdma.idx
  <2>1. /\ unit = "genet" /\ link_up.pc = "ready" /\ link_up' = link_up /\ txdma.wait = 0
        /\ txdma' = GenetQueued(txdma, x)
    BY <1>5 DEF Wire!genet_tx_frame, Wire!None, GenetQueued
  <2>2. /\ txdma.idx \in Nat \cup {-1}
        /\ txdma.idx # -1 /\ ~txdma.late => \E d \in 0 .. INDEX - 1 : GenetTx(txdma, d)
    BY <2>1 DEF TxWire
  <2>3. x = IF txdma.idx < 0 THEN txdma.cons % TXN ELSE txdma.idx
    OBVIOUS
  <2> HIDE DEF x
  <2>4. /\ txdma' \in TxDma /\ txdma'.buf = txdma'.wait /\ txdma'.wait > 0 /\ txdma'.ok = txdma.ok
        /\ txdma'.wire = txdma.wire /\ (txdma.late => txdma'.late) /\ txdma'.idx \in Nat
        /\ ~txdma'.late => \E d \in 0 .. INDEX - 1 : GenetTx(txdma', d)
    BY Zenon, <1>0, <2>1, <2>2, <2>3, GenetSends
  <2>5. txdma'.idx # -1
    BY <2>4
  <2> QED  BY <1>0, <2>1, <2>4, <2>5 DEF TxWire, Wire!SentIsOnWire
<1>6. CASE Wire!rp1eth_tx_frame
  <2>1. /\ unit = "gem" /\ link_up.pc = "ready" /\ link_up' = link_up
        /\ txdma' = [txdma EXCEPT !.sends = @ + 1, !.buf = txdma.sends + 1, !.wait = txdma.sends + 1,
                         !.desc[txdma.idx] = "buf"]
    BY <1>6 DEF Wire!rp1eth_tx_frame
  <2>2. /\ txdma' \in TxDma /\ txdma'.buf = txdma'.wait /\ txdma'.ok = txdma.ok
        /\ txdma'.wire = txdma.wire /\ txdma'.late = txdma.late /\ GemTx(txdma')
    BY Zenon, <1>0, <2>1, GemSends DEF TxWire
  <2> QED  BY <1>0, <2>1, <2>2 DEF TxWire, Wire!SentIsOnWire
<1>7. CASE Wire!TxDone
  <2> DEFINE g == unit = "gem"
             y == Wire!Completed
  <2>0. txdma.wait > 0 /\ link_up' = link_up
        /\ txdma' = TxEnded(txdma, g, y)
    BY <1>7 DEF Wire!TxDone, Wire!None, TxEnded
  <2>1. link_up.pc = "ready" /\ unit # "fan"
    BY <1>0, <2>0 DEF TxWire, TxDma, UpOk
  <2>2. g \in BOOLEAN /\ y \in BOOLEAN /\ (g => GemTx(txdma))
    BY <2>1 DEF TxWire, Wire!Completed
  <2>3. unit = "genet" <=> ~g
    BY <2>1 DEF UpOk
  <2>4. ASSUME y, ~txdma.late PROVE txdma.wait \in txdma.wire
    <3>1. CASE unit = "gem"
      <4>1. txdma.desc[txdma.idx] = "used"
        BY <2>4, <3>1 DEF Wire!Completed
      <4> QED  BY <2>0, <2>2, <3>1, <4>1 DEF GemTx
    <3>2. CASE unit = "genet"
      <4>1. txdma.cons = txdma.prod
        BY <2>4, <3>2 DEF Wire!Completed
      <4>2. PICK d \in 0 .. INDEX - 1 : GenetTx(txdma, d)
        BY <2>0, <2>1, <2>4, <3>2 DEF TxWire
      <4>3. txdma.cons \in Nat /\ txdma.cons \in 0 .. INDEX - 1 /\ d \in Nat /\ txdma.cons + d \in Nat
        BY <1>0 DEF TxDma
      <4>4. d = 0
        <5> SUFFICES ASSUME d > 0 PROVE FALSE
            BY <4>3
        <5>1. txdma.cons < txdma.cons + d /\ txdma.cons + d < txdma.cons + INDEX
            BY <1>0, <4>3
        <5>2. txdma.cons % INDEX # (txdma.cons + d) % INDEX
            BY <1>0, <4>3, <5>1, ModApart
        <5>3. txdma.cons % INDEX = txdma.cons
            BY <1>0, <4>3, ModSmall
        <5> QED  BY <4>1, <4>2, <5>2, <5>3 DEF GenetTx
      <4> QED  BY <2>0, <4>2, <4>4 DEF GenetTx
    <3> QED  BY <2>1, <3>1, <3>2 DEF UpOk
  <2> HIDE DEF g, y
  <2>5. /\ txdma' \in TxDma /\ txdma'.wait = 0 /\ txdma'.ok = (IF y THEN txdma.wait ELSE 0)
        /\ txdma'.late = txdma.late /\ txdma'.wire = txdma.wire /\ txdma'.prod = txdma.prod
        /\ txdma'.cons = txdma.cons /\ txdma'.desc = txdma.desc
        /\ (~g => txdma'.idx = txdma.idx) /\ (g => GemTx(txdma'))
    BY <1>0, <2>0, <2>2, TxEnds
  <2>6. Wire!SentIsOnWire'
    BY <2>4, <2>5 DEF Wire!SentIsOnWire, Wire!None
  <2>7. ASSUME NEW d \in 0 .. INDEX - 1, ~g, GenetTx(txdma, d) PROVE GenetTx(txdma', d)
    BY <2>5, <2>7 DEF GenetTx
  <2>8. ASSUME unit = "genet"
        PROVE  /\ txdma'.idx \in Nat \cup {-1}
               /\ txdma'.idx # -1 /\ ~txdma'.late => \E d \in 0 .. INDEX - 1 : GenetTx(txdma', d)
    <3>1. ~g
        BY <2>3, <2>8
    <3>2. /\ txdma.idx \in Nat \cup {-1}
          /\ txdma.idx # -1 /\ ~txdma.late => \E d \in 0 .. INDEX - 1 : GenetTx(txdma, d)
        BY <2>1, <2>8 DEF TxWire
    <3> QED  BY <2>5, <2>7, <3>1, <3>2
  <2>9. unit = "gem" => GemTx(txdma')
    BY <2>5 DEF g
  <2> QED  BY <1>0, <2>0, <2>1, <2>5, <2>6, <2>8, <2>9 DEF TxWire
<1>8. CASE Wire!HwSend
  <2>0. link_up' = link_up
    BY <1>8 DEF Wire!HwSend
  <2>1. CASE unit = "genet"
    <3>1. /\ txdma.cons # txdma.prod
          /\ txdma' = Taken(txdma, INDEX, txdma.desc[txdma.cons % TXN])
        BY <1>0, <1>8, <2>1 DEF Wire!HwSend, Taken, TxDma
    <3>2. txdma.wait > 0 => txdma.buf = txdma.wait
        BY DEF TxWire
    <3>3. /\ txdma' \in TxDma /\ txdma'.buf = txdma.buf /\ txdma'.wait = txdma.wait /\ txdma'.ok = txdma.ok
          /\ txdma'.idx = txdma.idx /\ txdma'.late = txdma.late /\ txdma.wire \subseteq txdma'.wire
          /\ (\E d \in 0 .. INDEX - 1 : GenetTx(txdma, d)) => \E d \in 0 .. INDEX - 1 : GenetTx(txdma', d)
        BY <1>0, <3>1, <3>2, GenetSent
    <3> QED  BY <1>0, <2>0, <2>1, <3>3 DEF TxWire, Wire!SentIsOnWire
  <2>2. CASE unit = "gem"
    <3>1. /\ link_up.pc = "ready" /\ txdma.desc[txdma.cons % TXN] = "buf"
          /\ txdma' = Taken(txdma, TXN, "used")
        BY <1>8, <2>2 DEF Wire!HwSend, Taken
    <3>2. (txdma.wait > 0 => txdma.buf = txdma.wait) /\ GemTx(txdma)
        BY <2>2, <3>1 DEF TxWire
    <3>3. /\ txdma' \in TxDma /\ txdma'.buf = txdma.buf /\ txdma'.wait = txdma.wait /\ txdma'.ok = txdma.ok
          /\ txdma'.late = txdma.late /\ txdma.wire \subseteq txdma'.wire /\ GemTx(txdma')
        BY Zenon, <1>0, <3>1, <3>2, GemSent
    <3> QED  BY <1>0, <2>0, <2>2, <3>1, <3>3 DEF TxWire, Wire!SentIsOnWire
  <2>3. CASE unit = "fan"
    BY <1>8, <2>3 DEF Wire!HwSend, UpOk
  <2> QED  BY <2>1, <2>2, <2>3 DEF UpOk
<1>9. CASE \/ Wire!genet_init \/ Wire!genet_link_poll \/ Wire!rp1pcie_init \/ Wire!rp1eth_probe
  <2>1. txdma' = txdma /\ link_up.pc # "ready" /\ link_up'.pc # "ready"
    BY <1>9 DEF Wire!genet_init, Wire!genet_link_poll, Wire!rp1pcie_init, Wire!rp1eth_probe, UpOk
  <2> QED  BY <1>0, <2>1, TxKeeps
<1>10. CASE \/ Wire!HwReceive \/ Wire!genet_rx_poll \/ Wire!genet_rx_release \/ Wire!rp1eth_rx_poll
            \/ Wire!rp1eth_rx_release \/ Wire!rp1fan_thermal_tick \/ Wire!fan_route
  <2>1. txdma' = txdma /\ link_up' = link_up
    BY <1>10 DEF Wire!HwReceive, Wire!genet_rx_poll, Wire!genet_rx_release, Wire!rp1eth_rx_poll,
                 Wire!rp1eth_rx_release, Wire!rp1fan_thermal_tick, Wire!fan_route
  <2> QED  BY <1>0, <2>1, TxKeeps
<1> QED  BY Zenon, <1>1, <1>2, <1>3, <1>4, <1>5, <1>6, <1>7, <1>8, <1>9, <1>10 DEF Wire!ENext

\* A tick of the thermal loop writes down the temperature and the stage it chose.
FanRead(f, mc, st) == [f EXCEPT !.last = mc, !.stage = st, !.events = @ + 1]

LEMMA FanReads ==
    ASSUME NEW f \in [auto : BOOLEAN, stage : -1 .. 4, level : Int, last : Int, events : Int],
           NEW mc \in Int, NEW st \in -1 .. 4
    PROVE  /\ FanRead(f, mc, st) \in [auto : BOOLEAN, stage : -1 .. 4, level : Int, last : Int, events : Int]
           /\ FanRead(f, mc, st).stage = st /\ FanRead(f, mc, st).last = mc
<1> DEFINE ev == f.events + 1
<1>1. ev \in Int /\ FanRead(f, mc, st) = [f EXCEPT !.last = mc, !.stage = st, !.events = ev]
    BY DEF FanRead
<1> HIDE DEF ev
<1>2. FanRead(f, mc, st) = [auto |-> f.auto, stage |-> st, level |-> f.level, last |-> mc, events |-> ev]
    BY <1>1
<1> QED  BY <1>1, <1>2

\* The fan regulator.
LEMMA FanStep ==
    ASSUME FanWire, Wire!ENext
    PROVE  FanWire'
<1> DEFINE Fits(st, mc) == st >= 0 /\ mc >= 0 => /\ st < 4 => mc < Wire!Up[st + 1]
                                                 /\ st > 0 => mc >= Wire!Up[st] - 5
           IsFan(f) == f \in [auto : BOOLEAN, stage : -1 .. 4, level : Int, last : Int, events : Int]
<1>0. IsFan(fan) /\ Fits(fan.stage, fan.last) /\ Temps \subseteq Int
    BY WireAssumption DEF FanWire
<1>1. ASSUME NEW f, IsFan(f), Fits(f.stage, f.last), NEW level \in Int, fan' \in Wire!rp1fan_set(f, level)
      PROVE  FanWire'
  <2>1. PICK v \in Int : fan' = f \/ fan' = [f EXCEPT !.level = v]
    BY <1>1 DEF Wire!rp1fan_set
  <2>2. IsFan(fan') /\ fan'.stage = f.stage /\ fan'.last = f.last
    BY <1>1, <2>1
  <2> QED  BY <1>1, <2>2 DEF FanWire
<1>2. CASE Wire!fan_route
  <2> DEFINE f == [fan EXCEPT !.events = @ + 1]
  <2>1. IsFan(f) /\ f.stage = fan.stage /\ f.last = fan.last
    BY <1>0
  <2>2. \/ \E on \in BOOLEAN : fan' = [f EXCEPT !.auto = on]
        \/ \E level \in {0, 300} : fan' \in Wire!rp1fan_set([f EXCEPT !.auto = FALSE], level)
    BY <1>2 DEF Wire!fan_route
  <2> HIDE DEF f
  <2>3. CASE \E on \in BOOLEAN : fan' = [f EXCEPT !.auto = on]
    <3>1. IsFan(fan') /\ fan'.stage = fan.stage /\ fan'.last = fan.last
        BY <2>1, <2>3
    <3> QED  BY <1>0, <3>1 DEF FanWire
  <2>4. CASE \E level \in {0, 300} : fan' \in Wire!rp1fan_set([f EXCEPT !.auto = FALSE], level)
    <3> DEFINE h == [f EXCEPT !.auto = FALSE]
    <3>1. IsFan(h) /\ h.stage = fan.stage /\ h.last = fan.last
        BY <2>1
    <3>2. PICK level \in Int : fan' \in Wire!rp1fan_set(h, level)
        BY <2>4
    <3> HIDE DEF h
    <3> QED  BY <1>0, <1>1, <3>1, <3>2
  <2> QED  BY <2>2, <2>3, <2>4
<1>3. CASE Wire!rp1fan_thermal_tick
  <2> DEFINE st0 == IF fan.stage < 0 THEN 0 ELSE fan.stage
  <2>1. PICK mc \in Temps :
            LET st == IF mc >= 0 THEN Wire!Stage(st0, mc) ELSE st0
                f  == [fan EXCEPT !.last = mc, !.stage = st, !.events = @ + 1]
            IN  fan' \in IF st # fan.stage THEN Wire!rp1fan_set(f, Wire!Lvl[st + 1]) ELSE {f}
    BY <1>3 DEF Wire!rp1fan_thermal_tick
  <2> DEFINE st == IF mc >= 0 THEN Wire!Stage(st0, mc) ELSE st0
             f  == FanRead(fan, mc, st)
  <2>2. fan' \in Wire!rp1fan_set(f, Wire!Lvl[st + 1]) \/ fan' = f
    BY <2>1 DEF FanRead
  <2>3. st0 \in 0 .. 4 /\ mc \in Int
    BY <1>0
  <2> HIDE DEF st0
  <2>4. st \in 0 .. 4 /\ Fits(st, mc)
    <3>1. CASE mc >= 0
        BY <2>3, <3>1, StageIs
    <3>2. CASE ~(mc >= 0)
        BY <2>3, <3>2
    <3> QED  BY <3>1, <3>2
  <2> HIDE DEF st
  <2>5. IsFan(f) /\ f.stage = st /\ f.last = mc
    <3>1. st \in -1 .. 4 /\ mc \in Int /\ IsFan(fan)
        BY <1>0, <2>3, <2>4
    <3> QED  BY Zenon, <3>1, FanReads
  <2>6. Wire!Lvl[st + 1] \in Int
    BY <2>4 DEF Wire!Lvl
  <2> HIDE DEF f
  <2>7. CASE fan' = f
    <3>1. IsFan(fan') /\ Fits(fan'.stage, fan'.last)
        BY <2>4, <2>5, <2>7
    <3> QED  BY <3>1 DEF FanWire
  <2>8. CASE fan' \in Wire!rp1fan_set(f, Wire!Lvl[st + 1])
    <3>1. Fits(f.stage, f.last)
        BY <2>4, <2>5
    <3> HIDE DEF Fits, IsFan
    <3> QED  BY <1>1, <2>5, <2>6, <2>8, <3>1
  <2> QED  BY <2>2, <2>7, <2>8
<1>4. CASE UNCHANGED fan
    BY <1>4 DEF FanWire
<1> QED
    BY <1>2, <1>3, <1>4
       DEF Wire!ENext, Wire!genet_init, Wire!genet_link_poll, Wire!genet_send_one_arp, Wire!genet_arp_wait,
           Wire!genet_init_rx, Wire!rp1pcie_init, Wire!rp1eth_probe, Wire!rp1eth_start, Wire!HwReceive,
           Wire!genet_rx_poll, Wire!genet_rx_release, Wire!rp1eth_rx_poll, Wire!rp1eth_rx_release,
           Wire!genet_tx_frame, Wire!rp1eth_tx_frame, Wire!TxDone, Wire!HwSend

LEMMA WireStep ==
    ASSUME WireInv, Wire!ENext \/ UNCHANGED ethvars
    PROVE  WireInv' /\ Wire!NextInOrder
<1>1. CASE Wire!ENext
    BY Zenon, <1>1, UpStep, RxStep, TxStep, FanStep DEF WireInv
<1>2. CASE UNCHANGED ethvars
  <2>1. UNCHANGED <<unit, link_up, rxdma, txdma, fan>>
    BY <1>2 DEF ethvars
  <2>2. UpOk' /\ FanWire'
    BY Zenon, <2>1 DEF WireInv, UpOk, FanWire
  <2>3. link_up'.pc = link_up.pc
    BY <2>1
  <2> QED  BY <2>1, <2>2, <2>3, RxKeeps, TxKeeps DEF WireInv
<1> QED  BY <1>1, <1>2

LEMMA WireSound ==
    ASSUME WireInv
    PROVE  Wire!SentIsOnWire /\ Wire!StageFits
<1>1. Wire!SentIsOnWire
    BY DEF WireInv, TxWire
<1>2. Wire!StageFits
    BY DEF WireInv, FanWire, Wire!StageFits
<1> QED  BY <1>1, <1>2

LEMMA WireScene ==
    ASSUME [Next]_allvars
    PROVE  scene' = scene /\ (scene = "wire" => Wire!ENext \/ UNCHANGED ethvars)
<1>1. CASE UNCHANGED allvars
    BY <1>1 DEF allvars
<1>2. CASE Next
    BY Zenon, <1>2 DEF Next, Rest
<1> QED  BY Zenon, <1>1, <1>2

\* genet.c, rp1eth.c and rp1fan.c, for rings and index widths of any size, any positions the
\* firmware leaves, and any numbers of frames: the receive ring hands on the next frame in
\* order through laps, wraps and recoveries, a frame reported sent has been on the wire, and
\* the fan's stage fits its temperature.
THEOREM WireIsExact == Spec => WireExact
<1> DEFINE WI == scene = "wire" => WireInv
           Sound == scene = "wire" => Wire!SentIsOnWire /\ Wire!StageFits
           Act == scene = "wire" => Wire!NextInOrder
<1>1. Init => WI
  <2>1. Init /\ scene = "wire" => Wire!EInit
    BY Zenon DEF Init
  <2> QED  BY Zenon, <2>1, WireInit
<1>2. WI /\ [Next]_allvars => WI'
    BY Zenon, WireScene, WireStep
<1>3. WI => Sound
    BY Zenon, WireSound
<1>4. WI /\ [Next]_allvars => [Act]_allvars
    BY Zenon, WireScene, WireStep
<1> HIDE DEF WI, Sound, Act
<1>5. Spec => []Sound /\ [][Act]_allvars
    BY <1>1, <1>2, <1>3, <1>4, PTL DEF Spec
<1> QED  BY <1>5 DEF WireExact, Sound, Act

-----------------------------------------------------------------------------
(* The scenes.                                                             *)

\* A step of the network is a step of the scene's part, or leaves it as it is.
LEMMA SceneStep ==
    ASSUME [Next]_allvars
    PROVE  /\ scene' = scene
           /\ scene = "route" => Route!Next \/ UNCHANGED aodvvars
           /\ scene = "flood" => Flood!Next \/ UNCHANGED manetvars
           /\ scene = "stack" => Stack!Next \/ UNCHANGED xinuvars
           /\ scene = "routes" => Routes!Next \/ UNCHANGED httpvars
<1>1. CASE UNCHANGED allvars
    BY <1>1 DEF allvars
<1>2. CASE Next
    BY Zenon, <1>2 DEF Next, Rest
<1> QED  BY <1>1, <1>2

MeshInv == (scene = "route" => RouteInv) /\ (scene = "flood" => FloodInv)

\* wifi.c, aodv_ip_in and manet_ip_in: routes descend, however frames are lost, late or
\* repeated, and what a fire counts as acknowledged has been learned - for any number of
\* boards, ids and virtual senders.
THEOREM MeshIsSound == Spec => []MeshSound
<1>1. Init => MeshInv
    BY Zenon, RouteInit, FloodInit DEF Init, MeshInv
<1>2. MeshInv /\ [Next]_allvars => MeshInv'
  <2> SUFFICES ASSUME MeshInv, [Next]_allvars PROVE MeshInv'
    OBVIOUS
  <2>1. ASSUME scene = "route" PROVE RouteInv'
    <3>1. RouteInv /\ (Route!Next \/ UNCHANGED aodvvars)
        BY <2>1, SceneStep DEF MeshInv
    <3>2. CASE UNCHANGED aodvvars
        BY <3>1, <3>2 DEF aodvvars, RouteInv, Tables, Descent, FrameTrue
    <3> QED  BY <3>1, <3>2, RouteStep
  <2>2. ASSUME scene = "flood" PROVE FloodInv'
    <3>1. FloodInv /\ (Flood!Next \/ UNCHANGED manetvars)
        BY <2>2, SceneStep DEF MeshInv
    <3>2. CASE UNCHANGED manetvars
      <4>1. Calm /\ UNCHANGED <<ether, g_mn_collect, g_mn_acks>> /\ FloodTypes
        BY <3>1, <3>2 DEF manetvars, FloodInv, FloodTypes, Calm
      <4> QED  BY <3>1, <4>1, CalmStep DEF FloodTypes
    <3> QED  BY <3>1, <3>2, FloodStep
  <2> QED  BY <2>1, <2>2, SceneStep DEF MeshInv
<1>3. MeshInv => MeshSound
    BY RouteSound, FloodSound DEF MeshInv, MeshSound
<1> QED  BY <1>1, <1>2, <1>3, PTL DEF Spec

\* network/net and network/arp: no packet buffer is in two hands, and an address has one
\* ARP entry - for any pool, queues and table.
THEOREM BuffersAreOwned == Spec => []BuffersOwned
<1> DEFINE I == scene = "stack" => StackInv
<1>1. Init => I
    BY StackInit DEF Init
<1>2. I /\ [Next]_allvars => I'
  <2> SUFFICES ASSUME I, [Next]_allvars, scene = "stack" PROVE StackInv'
    BY SceneStep
  <2>1. StackInv /\ (Stack!Next \/ UNCHANGED xinuvars)
    BY SceneStep
  <2>2. CASE UNCHANGED xinuvars
    <3>1. OwnInv'
        BY <2>1, <2>2, OwnKept DEF xinuvars, StackInv
    <3> QED  BY <2>1, <2>2, <3>1 DEF xinuvars, StackInv
  <2> QED  BY <2>1, <2>2, StackStep
<1>3. I => BuffersOwned
    BY StackSound DEF BuffersOwned
<1> QED  BY <1>1, <1>2, <1>3, PTL DEF Spec

\* tcp_server.c, the routes that keep state: what /chainload boots is the uploaded image,
\* a camera picture is one frame, and no two processes share a benchmark stack - for any
\* images, buffer, rows and slices.
THEOREM RoutesAreSound == Spec => []RoutesSound
<1> DEFINE I == scene = "routes" => RoutesInv
<1>1. Init => I
    BY RoutesInit DEF Init
<1>2. I /\ [Next]_allvars => I'
  <2> SUFFICES ASSUME I, [Next]_allvars, scene = "routes" PROVE RoutesInv'
    BY SceneStep
  <2>1. RoutesInv /\ (Routes!Next \/ UNCHANGED httpvars)
    BY SceneStep
  <2>2. CASE UNCHANGED httpvars
    <3>1. UploadInv'
        BY <2>1, <2>2 DEF httpvars, RoutesInv, UploadInv, Routes!BootsUpload, Routes!Nothing
    <3>2. SnapInv' /\ HogInv'
        BY <2>1, <2>2 DEF httpvars, RoutesInv, SnapInv, HogInv
    <3> QED  BY <3>1, <3>2 DEF RoutesInv
  <2> QED  BY <2>1, <2>2, UploadStep, SnapStep, HogStep DEF RoutesInv
<1>3. I => RoutesSound
    BY RoutesHold DEF RoutesSound
<1> QED  BY <1>1, <1>2, <1>3, PTL DEF Spec
=============================================================================
