------------------------------- MODULE MCNet --------------------------------
(***************************************************************************)
(* The network of the machine, one scene at a time: the receive path, the  *)
(* TCP server and its routes, the Xinu stack, the Ethernet controllers,    *)
(* and the two mesh protocols.  The variables of the parts a scene is not  *)
(* about are Off.                                                          *)
(***************************************************************************)
EXTENDS Integers, Sequences, FiniteSets

CONSTANTS
    \* the receive path: ring, stash, frames per drain, frames without and with programs
    RXN, STASH_MAX, BUDGET, Plain, Mixed,
    \* the TCP server: sequence numbers, request, responses, window, retries, bounds
    Modulus, ISN, ISNStep, ClientISN, ReqLen, SHORT, LONG, INFLIGHT, RETRIES, MANY, FEW,
    \* the routes that keep state: kernels uploaded, camera, benchmark
    Image, CAP, PICTURES, ROWS, SAMPLES, CHUNK, YIELDS,
    \* the Xinu stack: buffers, addresses, ARP table, queues, sizes
    Buf, Addr, Hw, ARP_NENTRY, ARP_NTHRWAIT, ARP_MAX_LOOKUP, ARP_NQUEUE, ICMP_NQUEUE,
    TTL_UNRESOLVED, TTL_RESOLVED, MTU, HDR, IpLen, MAXTIME,
    \* the Ethernet controllers and the fan: rings, indices, firmware's positions, bounds
    RING, TXN, INDEX, LeftAt, LINKPOLLS, Temps, ARRIVALS, SENDS, TICKS,
    \* on-demand routing: boards, slots, rounds, routes wanted
    Station, AODV_NRT, SEEN, TRIES, Want, MAXREQ,
    \* fact flooding: boards, those that fire, virtual ones, ids
    Board, Firer, Virtual, Fid, MN_MAXKNOWN, MAXSEQ

VARIABLES
    scene,
    ring, g_rxhead, hw, toCome, arrived, handled, g_rx_busy, g_rx_remote_only, g_stash,
    rxcopy, pc, held, budget, caller, g_have, cpu, ready, inTcp,
    g_conn, g_reqlen, g_isn_seed, served, client, toServer, toClient,
    g_chain_stage, g_chain_len, image_up, booted, camera, snap, got, serving, hogs,
    meas, g_jit_hog_run, g_jit_done, g_preempt, left, bench_busy, g_adhoc,
    g_adhoc_pending, joined,
    inited, netif_up, pool, arptab, clktime, arpqueue, icmpqueue, masked, wild,
    unit, link_up, rxdma, txdma, fan,
    g_rt, g_seen, g_rreqid, disc, air, pkt,
    g_mn_nbr, g_mn_proxy, g_mn_ackonly, g_mn_known, g_mn_peers, g_mn_seq, g_mn_wait,
    g_mn_collect, g_mn_acks, firing, ether, told

Off == "off"

-----------------------------------------------------------------------------
\* The receive path.  "drain": the net process and the window manager's loop
\* drain one ring.  "window": a program that makes remote calls runs inside the
\* net process.  "shell" and "fetch": the shell's cc and the browser's fetch
\* drain the ring from processes of their own.
Rx(ctx, kinds, calls) == INSTANCE RxPath WITH Ctx <- ctx, Kind <- kinds, ShellCalls <- calls

Requests == <<"tcp", "tcp", "tcp", "tcp">>
Program == <<"tcp", "run", "remote", "tcp">>

rxvars == <<ring, g_rxhead, hw, toCome, arrived, handled, g_rx_busy, g_rx_remote_only,
            g_stash, rxcopy, pc, held, budget, caller, g_have, cpu, ready, inTcp>>
RxOff ==
    /\ ring = Off /\ g_rxhead = Off /\ hw = Off /\ toCome = Off /\ arrived = Off
    /\ handled = Off /\ g_rx_busy = Off /\ g_rx_remote_only = Off /\ g_stash = Off
    /\ rxcopy = Off /\ pc = Off /\ held = Off /\ budget = Off /\ caller = Off
    /\ g_have = Off /\ cpu = Off /\ ready = Off /\ inTcp = Off

-----------------------------------------------------------------------------
\* The TCP server and one connection of a client, over a network that loses, repeats
\* and reorders.  "request": a short response, more segments in flight each way.
\* "response": a longer response, fewer in flight.
Tcp(resp, flight) == INSTANCE TcpServer
    WITH Clients <- {"a"}, RespLen <- resp, MaxFlight <- flight, MaxConns <- 1,
         Delayed <- FALSE

tcpvars == <<g_conn, g_reqlen, g_isn_seed, served, client, toServer, toClient>>
TcpOff ==
    /\ g_conn = Off /\ g_reqlen = Off /\ g_isn_seed = Off /\ served = Off
    /\ client = Off /\ toServer = Off /\ toClient = Off

-----------------------------------------------------------------------------
\* The routes that keep state between requests: the upload of kernels (here
\* three, of these lengths), the camera, the benchmark processes, the ad-hoc cell.
Kernels == <<2, 3, 1>>

Routes == INSTANCE HttpRoutes
    WITH FRAMES <- PICTURES, up <- image_up

httpvars == <<g_chain_stage, g_chain_len, image_up, booted, camera, snap, got, serving,
              hogs, meas, g_jit_hog_run, g_jit_done, g_preempt, left, bench_busy,
              g_adhoc, g_adhoc_pending, joined>>
HttpOff ==
    /\ g_chain_stage = Off /\ g_chain_len = Off /\ image_up = Off /\ booted = Off
    /\ camera = Off /\ snap = Off /\ got = Off /\ serving = Off /\ hogs = Off
    /\ meas = Off /\ g_jit_hog_run = Off /\ g_jit_done = Off /\ g_preempt = Off
    /\ left = Off /\ bench_busy = Off /\ g_adhoc = Off /\ g_adhoc_pending = Off
    /\ joined = Off

-----------------------------------------------------------------------------
\* The Xinu network stack.
Stack == INSTANCE XinuNet WITH up <- netif_up

xinuvars == <<inited, netif_up, pool, arptab, clktime, arpqueue, icmpqueue, masked,
              wild>>
XinuOff ==
    /\ inited = Off /\ netif_up = Off /\ pool = Off /\ arptab = Off /\ clktime = Off
    /\ arpqueue = Off /\ icmpqueue = Off /\ masked = Off /\ wild = Off

-----------------------------------------------------------------------------
\* The Ethernet controllers and the fan; in the run rings of two, indices modulo
\* eight that do not start at zero, six temperatures and a failed reading.
Degrees == {-1, 40, 50, 55, 64, 70, 80}

Wire == INSTANCE Ethernet
    WITH Boot <- LeftAt, FRAMES <- ARRIVALS, up <- link_up, rx <- rxdma, tx <- txdma

ethvars == <<unit, link_up, rxdma, txdma, fan>>
EthOff ==
    /\ unit = Off /\ link_up = Off /\ rxdma = Off /\ txdma = Off /\ fan = Off

-----------------------------------------------------------------------------
\* On-demand routing: here three boards, two of which look for the third.
TwoToOne == {<<"a", "c">>, <<"b", "c">>}

Route == INSTANCE Aodv WITH Node <- Station

aodvvars == <<g_rt, g_seen, g_rreqid, disc, air, pkt>>
AodvOff ==
    /\ g_rt = Off /\ g_seen = Off /\ g_rreqid = Off /\ disc = Off /\ air = Off
    /\ pkt = Off

-----------------------------------------------------------------------------
\* Fact flooding between boards that also stand for virtual ones.
Flood == INSTANCE Manet WITH Node <- Board, Offset <- [f \in Fid |-> f + 1000]

manetvars == <<g_mn_nbr, g_mn_proxy, g_mn_ackonly, g_mn_known, g_mn_peers, g_mn_seq,
               g_mn_wait, g_mn_collect, g_mn_acks, firing, ether, told>>
ManetOff ==
    /\ g_mn_nbr = Off /\ g_mn_proxy = Off /\ g_mn_ackonly = Off /\ g_mn_known = Off
    /\ g_mn_peers = Off /\ g_mn_seq = Off /\ g_mn_wait = Off /\ g_mn_collect = Off
    /\ g_mn_acks = Off /\ firing = Off /\ ether = Off /\ told = Off

-----------------------------------------------------------------------------
\* The sizes the code's constants keep to, and the names do not meet.  An image
\* has bytes, a measurement is drained for at least one chunk of the hog
\* (tcp_server.c), a route table has a slot for every board (wifi.c: AODV_NRT)
\* and a fact table one for every id (MN_MAXKNOWN).
ASSUME NetAssumption ==
    /\ RXN \in Nat \ {0} /\ STASH_MAX \in Nat /\ BUDGET \in Nat
    /\ Plain \in Seq({"tcp", "remote", "page"}) /\ Mixed \in Seq({"tcp", "run", "remote", "page"})
    /\ ISN \in Nat /\ ISNStep \in Nat \ {0} /\ ClientISN \in Nat /\ Modulus \in Nat
    /\ ReqLen \in Nat \ {0} /\ SHORT \in Nat \ {0} /\ LONG \in Nat \ {0}
    /\ INFLIGHT \in Nat \ {0} /\ RETRIES \in Nat
    /\ ISN + SHORT + 2 < Modulus /\ ISN + LONG + 2 < Modulus /\ ClientISN + ReqLen + 2 < Modulus
    /\ Image \in Seq(Nat \ {0}) /\ CAP \in Nat \ {0} /\ ROWS \in Nat \ {0}
    /\ CHUNK \in Nat \ {0} /\ YIELDS \in Nat /\ CHUNK <= YIELDS
    /\ "NULL" \notin Buf
    /\ ARP_NENTRY \in Nat \ {0} /\ ARP_NTHRWAIT \in Nat /\ ARP_MAX_LOOKUP \in Nat
    /\ TTL_UNRESOLVED \in Nat /\ TTL_RESOLVED \in Nat
    /\ IsFiniteSet(Station) /\ AODV_NRT \in Nat /\ Cardinality(Station) <= AODV_NRT
    /\ "all" \notin Board /\ Board \cap Virtual = {} /\ Fid \subseteq Nat /\ IsFiniteSet(Fid)
    /\ 2 * Cardinality(Fid) <= MN_MAXKNOWN /\ MN_MAXKNOWN \in Nat

\* genet.c: the indices are 16 bits wide and a ring has a power of two of
\* descriptors, so that the descriptor of an index survives its wrap.
ASSUME WireAssumption ==
    /\ RING \in Nat \ {0} /\ TXN \in Nat \ {0} /\ INDEX \in Nat \ {0}
    /\ INDEX % RING = 0 /\ INDEX % TXN = 0
    /\ LeftAt \subseteq 0 .. INDEX - 1 /\ Temps \subseteq Int

-----------------------------------------------------------------------------
\* Every part but k is off.
Only(k) ==
    /\ IF k = "rx" THEN TRUE ELSE RxOff
    /\ IF k = "tcp" THEN TRUE ELSE TcpOff
    /\ IF k = "http" THEN TRUE ELSE HttpOff
    /\ IF k = "xinu" THEN TRUE ELSE XinuOff
    /\ IF k = "eth" THEN TRUE ELSE EthOff
    /\ IF k = "aodv" THEN TRUE ELSE AodvOff
    /\ IF k = "manet" THEN TRUE ELSE ManetOff

Init ==
    \/ scene = "drain" /\ Rx({"net", "wm"}, Plain, FALSE)!Init /\ Only("rx")
    \/ scene = "window" /\ Rx({"net"}, Mixed, FALSE)!Init /\ Only("rx")
    \/ scene = "shell" /\ Rx({"net", "wm"}, Plain, TRUE)!Init /\ Only("rx")
    \/ scene = "fetch" /\ Rx({"net", "browser"}, Mixed, FALSE)!Init /\ Only("rx")
    \/ scene = "request" /\ Tcp(SHORT, MANY)!Init /\ Only("tcp")
    \/ scene = "response" /\ Tcp(LONG, FEW)!Init /\ Only("tcp")
    \/ scene = "routes" /\ Routes!Init /\ Only("http")
    \/ scene = "stack" /\ Stack!Init /\ Only("xinu")
    \/ scene = "wire" /\ Wire!EInit /\ Only("eth")
    \/ scene = "route" /\ Route!Init /\ Only("aodv")
    \/ scene = "flood" /\ Flood!Init /\ Only("manet")

\* Every part but k stays as it is.
Rest(k) ==
    /\ UNCHANGED scene
    /\ IF k = "rx" THEN TRUE ELSE UNCHANGED rxvars
    /\ IF k = "tcp" THEN TRUE ELSE UNCHANGED tcpvars
    /\ IF k = "http" THEN TRUE ELSE UNCHANGED httpvars
    /\ IF k = "xinu" THEN TRUE ELSE UNCHANGED xinuvars
    /\ IF k = "eth" THEN TRUE ELSE UNCHANGED ethvars
    /\ IF k = "aodv" THEN TRUE ELSE UNCHANGED aodvvars
    /\ IF k = "manet" THEN TRUE ELSE UNCHANGED manetvars

Next ==
    \/ scene = "drain" /\ Rx({"net", "wm"}, Plain, FALSE)!Next /\ Rest("rx")
    \/ scene = "window" /\ Rx({"net"}, Mixed, FALSE)!Next /\ Rest("rx")
    \/ scene = "shell" /\ Rx({"net", "wm"}, Plain, TRUE)!Next /\ Rest("rx")
    \/ scene = "fetch" /\ Rx({"net", "browser"}, Mixed, FALSE)!Next /\ Rest("rx")
    \/ scene = "request" /\ Tcp(SHORT, MANY)!Next /\ Rest("tcp")
    \/ scene = "response" /\ Tcp(LONG, FEW)!Next /\ Rest("tcp")
    \/ scene = "routes" /\ Routes!Next /\ Rest("http")
    \/ scene = "stack" /\ Stack!Next /\ Rest("xinu")
    \/ scene = "wire" /\ Wire!ENext /\ Rest("eth")
    \/ scene = "route" /\ Route!Next /\ Rest("aodv")
    \/ scene = "flood" /\ Flood!Next /\ Rest("manet")

allvars ==
    <<scene, rxvars, tcpvars, httpvars, xinuvars, ethvars, aodvvars, manetvars>>

Spec == Init /\ [][Next]_allvars

-----------------------------------------------------------------------------
\* main.c genet_rx_tick and net_rx_remote_*: no frame is handed on twice and the
\* software position stays with the hardware's; with nothing but the tick and
\* the window manager draining, frames are handed on in the order they came; TCP
\* is not entered again while it serves a request; and the guard is back when
\* nobody is inside the receive path.
FramesOnce ==
    /\ scene = "drain" =>
          Rx({"net", "wm"}, Plain, FALSE)!InOrderOnce /\ Rx({"net", "wm"}, Plain, FALSE)!RingInStep /\ Rx({"net", "wm"}, Plain, FALSE)!GuardRestored /\ Rx({"net", "wm"}, Plain, FALSE)!NoTcpReentry
    /\ scene = "window" => Rx({"net"}, Mixed, FALSE)!RingInStep /\ Rx({"net"}, Mixed, FALSE)!GuardRestored /\ Rx({"net"}, Mixed, FALSE)!NoTcpReentry
    /\ scene = "shell" => Rx({"net", "wm"}, Plain, TRUE)!RingInStep /\ Rx({"net", "wm"}, Plain, TRUE)!NoTcpReentry
    /\ scene = "fetch" => Rx({"net", "browser"}, Mixed, FALSE)!GuardRestored /\ Rx({"net", "browser"}, Mixed, FALSE)!NoTcpReentry

\* tcp_server.c: whatever is lost, repeated or reordered, a client receives the
\* beginning of its response in order, a request is executed at most once per
\* connection, and nothing counts as acknowledged that the client lacks.
TcpExact ==
    /\ scene = "request" =>
          Tcp(SHORT, MANY)!ResponseIntact /\ Tcp(SHORT, MANY)!RequestOnce /\ Tcp(SHORT, MANY)!AckMeansReceived
    /\ scene = "response" =>
          Tcp(LONG, FEW)!ResponseIntact /\ Tcp(LONG, FEW)!RequestOnce /\ Tcp(LONG, FEW)!AckMeansReceived

\* tcp_server.c's routes: what is chainloaded is the uploaded image, a snapshot
\* is one frame of the camera, and no two processes share a benchmark stack.
RoutesSound ==
    scene = "routes" => Routes!BootsUpload /\ Routes!FrameWhole /\ Routes!StackExclusive

\* network/: a packet buffer is owned by one queue, one handler or the pool, and
\* an address has at most one entry in the ARP table.
BuffersOwned == scene = "stack" => Stack!BufferOwnedOnce /\ Stack!ArpUnique

\* genet.c, rp1eth.c and rp1fan.c: what the receive ring hands on comes next in
\* the order of arrival, even when the ring was lapped and recovered; a frame
\* reported sent has been on the wire; and the fan's stage fits the temperature
\* it was chosen for.
WireExact ==
    /\ [][scene = "wire" => Wire!NextInOrder]_allvars
    /\ [](scene = "wire" => Wire!SentIsOnWire /\ Wire!StageFits)

\* wifi.c: each hop of a route brings a packet nearer to its destination, and a
\* board that counts as having acknowledged a fact knows it.
MeshSound ==
    /\ scene = "route" => Route!RoutesDescend
    /\ scene = "flood" => Flood!AckMeansLearned
=============================================================================
