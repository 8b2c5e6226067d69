-------------------------------- MODULE Manet --------------------------------
(***************************************************************************)
(* The MANET agents of device/wifi/wifi.c: a node floods an information id *)
(* (push), counts the acknowledgements, asks its neighbours for theirs     *)
(* (pull), beacons (HELLO) and can load the medium with background frames. *)
(* Frames are lost, delayed and repeated.                                  *)
(***************************************************************************)
EXTENDS Naturals, FiniteSets

CONSTANTS
    Node, Firer,    \* boards, and those an operator runs commands on
    Virtual,          \* the ids 200.. the proxies send under
    Fid, Offset,    \* information ids fired; Offset[f]: id of f's proxy push (fid + 1000)
    MN_MAXKNOWN,    \* slots of g_mn_known
    MAXSEQ          \* bound on g_mn_seq

VARIABLES
    g_mn_nbr,       \* [Node -> whitelist], {} accepts everyone
    g_mn_proxy,     \* [Node -> pushes sent for one fire]
    g_mn_ackonly,   \* [Node -> control group: acknowledge without learning]
    g_mn_known, g_mn_peers, g_mn_seq,
    g_mn_wait, g_mn_collect, g_mn_acks,
    firing,         \* [Node -> id being fired, or last fired]
    ether,          \* frames sent
    told            \* [Node -> ids ever learned]

conf == <<g_mn_nbr, g_mn_proxy, g_mn_ackonly>>
coll == <<g_mn_wait, g_mn_collect, g_mn_acks, firing>>
vars == <<conf, g_mn_known, g_mn_peers, g_mn_seq, coll, ether, told>>

Every(x) == [n \in Node |-> x]
Init ==
    /\ g_mn_nbr = Every({}) /\ g_mn_proxy = Every(1) /\ g_mn_ackonly = Every(FALSE)
    /\ g_mn_known = Every({}) /\ g_mn_peers = Every({}) /\ g_mn_seq = Every(0)
    /\ g_mn_wait = Every(0) /\ g_mn_collect = Every(FALSE) /\ g_mn_acks = Every({})
    /\ firing = Every("none") /\ ether = {} /\ told = Every({})

-----------------------------------------------------------------------------
\* mn_learn: a full table drops the id and still reports it as new.
mn_learn(n, ids) ==
    /\ g_mn_known' = [g_mn_known EXCEPT ![n] =
            IF Cardinality(@ \cup ids) <= MN_MAXKNOWN THEN @ \cup ids ELSE @]
    /\ told' = [told EXCEPT ![n] = @ \cup g_mn_known'[n]]
mn_nbr_ok(n, src) == g_mn_nbr[n] = {} \/ src \in g_mn_nbr[n]

\* A frame: the board that sent it, the id in its header, its kind and arguments.
mn_mk(n, src, to, type, seq, arg) ==
    [from |-> n, src |-> src, to |-> to, type |-> type, seq |-> seq, arg |-> arg]

\* The experiment is set up before the first frame.
wifi_manet_nbr(n, ids) ==
    /\ ether = {}
    /\ g_mn_nbr' = [g_mn_nbr EXCEPT ![n] = ids]
    /\ UNCHANGED <<g_mn_proxy, g_mn_ackonly, g_mn_known, g_mn_peers, g_mn_seq, coll, ether, told>>
wifi_manet_cfg(n, proxy, ackonly) ==
    /\ ether = {}
    /\ g_mn_proxy' = [g_mn_proxy EXCEPT ![n] = proxy]
    /\ g_mn_ackonly' = [g_mn_ackonly EXCEPT ![n] = ackonly]
    /\ UNCHANGED <<g_mn_nbr, g_mn_known, g_mn_peers, g_mn_seq, coll, ether, told>>
wifi_manet_reset(n) ==
    /\ ~g_mn_collect[n] /\ n \in Firer
    /\ g_mn_known' = [g_mn_known EXCEPT ![n] = {}]
    /\ g_mn_acks' = [g_mn_acks EXCEPT ![n] = {}]
    /\ UNCHANGED <<conf, g_mn_peers, g_mn_seq, g_mn_wait, g_mn_collect, firing, ether, told>>

Bump(n) == g_mn_seq[n] < MAXSEQ /\ g_mn_seq' = [g_mn_seq EXCEPT ![n] = @ + 1]

\* wifi_manet_fire, up to the first read: what the previous fire collected is forgotten.
wifi_manet_fire(n, f) ==
    /\ n \in Firer /\ ~g_mn_collect[n] /\ Bump(n)
    /\ g_mn_acks' = [g_mn_acks EXCEPT ![n] = {}]
    /\ g_mn_wait' = [g_mn_wait EXCEPT ![n] = g_mn_seq'[n]]
    /\ g_mn_collect' = [g_mn_collect EXCEPT ![n] = TRUE]
    /\ firing' = [firing EXCEPT ![n] = f]
    /\ mn_learn(n, {f})
    /\ ether' = ether \cup {mn_mk(n, n, "all", "PUSH", g_mn_seq'[n], {f})}
        \cup {mn_mk(n, v, "all", "PUSH", g_mn_seq'[n], {Offset[f]}) :
                v \in IF g_mn_proxy[n] > 1 THEN Virtual ELSE {}}
    /\ UNCHANGED <<conf, g_mn_peers>>

\* The collection ends at the timeout, or when the whole whitelist has answered.
FireEnds(n) ==
    /\ g_mn_collect[n] /\ g_mn_collect' = [g_mn_collect EXCEPT ![n] = FALSE]
    /\ UNCHANGED <<conf, g_mn_known, g_mn_peers, g_mn_seq, g_mn_wait, g_mn_acks, firing, ether, told>>

\* wifi_manet_pull, wifi_manet_load and mn_hello_tick: one numbered broadcast each.
Broadcast(n, src, type, arg) ==
    /\ n \in Firer /\ ~g_mn_collect[n] /\ Bump(n)
    /\ ether' = ether \cup {mn_mk(n, src, "all", type, g_mn_seq'[n], arg)}
    /\ UNCHANGED <<conf, g_mn_known, g_mn_peers, coll, told>>
wifi_manet_pull(n) == Broadcast(n, n, "PULLREQ", {})
wifi_manet_load(n, f) == \E v \in Virtual : Broadcast(n, v, "BG", {Offset[f]})
mn_hello_tick(n) == Broadcast(n, n, "HELLO", {})

-----------------------------------------------------------------------------
\* manet_ip_in: anything but an echo of our own makes the sender a peer.
Heard(n, m) ==
    /\ m.from # n /\ m.to \in {n, "all"} /\ m.src # n
    /\ g_mn_peers' = [g_mn_peers EXCEPT ![n] = @ \cup {m.src}]
    /\ UNCHANGED <<conf, g_mn_seq>>

RecvHello(n, m) == Heard(n, m) /\ m.type = "HELLO" /\ UNCHANGED <<g_mn_known, coll, ether, told>>

\* PUSH: learn (unless in the control group), re-route, acknowledge to the sender.
RecvPush(n, m) ==
    /\ Heard(n, m) /\ m.type = "PUSH" /\ mn_nbr_ok(n, m.src)
    /\ IF g_mn_ackonly[n] THEN UNCHANGED <<g_mn_known, told>> ELSE mn_learn(n, m.arg)
    /\ ether' = ether \cup {mn_mk(n, n, m.from, "ACK", m.seq, {})}
    /\ UNCHANGED coll

\* ACK: counted once per node, while collecting, if it answers the running fire.
AckCounts(n, m) == g_mn_collect[n] /\ m.seq = g_mn_wait[n]
RecvAck(n, m) ==
    /\ Heard(n, m) /\ m.type = "ACK"
    /\ g_mn_acks' = [g_mn_acks EXCEPT ![n] = IF AckCounts(n, m) THEN @ \cup {m.src} ELSE @]
    /\ UNCHANGED <<g_mn_known, g_mn_wait, g_mn_collect, firing, ether, told>>

RecvBg(n, m) ==
    /\ Heard(n, m) /\ m.type = "BG" /\ mn_nbr_ok(n, m.src)
    /\ IF g_mn_ackonly[n] THEN UNCHANGED <<g_mn_known, told>> ELSE mn_learn(n, m.arg)
    /\ UNCHANGED <<coll, ether>>

RecvPullReq(n, m) ==
    /\ Heard(n, m) /\ m.type = "PULLREQ" /\ mn_nbr_ok(n, m.src)
    /\ ether' = ether \cup {mn_mk(n, n, m.from, "PULLRSP", m.seq, g_mn_known[n])}
    /\ UNCHANGED <<g_mn_known, coll, told>>

RecvPullRsp(n, m) ==
    /\ Heard(n, m) /\ m.type = "PULLRSP" /\ mn_nbr_ok(n, m.src)
    /\ mn_learn(n, m.arg) /\ UNCHANGED <<coll, ether>>

\* A frame from outside the virtual topology is counted and dropped.
RecvFiltered(n, m) ==
    /\ Heard(n, m) /\ m.type \in {"PUSH", "BG", "PULLREQ", "PULLRSP"} /\ ~mn_nbr_ok(n, m.src)
    /\ UNCHANGED <<g_mn_known, coll, ether, told>>

Next ==
    \E n \in Node :
        \/ \E ids \in {{}, Node} : ids # g_mn_nbr[n] /\ wifi_manet_nbr(n, ids)
        \/ \E f \in Fid : wifi_manet_fire(n, f) \/ wifi_manet_load(n, f)
        \/ FireEnds(n) \/ wifi_manet_pull(n) \/ mn_hello_tick(n) \/ wifi_manet_reset(n)
        \/ \E m \in ether : \/ RecvHello(n, m) \/ RecvPush(n, m) \/ RecvAck(n, m) \/ RecvBg(n, m)
                            \/ RecvPullReq(n, m) \/ RecvPullRsp(n, m) \/ RecvFiltered(n, m)
        \/ \E proxy \in 1..2, a \in BOOLEAN :
                /\ <<proxy, a>> # <<g_mn_proxy[n], g_mn_ackonly[n]>> /\ wifi_manet_cfg(n, proxy, a)

-----------------------------------------------------------------------------
(* What a fire counts as reached really has the id: every node in          *)
(* g_mn_acks has learned the id being fired, however late, repeated or     *)
(* lost the frames of this and of earlier fires were - outside the control *)
(* group (ackonly), with room in the tables, and unless proxies push too:  *)
(* a proxy's push carries the same number, and its acknowledgement counts, *)
(* if no whitelist drops the virtual senders.                              *)
AckMeansLearned ==
    \A n \in Node : \A a \in g_mn_acks[n] :
        ~g_mn_ackonly[a] /\ (g_mn_proxy[n] = 1 \/ g_mn_nbr[a] # {}) => firing[n] \in told[a]
=============================================================================
