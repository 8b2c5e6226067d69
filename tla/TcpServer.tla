----------------------------- MODULE TcpServer -----------------------------
(***************************************************************************)
(* The TCP part of system/tcp_server.c: one connection slot, g_conn, an    *)
(* HTTP request gathered from in-order segments, and a response sent from  *)
(* the send buffer with go-back-N.  Lengths are counted in segments (MSS). *)
(* A sequence number is 32 bits on the wire and an unsigned long, 64 bits, *)
(* in g_conn; Modulus stands for 2^32.  A clock is not modelled: the       *)
(* retransmission timer and the reaper may fire whenever they are armed.   *)
(*                                                                         *)
(* The clients and the network are external: a client opens a connection,  *)
(* sends its request, acknowledges what it receives in order, repeats what *)
(* is not acknowledged, and closes or resets; the network loses segments   *)
(* when they are sent and delivers the others in any order.                *)
(***************************************************************************)
EXTENDS Integers, Sequences, FiniteSets

CONSTANTS
    Clients,      \* peers (address and port); each opens one connection
    Modulus,      \* 2^32
    ISN,          \* g_isn_seed at boot
    ISNStep,      \* 0x100, in segments
    ClientISN,    \* the sequence number a client starts with
    ReqLen,       \* segments of a request
    RespLen,      \* segments of a response
    INFLIGHT,     \* TCP_MAX_INFLIGHT
    RETRIES,      \* TCP_MAX_RETRIES
    MaxFlight,    \* bound: segments in the network, each way
    MaxConns,     \* bound: connections accepted
    Delayed       \* whether segments of a closed connection may still arrive

VARIABLES g_conn, g_reqlen, g_isn_seed, served, client, toServer, toClient

vars == <<g_conn, g_reqlen, g_isn_seed, served, client, toServer, toClient>>

States == {"LISTEN", "SYN_RCVD", "ESTABLISHED", "FIN_WAIT_1", "LAST_ACK"}
NoPeer == "nobody"
Wire(n) == n % Modulus

Seg(who, seq, ack, flags, data) ==
    [who |-> who, seq |-> seq, ack |-> ack, flags |-> flags, data |-> data]

Init ==
    /\ g_conn = [state |-> "LISTEN", peer |-> NoPeer, my_seq |-> 0, peer_seq |-> 0,
                 snd_len |-> 0, snd_una |-> 0, snd_nxt |-> 0, snd_seq0 |-> 0,
                 snd_retries |-> 0, snd_fin_pending |-> FALSE, peer_fin |-> FALSE,
                 fin_acked |-> FALSE]
    /\ g_reqlen = 0 /\ g_isn_seed = ISN /\ served = [c \in Clients |-> 0]
    /\ client = [c \in Clients |-> [st |-> "new", una |-> 0, rcv |-> 0, got |-> << >>,
                                    fin |-> FALSE]]
    /\ toServer = {} /\ toClient = {}

-----------------------------------------------------------------------------
\* tcp_send: a segment with the slot's numbers, cut to 32 bits.  The frame may be
\* refused by the driver (TX busy); senders that look at the result say so.
tcp_send(c, flags, data) ==
    {Seg(c.peer, Wire(c.my_seq), Wire(c.peer_seq), flags, data)}

\* What tcp_pump leaves and sends when the driver takes `n` segments: whole
\* segments while less than the window is in flight, then the FIN.
Limit(win) == IF win > 0 /\ win < INFLIGHT THEN win ELSE INFLIGHT
PumpTo(c, win) ==
    LET top == IF c.snd_una + Limit(win) < c.snd_len THEN c.snd_una + Limit(win)
                                                     ELSE c.snd_len
    IN IF top > c.snd_nxt THEN top ELSE c.snd_nxt

tcp_pump(c, win, n) ==
    LET to   == IF n < PumpTo(c, win) THEN n ELSE PumpTo(c, win)
        data == UNION {tcp_send([c EXCEPT !.my_seq = c.snd_seq0 + i], {"PSH", "ACK"}, i + 1) :
                         i \in c.snd_nxt .. to - 1}
        c1   == [c EXCEPT !.snd_nxt = to,
                          !.my_seq = IF c.snd_len > 0 THEN c.snd_seq0 + to ELSE @]
        c2   == [c1 EXCEPT !.my_seq = c.snd_seq0 + c.snd_len]
    IN IF c.state \notin {"ESTABLISHED", "FIN_WAIT_1"}
       THEN [conn |-> c, out |-> {}]
       ELSE IF c.snd_fin_pending /\ to >= c.snd_len /\ n > to
       THEN [conn |-> [c2 EXCEPT !.my_seq = @ + 1, !.snd_fin_pending = FALSE,
                                 !.state = IF c.peer_fin THEN "LAST_ACK" ELSE "FIN_WAIT_1"],
             out |-> data \cup tcp_send(c2, {"FIN", "ACK"}, 0)]
       ELSE [conn |-> c1, out |-> data]

\* The segments the driver may accept in one pump: all (and the FIN), or fewer.
Accepts(c) == {c.snd_nxt, RespLen + 1}

\* tcp_send_response: queue the body and start sending.
tcp_send_response(c, win, n) ==
    tcp_pump([c EXCEPT !.snd_len = RespLen, !.snd_una = 0, !.snd_nxt = 0,
                       !.snd_seq0 = c.my_seq, !.snd_retries = 0,
                       !.snd_fin_pending = TRUE], win, n)

\* An acknowledgement that is not compared with what was sent.
tcp_on_ack_mutant(c, ack, win, n) ==
    LET acked == ack - c.snd_seq0
    IN tcp_pump([c EXCEPT !.snd_una = IF acked > c.snd_una THEN acked ELSE @], win, n)

\* tcp_on_ack: slide the window and pump.  The difference is taken in 64 bits: an
\* acknowledgement below snd_seq0 gives a huge number, not a wrapped one.
tcp_on_ack(c, ack, win, n) ==
    LET acked == ack - c.snd_seq0
        slid  == acked >= 0 /\ acked <= c.snd_len /\ acked > c.snd_una
    IN tcp_pump([c EXCEPT !.snd_una = IF slid THEN acked ELSE @,
                          !.snd_retries = IF slid THEN 0 ELSE @], win, n)

-----------------------------------------------------------------------------
\* tcp_handle_packet_via on a segment for our address and port, of consistent length.
\* First whatever the peer: the acknowledgement moves the send window.
AfterAck(s, n) ==
    IF "ACK" \in s.flags /\ g_conn.snd_len > 0
    THEN tcp_on_ack(g_conn, s.ack, s.win, n)
    ELSE [conn |-> g_conn, out |-> {}]

\* LISTEN: a SYN takes the slot and everything of the last connection is reset.
OnListen(c, s) ==
    IF "SYN" \notin s.flags THEN [conn |-> c, out |-> {}, isn |-> g_isn_seed]
    ELSE LET c1 == [state |-> "SYN_RCVD", peer |-> s.who, my_seq |-> g_isn_seed,
                    peer_seq |-> s.seq + 1, snd_len |-> 0, snd_una |-> 0, snd_nxt |-> 0,
                    snd_seq0 |-> c.snd_seq0, snd_retries |-> 0, snd_fin_pending |-> FALSE,
                    peer_fin |-> FALSE, fin_acked |-> FALSE]
         IN [conn |-> [c1 EXCEPT !.my_seq = @ + 1], isn |-> g_isn_seed + ISNStep,
             out |-> tcp_send(c1, {"SYN", "ACK"}, 0)]

OnSynRcvd(c, s) ==
    [conn |-> [c EXCEPT !.state = IF "RST" \in s.flags THEN "LISTEN"
                                  ELSE IF "ACK" \in s.flags /\ s.ack = c.my_seq
                                  THEN "ESTABLISHED" ELSE @],
     out |-> {}]

\* ESTABLISHED: data in order is added to the request, anything is acknowledged, and
\* a complete request is executed (http_build) and answered at once.
InOrder(c, s) == s.data > 0 /\ s.seq = c.peer_seq
Gathered(c, s) == IF InOrder(c, s) THEN g_reqlen + 1 ELSE g_reqlen
Complete(c, s) == s.data > 0 /\ Gathered(c, s) = ReqLen

OnData(c, s, n) ==
    LET c1 == [c EXCEPT !.peer_seq = IF InOrder(c, s) THEN s.seq + 1 ELSE @]
        r  == IF Complete(c, s) THEN tcp_send_response(c1, s.win, n) ELSE [conn |-> c1, out |-> {}]
    IN IF s.data = 0 THEN [conn |-> c, out |-> {}]
       ELSE [conn |-> r.conn, out |-> r.out \cup tcp_send(c1, {"ACK"}, 0)]

\* A FIN of the peer: half-close while the response is not out, else close too.
OnFin(c, s, n) ==
    LET c1 == [c EXCEPT !.peer_seq = s.seq + 1, !.peer_fin = TRUE]
        p  == tcp_pump(c1, s.win, n)
    IN IF "FIN" \notin s.flags THEN [conn |-> c, out |-> {}]
       ELSE IF c.snd_nxt < c.snd_len \/ c.snd_fin_pending
       THEN [conn |-> p.conn, out |-> p.out \cup tcp_send(c1, {"ACK"}, 0)]
       ELSE [conn |-> [c1 EXCEPT !.my_seq = @ + 1, !.state = "LAST_ACK"],
             out |-> tcp_send(c1, {"FIN", "ACK"}, 0)]

OnEstablished(c, s, n) ==
    IF "RST" \in s.flags THEN [conn |-> [c EXCEPT !.state = "LISTEN"], out |-> {}]
    ELSE LET d == OnData(c, s, n)
             f == OnFin(d.conn, s, n)
         IN [conn |-> f.conn, out |-> d.out \cup f.out]

\* FIN_WAIT_1: the slot is free again when ack equals my_seq.
OnFinWait1(c, s) ==
    LET c1 == [c EXCEPT !.fin_acked = @ \/ ("ACK" \in s.flags /\ s.ack = c.my_seq)]
        c2 == IF "FIN" \in s.flags THEN [c1 EXCEPT !.peer_seq = s.seq + 1, !.peer_fin = TRUE]
                                   ELSE c1
    IN [conn |-> [c2 EXCEPT !.state = IF c2.fin_acked THEN "LISTEN" ELSE @],
        out |-> IF "FIN" \in s.flags THEN tcp_send(c2, {"ACK"}, 0) ELSE {}]

OnLastAck(c, s) ==
    [conn |-> [c EXCEPT !.state = IF "ACK" \in s.flags /\ s.ack = c.my_seq THEN "LISTEN"
                                  ELSE @],
     out |-> {}]

\* The network (external) takes some of the segments that are sent.
Carry(out) ==
    \E kept \in SUBSET out :
        /\ Cardinality(toClient \cup kept) <= MaxFlight
        /\ toClient' = toClient \cup kept

tcp_handle_packet(s, n) ==
    LET a == AfterAck(s, n)
        c == a.conn
        l == OnListen(c, s)
        r == IF c.state = "LISTEN" THEN [conn |-> l.conn, out |-> l.out]
             ELSE IF s.who # c.peer THEN [conn |-> c, out |-> {}]
             ELSE IF c.state = "SYN_RCVD" THEN OnSynRcvd(c, s)
             ELSE IF c.state = "ESTABLISHED" THEN OnEstablished(c, s, n)
             ELSE IF c.state = "FIN_WAIT_1" THEN OnFinWait1(c, s)
             ELSE OnLastAck(c, s)
        run == /\ c.state = "ESTABLISHED" /\ s.who = c.peer /\ "RST" \notin s.flags
               /\ Complete(c, s)
    IN /\ g_conn' = r.conn
       /\ g_isn_seed' = IF c.state = "LISTEN" THEN l.isn ELSE g_isn_seed
       /\ Carry(a.out \cup r.out)
       /\ served' = IF run THEN [served EXCEPT ![s.who] = @ + 1] ELSE served
       /\ g_reqlen' = IF run \/ r.conn.state \in {"SYN_RCVD"} \/ c.state = "SYN_RCVD" THEN 0
                      ELSE IF c.state = "ESTABLISHED" /\ s.who = c.peer /\ "RST" \notin s.flags
                      THEN Gathered(c, s) ELSE g_reqlen

Deliver ==
    \E s \in toServer, n \in Accepts(g_conn) :
        /\ tcp_handle_packet(s, n)
        /\ g_isn_seed' <= ISN + MaxConns * ISNStep
        /\ toServer' = toServer \ {s}
        /\ UNCHANGED client

\* tcp_retransmit_tick when the RTO has expired: go back to the first unacknowledged
\* segment, or give the response up.
tcp_retransmit_tick ==
    /\ ~(g_conn.snd_una >= g_conn.snd_len /\ ~g_conn.snd_fin_pending)
    /\ g_conn.state \in {"ESTABLISHED", "FIN_WAIT_1"}
    /\ IF g_conn.snd_retries + 1 > RETRIES
       THEN /\ g_conn' = [g_conn EXCEPT !.snd_len = 0, !.snd_una = 0, !.snd_nxt = 0,
                                        !.snd_retries = @ + 1, !.snd_fin_pending = FALSE]
            /\ UNCHANGED toClient
       ELSE LET c == [g_conn EXCEPT !.snd_retries = @ + 1, !.snd_nxt = g_conn.snd_una]
                p == tcp_pump(c, 0, c.snd_len + 1)
            IN /\ g_conn' = p.conn
               /\ Carry(p.out)
    /\ UNCHANGED <<g_reqlen, g_isn_seed, served, client, toServer>>

\* tcp_conn_reap when the slot has heard nothing for its limit.
tcp_conn_reap ==
    /\ g_conn.state # "LISTEN"
    /\ g_conn' = [g_conn EXCEPT !.state = "LISTEN"]
    /\ g_reqlen' = 0
    /\ UNCHANGED <<g_isn_seed, served, client, toServer, toClient>>

-----------------------------------------------------------------------------
\* A client (external): what it may send, given what it has seen.
ClientSeg(c) ==
    LET k == client[c]
        mine(o) == Wire(ClientISN + o)
        sent == IF k.st = "fin" THEN ReqLen + 2 ELSE k.una + 1
    IN CASE k.st \in {"new", "syn"} -> {Seg(c, mine(0), 0, {"SYN"}, 0)}
         [] k.st = "est" -> {Seg(c, mine(1 + i), Wire(k.rcv), {"ACK"}, 1) : i \in k.una .. ReqLen - 1}
                            \cup {Seg(c, mine(sent), Wire(k.rcv), {"ACK"}, 0)}
         [] k.st = "fin" -> {Seg(c, mine(ReqLen + 1), Wire(k.rcv), {"FIN", "ACK"}, 0),
                             Seg(c, mine(ReqLen + 2), Wire(k.rcv), {"ACK"}, 0)}
         [] OTHER -> {}

ClientSend(c) ==
    /\ \E s \in ClientSeg(c), w \in {0, 1} :
         toServer' = toServer \cup {[who |-> s.who, seq |-> s.seq, ack |-> s.ack,
                                     flags |-> s.flags, data |-> s.data, win |-> w]}
    /\ Cardinality(toServer') <= MaxFlight
    /\ client' = [client EXCEPT ![c].st = IF @ = "new" THEN "syn" ELSE @]
    /\ UNCHANGED <<g_conn, g_reqlen, g_isn_seed, served, toClient>>

\* A client takes segments in order; it closes its side once it has the FIN, or
\* after its request when it is one that shuts down its writing side first.
ClientReceive ==
    \E s \in toClient :
      LET c == s.who
          k == client[c]
          acked == (s.ack - ClientISN - 1) % Modulus
      IN /\ toClient' = toClient \ {s}
         /\ client' = [client EXCEPT ![c] =
              IF k.st = "syn" /\ "SYN" \in s.flags /\ s.ack = Wire(ClientISN + 1)
              THEN [k EXCEPT !.st = "est", !.rcv = Wire(s.seq + 1)]
              ELSE IF k.st \notin {"est", "fin"} \/ "SYN" \in s.flags THEN k
              ELSE [k EXCEPT !.una = IF acked <= ReqLen /\ acked > @ THEN acked ELSE @,
                             !.got = IF s.seq = k.rcv /\ s.data > 0 THEN Append(@, s.data) ELSE @,
                             !.fin = @ \/ (s.seq = k.rcv /\ "FIN" \in s.flags),
                             !.rcv = IF s.seq = k.rcv /\ (s.data > 0 \/ "FIN" \in s.flags)
                                     THEN Wire(@ + 1) ELSE @]]
         /\ UNCHANGED <<g_conn, g_reqlen, g_isn_seed, served, toServer>>

ClientClose(c) ==
    /\ client[c].st = "est" /\ client[c].una = ReqLen
    /\ client' = [client EXCEPT ![c].st = "fin"]
    /\ UNCHANGED <<g_conn, g_reqlen, g_isn_seed, served, toServer, toClient>>

\* The client goes away; unless segments may be delayed past that, so do its own.
ClientGone(c) ==
    /\ client[c].st \in {"est", "fin"} /\ client[c].fin
    /\ client' = [client EXCEPT ![c].st = "gone"]
    /\ toServer' = IF Delayed THEN toServer ELSE {s \in toServer : s.who # c}
    /\ UNCHANGED <<g_conn, g_reqlen, g_isn_seed, served, toClient>>

ClientReset(c) ==
    /\ client[c].st \in {"est", "fin"} /\ ~client[c].fin
    /\ client' = [client EXCEPT ![c].st = "gone"]
    /\ toServer' = {[who |-> c, seq |-> Wire(ClientISN + client[c].una + 1), ack |-> 0,
                     flags |-> {"RST"}, data |-> 0, win |-> 0]}
                   \cup (IF Delayed THEN toServer ELSE {s \in toServer : s.who # c})
    /\ UNCHANGED <<g_conn, g_reqlen, g_isn_seed, served, toClient>>

ClientNext ==
    \/ ClientReceive
    \/ \E c \in Clients : ClientSend(c) \/ ClientClose(c) \/ ClientGone(c) \/ ClientReset(c)

Next == Deliver \/ tcp_retransmit_tick \/ tcp_conn_reap \/ ClientNext

-----------------------------------------------------------------------------
\* What a client has received is the beginning of its response, in order, and a
\* FIN only follows the whole of it unless the response was given up.
ResponseIntact ==
    \A c \in Clients : /\ \A i \in DOMAIN client[c].got : client[c].got[i] = i
                       /\ served[c] = 0 => client[c].got = << >>

\* A request is executed at most once per connection although its segments are
\* repeated and come out of order.
RequestOnce == \A c \in Clients : served[c] <= 1

\* Nothing is counted as acknowledged that the client of the slot does not have, so
\* go-back-N never skips a segment.
AckMeansReceived ==
    g_conn.state \in {"ESTABLISHED", "FIN_WAIT_1"}
        => g_conn.snd_una <= Len(client[g_conn.peer].got)

\* tcp_server.c:2786-2790: once our FIN is acknowledged the slot is freed.
FinAckFreesSlot ==
    [][\A s \in toServer :
         /\ g_conn.state = "FIN_WAIT_1" /\ toServer' = toServer \ {s} /\ s.who = g_conn.peer
         /\ "ACK" \in s.flags /\ client[s.who].fin /\ s.ack = client[s.who].rcv
         /\ Deliver
         => g_conn'.state = "LISTEN"]_vars
=============================================================================
