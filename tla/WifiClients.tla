----------------------------- MODULE WifiClients -----------------------------
(***************************************************************************)
(* The clients of device/wifi/wifi.c: ARP, ping, NTP, DNS, the HTTP and    *)
(* TFTP downloads, and the responder that reads the same receive FIFO      *)
(* between them.  One operation owns the FIFO until it returns, and drops  *)
(* the frames it does not wait for.  The network loses, delays, repeats    *)
(* and reorders.                                                           *)
(***************************************************************************)
EXTENDS Naturals, Sequences

CONSTANTS
    Blocks,     \* blocks of the TFTP file; the last is the short one
    BLKMOD,     \* 2^16: the block number on the wire
    Segments,   \* segments of the HTTP response; the last carries the FIN
    HTTP_BUF,   \* segments that fit wifi_http_buf
    FIFO,       \* bound on frames queued in the chip
    CALLS       \* bound on operations started

VARIABLES
    fifo,       \* received frames
    op,         \* the running operation: its kind and what it waits for, or Idle
    calls,      \* operations started
    sent,       \* what the peers may answer: <<kind, number>>
    page, our_ack, file, nextblk,
    results     \* outcome of each finished operation

dl == <<page, our_ack, file, nextblk>>
vars == <<fifo, op, calls, sent, dl, results>>

Idle == [kind |-> "idle", left |-> 0]
OneShot == {"arp", "ping", "ntp", "dns"}

Init ==
    /\ fifo = << >> /\ op = Idle /\ calls = 0 /\ sent = {} /\ results = << >>
    /\ page = << >> /\ our_ack = 1 /\ file = << >> /\ nextblk = 1

\* wifi_data_tx: the frame leaves once there is credit; while there is none the frames read
\* to get some are thrown away.
wifi_data_tx(ms, rest) ==
    /\ sent' = sent \cup ms
    /\ \E k \in 0..Len(rest) : fifo' = SubSeq(rest, k + 1, Len(rest))

Finish(r) == op' = Idle /\ results' = Append(results, r)
Wait == results' = results

-----------------------------------------------------------------------------
\* The air: anything asked for may be answered, any number of times; so may strangers.
Arrive ==
    /\ Len(fifo) < FIFO
    /\ \E m \in sent \cup {<<"other", 0>>} : fifo' = Append(fifo, m)
    /\ UNCHANGED <<op, calls, sent, dl, results>>

Begin(kind, left, asks) ==
    /\ op = Idle /\ calls < CALLS /\ calls' = calls + 1
    /\ op' = [kind |-> kind, left |-> left]
    /\ wifi_data_tx(asks, fifo) /\ Wait

\* wifi_arp_resolve, wifi_ping, wifi_ntp and wifi_resolve: one question, asked again by ARP
\* and ping, and the first frame that matches; a question's number is not compared.
wifi_query(kind) == Begin(kind, 1, {<<kind, calls + 1>>}) /\ UNCHANGED dl

\* wifi_http, wifi_tftp_get: SYN or RRQ; what the peer has sent so far may arrive.
wifi_http ==
    /\ Begin("http", 1, {<<"synack", 0>>}) /\ page' = << >> /\ our_ack' = 0
    /\ UNCHANGED <<file, nextblk>>
wifi_tftp_get ==
    /\ Begin("tftp", 1, {<<"data", 1>>}) /\ file' = << >> /\ nextblk' = 1
    /\ UNCHANGED <<page, our_ack>>

-----------------------------------------------------------------------------
\* wifi_read_frame found nothing: ask again while there are tries, or give up.
Nothing ==
    /\ op # Idle /\ fifo = << >>
    /\ IF op.left > 0 THEN op' = [op EXCEPT !.left = @ - 1] /\ Wait
                      ELSE Finish(<<op.kind, "timeout">>)
    /\ UNCHANGED <<fifo, calls, sent, dl>>

\* wifi_resolve reads a frame: the first answer from the server ends it, with the first A
\* record found behind the names it skips, or in failure.
wifi_resolve ==
    /\ op.kind = "dns" /\ fifo # << >>
    /\ IF Head(fifo)[1] = "dns" THEN \E r \in {"answer", "no_A_record"} : Finish(<<"dns", r>>)
                               ELSE UNCHANGED <<op, results>>
    /\ fifo' = Tail(fifo) /\ UNCHANGED <<calls, sent, dl>>

\* The other one-shot operations read a frame.
QueryFrame ==
    /\ op.kind \in OneShot \ {"dns"} /\ fifo # << >>
    /\ IF Head(fifo)[1] = op.kind THEN Finish(<<op.kind, "answer">>) ELSE UNCHANGED <<op, results>>
    /\ fifo' = Tail(fifo) /\ UNCHANGED <<calls, sent, dl>>

\* HTTP before the SYN-ACK: the first one starts the download with a GET.
HttpSynAck ==
    /\ op.kind = "http" /\ our_ack = 0 /\ fifo # << >>
    /\ IF Head(fifo)[1] = "synack"
       THEN our_ack' = 1 /\ wifi_data_tx({<<"seg", s>> : s \in 1..Segments}, Tail(fifo))
       ELSE fifo' = Tail(fifo) /\ UNCHANGED <<our_ack, sent>>
    /\ Wait /\ UNCHANGED <<op, calls, page, file, nextblk>>

InSequence_mutant(s) == s >= our_ack

\* HTTP data: only the segment that continues the stream is kept; a FIN ends the download
\* wherever it stands in the stream.
InSequence(s) == s = our_ack
HttpSegment ==
    /\ op.kind = "http" /\ our_ack > 0 /\ fifo # << >>
    /\ LET s == Head(fifo)[2]
       IN  IF Head(fifo)[1] # "seg" THEN UNCHANGED <<op, results, page, our_ack>>
           ELSE /\ IF InSequence(s) THEN page' = Append(page, s) /\ our_ack' = our_ack + 1
                                    ELSE UNCHANGED <<page, our_ack>>
                /\ IF s = Segments \/ Len(page') >= HTTP_BUF THEN Finish(<<"http", "page">>)
                                                           ELSE UNCHANGED <<op, results>>
    /\ fifo' = Tail(fifo) /\ UNCHANGED <<calls, sent, file, nextblk>>

\* TFTP data: the block awaited is kept and acknowledged, another makes the last one
\* acknowledged again; the short block ends the transfer.
Awaited(b) == b % BLKMOD = nextblk
TftpBlock ==
    /\ op.kind = "tftp" /\ fifo # << >>
    /\ LET b == Head(fifo)[2]
       IN  IF Head(fifo)[1] = "data" /\ Awaited(b)
           THEN /\ file' = Append(file, b) /\ nextblk' = nextblk + 1
                /\ wifi_data_tx(IF b < Blocks THEN {<<"data", b + 1>>} ELSE {}, Tail(fifo))
                /\ IF b = Blocks THEN Finish(<<"tftp", "complete">>) ELSE UNCHANGED <<op, results>>
           ELSE fifo' = Tail(fifo) /\ UNCHANGED <<sent, file, nextblk, op, results>>
    /\ UNCHANGED <<calls, page, our_ack>>

\* wifi_net_poll and wifi_serve: without an operation the responder reads the FIFO; a late
\* answer means nothing to wifi_handle_frame.
wifi_handle_frame ==
    /\ op = Idle /\ fifo # << >>
    /\ fifo' = Tail(fifo) /\ UNCHANGED <<op, calls, sent, dl, results>>

Next ==
    \/ Arrive \/ Nothing \/ QueryFrame \/ wifi_resolve \/ HttpSynAck \/ HttpSegment \/ TftpBlock
    \/ wifi_handle_frame \/ wifi_http \/ wifi_tftp_get
    \/ \E kind \in OneShot : wifi_query(kind)

-----------------------------------------------------------------------------
(* A download is a prefix of what the server sent, in order and without    *)
(* gaps or repetitions, and a TFTP transfer that reports "complete" is the *)
(* whole file - across retransmissions, duplicates, reordering and late    *)
(* frames of an earlier transfer of the same file.  (An HTTP download that *)
(* ends by FIN need not be whole: the FIN is taken out of order.)          *)
Prefix(q) == \A i \in DOMAIN q : q[i] = i
DownloadsInOrder ==
    /\ Prefix(page) /\ Prefix(file)
    /\ op = Idle /\ results # << >> /\ results[Len(results)] = <<"tftp", "complete">> => Len(file) = Blocks
=============================================================================
