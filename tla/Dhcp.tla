-------------------------------- MODULE Dhcp ---------------------------------
(***************************************************************************)
(* The DHCP client (system/dhcp_client.c), dhcp_drive (loader/main.c) that *)
(* paces it and applies the lease, and the ARP and echo responder          *)
(* (system/net_responder.c) that answers on the address applied.  Servers  *)
(* are external; the network loses, repeats and reorders.                  *)
(***************************************************************************)
EXTENDS Naturals

CONSTANTS
    Server,     \* DHCP servers on the link
    Address,    \* addresses they lease
    Static,     \* the compiled-in address
    Started,    \* g_dhcp_started
    TRIES       \* DISCOVERs before giving up (10)

VARIABLES
    g_state, g_my_ip, g_server_ip,
    g_dhcp_applied, g_dhcp_tries,
    responder_ip,   \* g_my_ip of net_responder.c
    tcp_ip,
    link,           \* DHCP frames sent, any of which may (still) arrive
    acked,          \* addresses some server has granted
    answered        \* addresses the responder has answered for or announced

vars == <<g_state, g_my_ip, g_server_ip, g_dhcp_applied, g_dhcp_tries, responder_ip, tcp_ip, link, acked, answered>>
addrs == <<responder_ip, tcp_ip, answered>>

None == "0.0.0.0"

Init ==
    /\ g_state = "INIT" /\ g_my_ip = None /\ g_server_ip = None
    /\ g_dhcp_applied = FALSE /\ g_dhcp_tries = 0
    /\ responder_ip = Static /\ tcp_ip = Static
    /\ link = {} /\ acked = {} /\ answered = {}

build_dhcp(type, ip, server) == [type |-> type, ip |-> ip, server |-> server]
dhcp_is_bound == g_state = "BOUND"

\* dhcp_send_discover: leaves INIT, and repeats the question in every other state.
dhcp_send_discover ==
    /\ link' = link \cup {build_dhcp("DISCOVER", None, None)}
    /\ g_state' = IF g_state = "INIT" THEN "DISCOVER_SENT" ELSE g_state

\* dhcp_drive: unbound, another DISCOVER every 3 s up to the cap; bound, the lease is applied once.
DriveDiscover ==
    /\ Started /\ ~dhcp_is_bound /\ g_dhcp_tries < TRIES
    /\ g_dhcp_tries' = g_dhcp_tries + 1 /\ dhcp_send_discover
    /\ UNCHANGED <<g_my_ip, g_server_ip, g_dhcp_applied, addrs, acked>>
\* A gratuitous ARP announces the address to everyone.
net_responder_send_gratuitous_arp(ip) == answered \cup {ip}
DriveApply ==
    /\ Started /\ dhcp_is_bound /\ ~g_dhcp_applied
    /\ g_dhcp_applied' = TRUE
    /\ responder_ip' = g_my_ip /\ tcp_ip' = g_my_ip
    /\ answered' = net_responder_send_gratuitous_arp(g_my_ip)
    /\ UNCHANGED <<g_state, g_my_ip, g_server_ip, g_dhcp_tries, link, acked>>

\* dhcp_handle_packet: a frame from port 67 with our xid.
Handle(m) == m \in link /\ UNCHANGED <<g_dhcp_applied, g_dhcp_tries, addrs, acked>>
RecvOffer(m) ==
    /\ Handle(m) /\ m.type = "OFFER" /\ g_state = "DISCOVER_SENT"
    /\ g_my_ip' = m.ip /\ g_server_ip' = m.server
    /\ link' = link \cup {build_dhcp("REQUEST", m.ip, m.server)}
    /\ g_state' = "REQUEST_SENT"
RecvAck(m) ==
    /\ Handle(m) /\ m.type = "ACK" /\ g_state = "REQUEST_SENT"
    /\ g_my_ip' = m.ip /\ g_state' = "BOUND" /\ UNCHANGED <<g_server_ip, link>>
RecvNak(m) ==
    /\ Handle(m) /\ m.type = "NAK" /\ g_state' = "INIT" /\ UNCHANGED <<g_my_ip, g_server_ip, link>>

\* The servers (external): any address for a DISCOVER; the one asked for, or a refusal.
ServerOffer(s, a) ==
    /\ \E m \in link : m.type = "DISCOVER"
    /\ link' = link \cup {build_dhcp("OFFER", a, s)}
    /\ UNCHANGED <<g_state, g_my_ip, g_server_ip, g_dhcp_applied, g_dhcp_tries, addrs, acked>>
ServerAnswer(s, type) ==
    /\ \E m \in link :
        /\ m.type = "REQUEST" /\ m.server = s
        /\ link' = link \cup {build_dhcp(type, m.ip, s)}
        /\ acked' = IF type = "ACK" THEN acked \cup {m.ip} ELSE acked
    /\ UNCHANGED <<g_state, g_my_ip, g_server_ip, g_dhcp_applied, g_dhcp_tries, addrs>>

\* net_responder_handle: ARP requests and echo requests for our address are answered, with it.
net_responder_handle(a) ==
    /\ a = responder_ip /\ answered' = answered \cup {responder_ip}
    /\ UNCHANGED <<g_state, g_my_ip, g_server_ip, g_dhcp_applied, g_dhcp_tries, responder_ip, tcp_ip, link, acked>>

Next ==
    \/ DriveDiscover \/ DriveApply
    \/ \E m \in link : RecvOffer(m) \/ RecvAck(m) \/ RecvNak(m)
    \/ \E s \in Server : \/ \E a \in Address : ServerOffer(s, a)
                         \/ \E type \in {"ACK", "NAK"} : ServerAnswer(s, type)
    \/ \E a \in Address \cup {Static} : net_responder_handle(a)

-----------------------------------------------------------------------------
(* The board never answers for an address nobody granted it: the responder *)
(* and TCP agree, on the compiled-in address or on one a server has        *)
(* acknowledged - not one that was only offered, whichever of several      *)
(* servers' late or repeated answers arrive when.                          *)
LeaseGranted ==
    /\ responder_ip = tcp_ip
    /\ answered \cup {responder_ip} \subseteq acked \cup {Static}
=============================================================================
