------------------------------- MODULE WifiLink -------------------------------
(***************************************************************************)
(* The life of the WiFi interface (device/wifi/wifi.c): the staged bring-up *)
(* of the chip, scan, join, ad-hoc cell, DHCP, and the move of the HTTP    *)
(* server to the WLAN.  Every call runs to its end on the one thread that  *)
(* may use the chip; what the chip does in it is a choice.                 *)
(***************************************************************************)
EXTENDS Integers

CONSTANTS Ssid

VARIABLES
    g_wifi_stop, wifi_ready,
    chip,               \* last stage the chip has passed since it was powered
    wifi_radio_done, configured,   \* the flag; whether this firmware run has been set up
    late,               \* a control reply that came after its ioctl had given up is queued
    cell,               \* the network the firmware is in
    wifi_have_ip, wifi_http_on_wifi, wifi_adhoc_keep_eth,
    unready             \* a public entry used a chip it had not ensured to be up

dev == <<g_wifi_stop, wifi_ready, chip, wifi_radio_done, configured>>
net == <<wifi_have_ip, wifi_http_on_wifi>>
vars == <<dev, late, cell, net, wifi_adhoc_keep_eth, unready>>

Off == -3
Stage == -2..6      \* 0a, 0b, 0 .. 5 and 6, the firmware running with function 2 enabled

Init ==
    /\ g_wifi_stop = 99 /\ wifi_ready = FALSE /\ chip = Off
    /\ wifi_radio_done = FALSE /\ configured = FALSE /\ late = FALSE /\ cell = "none"
    /\ wifi_have_ip = FALSE /\ wifi_http_on_wifi = FALSE
    /\ wifi_adhoc_keep_eth \in BOOLEAN /\ unready = FALSE

\* wifi_bringup(stop) ending after stage s: a power cycle, then stage by stage until one
\* fails or stop is reached; only the end of the last stage sets wifi_ready.
Goal(stop) == IF stop > 6 THEN 6 ELSE stop
ReadyAt(s) == s = 6
wifi_bringup(stop, s) ==
    /\ s \in {Off} \cup {k \in Stage : k <= Goal(stop)}
    /\ chip' = s /\ wifi_ready' = ReadyAt(s)

Cleared == configured' = FALSE /\ cell' = "none"   \* by the power cycle

\* What the public entries do first: nothing when ready, else a bring-up with the stop of
\* the last probe, whose 0 they take for success.
Ensure(s) == IF wifi_ready THEN s = chip /\ UNCHANGED <<chip, wifi_ready>>
             ELSE wifi_bringup(g_wifi_stop, s)
Up(s) == wifi_ready \/ s = Goal(g_wifi_stop)

\* wifi_wlcmd: the reply, a bad status, or a timeout - whose reply may still come and is
\* then taken for the next ioctl's, as request ids are sent and never compared.
wifi_wlcmd == late' \in {FALSE, TRUE}

\* wifi_radio_up, once: event mask, power mode, regulatory blob in chunks, country; each may
\* fail and the flag is set all the same.
wifi_radio_up(s) ==
    /\ wifi_radio_done' = TRUE
    /\ configured' \in IF ~wifi_radio_done THEN {FALSE, s = 6}
                       ELSE {configured /\ wifi_ready}   \* a power cycle undid it

Used(s) == unready' = (unready \/ (s # 6 /\ g_wifi_stop = 99))

-----------------------------------------------------------------------------
wifi_probe ==
    /\ g_wifi_stop' = 99
    /\ IF wifi_ready THEN UNCHANGED <<wifi_ready, chip, configured, cell>>
       ELSE \E s \in {Off} \cup Stage : wifi_bringup(99, s) /\ Cleared
    /\ UNCHANGED <<wifi_radio_done, late, net, wifi_adhoc_keep_eth, unready>>

\* wifi_probe_stage(k), and with k = 2 the bulk and window-write probes: forget readiness.
wifi_probe_stage(k) ==
    /\ g_wifi_stop' = k
    /\ \E s \in {Off} \cup Stage : wifi_bringup(k, s) /\ Cleared
    /\ UNCHANGED <<wifi_radio_done, late, net, wifi_adhoc_keep_eth, unready>>

wifi_scan_run ==
    \E s \in {Off} \cup Stage :
        /\ Ensure(s)
        /\ IF Up(s) THEN wifi_radio_up(s) /\ wifi_wlcmd /\ Used(s)
           ELSE configured' = FALSE /\ UNCHANGED <<wifi_radio_done, late, unready>>
        /\ cell' = IF wifi_ready THEN cell ELSE "none"
        /\ UNCHANGED <<g_wifi_stop, net, wifi_adhoc_keep_eth>>

\* wifi_join_run: radio down, scan for the target, keys, then four attempts, each waiting for
\* a link event or for GET_BSSID to show a cell.
wifi_join_run(ssid) ==
    \E s \in {Off} \cup Stage :
        /\ Ensure(s)
        /\ IF Up(s) THEN wifi_radio_up(s) /\ wifi_wlcmd /\ Used(s)
           ELSE configured' = FALSE /\ UNCHANGED <<wifi_radio_done, late, unready>>
        /\ cell' \in IF Up(s) /\ s = 6 THEN {ssid, "none"} ELSE {"none"}
        /\ UNCHANGED <<g_wifi_stop, net, wifi_adhoc_keep_eth>>

\* wifi_bind_tcp_server: the HTTP server's transmit function, MAC and IP become the WLAN's.
wifi_bind_tcp_server == wifi_http_on_wifi' = TRUE

\* wifi_adhoc: the cell is asked for and the static address set, whether or not the cell is
\* confirmed within the polls; the server moves unless it is kept on the Ethernet.
wifi_adhoc(ssid) ==
    \E s \in {Off} \cup Stage :
        /\ Ensure(s)
        /\ IF Up(s) THEN wifi_radio_up(s) /\ wifi_wlcmd /\ Used(s)
           ELSE configured' = FALSE /\ UNCHANGED <<wifi_radio_done, late, unready>>
        /\ \/ /\ Up(s) /\ s = 6 /\ cell' \in {ssid, "none"} /\ wifi_have_ip' = TRUE
              /\ IF wifi_adhoc_keep_eth THEN UNCHANGED wifi_http_on_wifi ELSE wifi_bind_tcp_server
           \/ cell' = "none" /\ UNCHANGED net
        /\ UNCHANGED <<g_wifi_stop, wifi_adhoc_keep_eth>>

\* wifi_dhcp: no address from here on; DISCOVER, OFFER, REQUEST and ACK each have a timeout.
wifi_dhcp ==
    /\ wifi_wlcmd
    /\ \/ /\ cell # "none" /\ wifi_have_ip' = TRUE /\ wifi_bind_tcp_server
       \/ wifi_have_ip' = FALSE /\ UNCHANGED wifi_http_on_wifi
    /\ UNCHANGED <<dev, cell, wifi_adhoc_keep_eth, unready>>

\* wifi_off: radio down, no address; the HTTP server stays on the WLAN.
wifi_off ==
    /\ wifi_wlcmd /\ cell' \in {"none", cell} /\ wifi_have_ip' = FALSE
    /\ UNCHANGED <<dev, wifi_http_on_wifi, wifi_adhoc_keep_eth, unready>>

Next ==
    \/ wifi_probe \/ \E k \in Stage : wifi_probe_stage(k)
    \/ wifi_scan_run \/ wifi_dhcp \/ wifi_off
    \/ \E ssid \in Ssid : wifi_join_run(ssid) \/ wifi_adhoc(ssid)

-----------------------------------------------------------------------------
(* wifi_scan_run, wifi_join_run and wifi_adhoc "ensure chip is up" before  *)
(* they talk to the firmware: through every order of probes, failed        *)
(* bring-ups and retries none of them uses a chip whose firmware is not    *)
(* running - unless a staged probe has left g_wifi_stop short of the end,  *)
(* when the bring-up's 0 no longer means up.                               *)
EnsuresChipUp == ~unready
=============================================================================
