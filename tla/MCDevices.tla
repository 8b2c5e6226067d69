----------------------------- MODULE MCDevices ------------------------------
(***************************************************************************)
(* The devices and what the user works with, one scene at a time: the WiFi *)
(* chip, the clients of remote servers, the card, USB, the windows, the    *)
(* shell and the parallel loops it starts.  The variables of the parts a   *)
(* scene is not about are Off.                                             *)
(***************************************************************************)
EXTENDS Integers, Sequences, TLC

CONSTANTS
    \* the WiFi chip: lengths of the images, its RAM, and how transfers are cut
    FwLen, NvLen, RamSize, SB_XFER, SB_WSIZE, BSIZE, RETRIES, Ssid,
    \* the parallel loops: range, units, slots of proctab, stacks, calls
    N, UNITS, SLOTS, SP_GEN, NoInline, CALLS,
    \* the TFTP and HTTP downloads: their lengths, the buffer, the chip's queue, calls
    Blocks, BLKMOD, Segments, HTTP_BUF, FIFO, DOWNLOADS,
    \* DHCP: servers, what they lease, the compiled-in address, tries
    Server, Address, Static, TRIES,
    \* the browser: pages, what the web says of every url, its buffer, clicks
    Page, MeshPage, Host, Css, Segs, RXCAP, EVENTS,
    \* USB: the devices of each scene, attempts, slots, packets of a camera frame
    CameraPlug, KeyboardPlug, MAXPHASE, MAXSLOT, PKTS, FRAMES, LOSS, OPS

VARIABLES
    scene,
    ram, window, fwjob, fwtodo, clock, fwload,
    g_wifi_stop, wifi_ready, chip, wifi_radio_done, configured, late, cell,
    wifi_have_ip, wifi_http_on_wifi, wifi_adhoc_keep_eth, unready,
    fifo, op, calls, sent, httppage, our_ack, tftpfile, nextblk, results,
    g_state, g_my_ip, g_server_ip, g_dhcp_applied, g_dhcp_tries, responder_ip, tcp_ip,
    link, acked, answered,
    fetch, conn, page, dns, view, px, asked,
    fat, data, dir, diskjob, mounted, tree, upd_result, upd_img, manifest, server, cuts,
    jobs, torn,
    inited, slots, hid, armed, cam, evq, usbjob, usbtodo, sends, phase, delivered,
    stolen, ops,
    d, vp, last_vp, cursor, prev_btn, screen, fresh, reports,
    file, ed, built, ran, pp, creds, keys, commands,
    loop, task, res, sp_gen, hung, wrong

Off == "off"

-----------------------------------------------------------------------------
\* The WiFi chip: a firmware image and its NVRAM written in blocks, and the
\* commands that need a chip that is up.
Firmware == INSTANCE WifiFw WITH job <- fwjob, todo <- fwtodo

fwvars == <<ram, window, fwjob, fwtodo, clock, fwload>>
FwOff ==
    /\ ram = Off /\ window = Off /\ fwjob = Off /\ fwtodo = Off /\ clock = Off
    /\ fwload = Off

-----------------------------------------------------------------------------
Radio == INSTANCE WifiLink

linkvars == <<g_wifi_stop, wifi_ready, chip, wifi_radio_done, configured, late, cell,
              wifi_have_ip, wifi_http_on_wifi, wifi_adhoc_keep_eth, unready>>
LinkOff ==
    /\ g_wifi_stop = Off /\ wifi_ready = Off /\ chip = Off /\ wifi_radio_done = Off
    /\ configured = Off /\ late = Off /\ cell = Off /\ wifi_have_ip = Off
    /\ wifi_http_on_wifi = Off /\ wifi_adhoc_keep_eth = Off /\ unready = Off

-----------------------------------------------------------------------------
\* Clients of servers elsewhere: TFTP, HTTP and DNS over WiFi, DHCP, the browser.
Downloads == INSTANCE WifiClients
    WITH CALLS <- DOWNLOADS, page <- httppage, file <- tftpfile

clientvars == <<fifo, op, calls, sent, httppage, our_ack, tftpfile, nextblk, results>>
ClientOff ==
    /\ fifo = Off /\ op = Off /\ calls = Off /\ sent = Off /\ httppage = Off
    /\ our_ack = Off /\ tftpfile = Off /\ nextblk = Off /\ results = Off

-----------------------------------------------------------------------------
Lease == INSTANCE Dhcp WITH Started <- TRUE

dhcpvars == <<g_state, g_my_ip, g_server_ip, g_dhcp_applied, g_dhcp_tries, responder_ip,
              tcp_ip, link, acked, answered>>
DhcpOff ==
    /\ g_state = Off /\ g_my_ip = Off /\ g_server_ip = Off /\ g_dhcp_applied = Off
    /\ g_dhcp_tries = Off /\ responder_ip = Off /\ tcp_ip = Off /\ link = Off
    /\ acked = Off /\ answered = Off

-----------------------------------------------------------------------------
\* The web of the run; HTTP servers that send Content-Length.
AHost == [x \in {"home", "dict", "css"} |-> "A"] @@ [x \in {"p"} |-> "B"]
ACss == [x \in {"p", "xinu://mesh"} |-> "none"] @@ [x \in {"home"} |-> "css"]
ASegs == [x \in {"p", "dict", "css"} |-> 1] @@ [x \in {"home"} |-> 2]

Pages == INSTANCE Browser
    WITH HasLength <- TRUE, LateDns <- FALSE, job <- fetch

browservars == <<fetch, conn, page, dns, view, px, asked>>
BrowserOff ==
    /\ fetch = Off /\ conn = Off /\ page = Off /\ dns = Off /\ view = Off /\ px = Off
    /\ asked = Off

-----------------------------------------------------------------------------
\* The card: four clusters, two directory entries, a kernel of two parts in
\* three versions, one power cut.
Disk == INSTANCE Storage
    WITH Cluster <- {2, 3, 4, 5}, Slot <- {1, 2}, Small <- {"T"}, Version <- {0, 1, 2},
         PARTS <- 2, Path <- {<<"a">>, <<"a", "b">>}, CUTS <- 1, JOBS <- 2,
         job <- diskjob

diskvars == <<fat, data, dir, diskjob, mounted, tree, upd_result, upd_img, manifest,
              server, cuts, jobs, torn>>
DiskOff ==
    /\ fat = Off /\ data = Off /\ dir = Off /\ diskjob = Off /\ mounted = Off
    /\ tree = Off /\ upd_result = Off /\ upd_img = Off /\ manifest = Off /\ server = Off
    /\ cuts = Off /\ jobs = Off /\ torn = Off

-----------------------------------------------------------------------------
\* The two USB controllers, with what is plugged into their ports.
AtCamera == (0 :> <<"cam">>) @@ (1 :> <<"mouse">>)
AtKeyboard == (0 :> <<"kbd", "msd">>) @@ (1 :> <<"mouse">>)

Bus(plug) == INSTANCE Usb WITH Plug <- plug, job <- usbjob, todo <- usbtodo

usbvars == <<inited, slots, hid, armed, cam, evq, usbjob, usbtodo, sends, phase,
             delivered, stolen, ops>>
UsbOff ==
    /\ inited = Off /\ slots = Off /\ hid = Off /\ armed = Off /\ cam = Off /\ evq = Off
    /\ usbjob = Off /\ usbtodo = Off /\ sends = Off /\ phase = Off /\ delivered = Off
    /\ stolen = Off /\ ops = Off

-----------------------------------------------------------------------------
\* A desktop of 5 by 5 cells seen through a screen of 4 by 4, with two shells, the
\* soft keyboard and an application window.  "layout": the serial layout channel
\* moves windows too.
AGeometry ==
    [w \in {0, 1, -1, -2} |->
        CASE w = 0 -> <<1, 0, 2, 2>> [] w = 1 -> <<1, 1, 2, 2>>
          [] w = -1 -> <<0, 2, 3, 2>> [] w = -2 -> <<2, 1, 3, 3>>]

Desktop == INSTANCE Windows
    WITH DW <- 5, DH <- 5, SW <- 4, SH <- 4, TITLE <- 1, GRIP <- 1, MIN_W <- 2,
         MIN_H <- 2, KEEP <- 1, EDGE <- 0, STEP <- 1, SHELLWIN_MAX <- 2, ROWS <- 2,
         COLS <- 2, INBUF <- 3, Geometry <- AGeometry, Shown <- <<-2, 0, -1>>,
         Moves <- {<<0, 0>>, <<1, 0>>, <<0, 1>>, <<-1, -1>>}, Layout <- {}, REPORTS <- 5

Moved == INSTANCE Windows
    WITH DW <- 5, DH <- 5, SW <- 4, SH <- 4, TITLE <- 1, GRIP <- 1, MIN_W <- 2,
         MIN_H <- 2, KEEP <- 1, EDGE <- 0, STEP <- 1, SHELLWIN_MAX <- 2, ROWS <- 2,
         COLS <- 2, INBUF <- 3, Geometry <- AGeometry, Shown <- <<-2, 0, -1>>,
         Moves <- {<<0, 0>>, <<1, 0>>, <<0, 1>>, <<-1, -1>>},
         Layout <- {<<1, 1, 2, 2>>}, REPORTS <- 3

winvars == <<d, vp, last_vp, cursor, prev_btn, screen, fresh, reports>>
WinOff ==
    /\ d = Off /\ vp = Off /\ last_vp = Off /\ cursor = Off /\ prev_btn = Off
    /\ screen = Off /\ fresh = Off /\ reports = Off

-----------------------------------------------------------------------------
\* The shell's editor on a screen of 3 by 3, make, run and the other commands that
\* keep state.
AFiles ==
    ("p.c" :> <<"x", "nl", "y", "z", "nl", "w">>) @@ ("q" :> <<"x">>) @@ ("hello.c" :> <<"x">>)
    @@ [x \in {"p", "Makefile", "hello"} |-> <<"none">>]
ATarget == [x \in {"p.c", "p"} |-> "p"] @@ ("q" :> "q") @@ ("hello.c" :> "hello")
           @@ ("Makefile" :> "Makefile")
AKeys == {"a", "C-f", "C-b", "C-n", "C-p", "C-a", "C-e", "C-k", "BS", "C-d", "Ret",
          "C-x", "C-s", "C-c"}

Line == INSTANCE Shell
    WITH ED_ROWS <- 3, ED_COLS <- 3, ED_VIEW <- 2, Files <- AFiles, Target <- ATarget,
         EditKeys <- AKeys, Args <- {"p.c", "p", "q"}, KEYS <- 6, COMMANDS <- 2,
         ROUNDS <- 2

shellvars == <<file, ed, built, ran, pp, creds, keys, commands>>
ShellOff ==
    /\ file = Off /\ ed = Off /\ built = Off /\ ran = Off /\ pp = Off /\ creds = Off
    /\ keys = Off /\ commands = Off

-----------------------------------------------------------------------------
\* The parallel loops that the shell and the HTTP server start on the symmetric
\* scheduler.
Loops == INSTANCE SmpParallel WITH job <- loop

parvars == <<loop, task, res, sp_gen, hung, wrong>>
ParOff ==
    /\ loop = Off /\ task = Off /\ res = Off /\ sp_gen = Off /\ hung = Off
    /\ wrong = Off

-----------------------------------------------------------------------------
ASSUME DevicesAssumption ==
    /\ Firmware!ConstantsOK /\ Loops!ConstantsOK
    /\ Blocks \in Nat \ {0} /\ BLKMOD \in Nat \ {0} /\ Segments \in Nat /\ FIFO \in Nat
    /\ HTTP_BUF \in Nat /\ DOWNLOADS \in Nat /\ TRIES \in Nat
    /\ "home" \in Page /\ Page \cap {"none", "https", "xinu://mesh"} = {}
    /\ RXCAP \in Nat /\ EVENTS \in Nat
    /\ \A u \in Page \cup {"dict"} \cup ({Css[p] : p \in Page} \ {"none"}) :
          u \in DOMAIN Host /\ Segs[u] \in Nat \ {0}
    /\ \A plug \in {CameraPlug, KeyboardPlug} : Bus(plug)!ConstantsOK

-----------------------------------------------------------------------------
\* Every part but k is off.
Only(k) ==
    /\ IF k = "fw" THEN TRUE ELSE FwOff
    /\ IF k = "link" THEN TRUE ELSE LinkOff
    /\ IF k = "client" THEN TRUE ELSE ClientOff
    /\ IF k = "dhcp" THEN TRUE ELSE DhcpOff
    /\ IF k = "browser" THEN TRUE ELSE BrowserOff
    /\ IF k = "disk" THEN TRUE ELSE DiskOff
    /\ IF k = "usb" THEN TRUE ELSE UsbOff
    /\ IF k = "win" THEN TRUE ELSE WinOff
    /\ IF k = "shell" THEN TRUE ELSE ShellOff
    /\ IF k = "par" THEN TRUE ELSE ParOff

Init ==
    \/ scene = "firmware" /\ Firmware!Init /\ Only("fw")
    \/ scene = "radio" /\ Radio!Init /\ Only("link")
    \/ scene = "downloads" /\ Downloads!Init /\ Only("client")
    \/ scene = "lease" /\ Lease!Init /\ Only("dhcp")
    \/ scene = "pages" /\ Pages!BInit /\ Only("browser")
    \/ scene = "disk" /\ Disk!Init /\ Only("disk")
    \/ scene = "camera" /\ Bus(CameraPlug)!Init /\ Only("usb")
    \/ scene = "keyboard" /\ Bus(KeyboardPlug)!Init /\ Only("usb")
    \/ scene = "desktop" /\ Desktop!WInit /\ Only("win")
    \/ scene = "layout" /\ Moved!WInit /\ Only("win")
    \/ scene = "line" /\ Line!SInit /\ Only("shell")
    \/ scene = "loops" /\ Loops!PInit /\ Only("par")

\* Every part but k stays as it is.
Rest(k) ==
    /\ UNCHANGED scene
    /\ IF k = "fw" THEN TRUE ELSE UNCHANGED fwvars
    /\ IF k = "link" THEN TRUE ELSE UNCHANGED linkvars
    /\ IF k = "client" THEN TRUE ELSE UNCHANGED clientvars
    /\ IF k = "dhcp" THEN TRUE ELSE UNCHANGED dhcpvars
    /\ IF k = "browser" THEN TRUE ELSE UNCHANGED browservars
    /\ IF k = "disk" THEN TRUE ELSE UNCHANGED diskvars
    /\ IF k = "usb" THEN TRUE ELSE UNCHANGED usbvars
    /\ IF k = "win" THEN TRUE ELSE UNCHANGED winvars
    /\ IF k = "shell" THEN TRUE ELSE UNCHANGED shellvars
    /\ IF k = "par" THEN TRUE ELSE UNCHANGED parvars

Next ==
    \/ scene = "firmware" /\ Firmware!Next /\ Rest("fw")
    \/ scene = "radio" /\ Radio!Next /\ Rest("link")
    \/ scene = "downloads" /\ Downloads!Next /\ Rest("client")
    \/ scene = "lease" /\ Lease!Next /\ Rest("dhcp")
    \/ scene = "pages" /\ Pages!BrNext /\ Rest("browser")
    \/ scene = "disk" /\ Disk!Next /\ Rest("disk")
    \/ scene = "camera" /\ Bus(CameraPlug)!Next /\ Rest("usb")
    \/ scene = "keyboard" /\ Bus(KeyboardPlug)!Next /\ Rest("usb")
    \/ scene = "desktop" /\ Desktop!WNext /\ Rest("win")
    \/ scene = "layout" /\ Moved!WNext /\ Rest("win")
    \/ scene = "line" /\ Line!ShNext /\ Rest("shell")
    \/ scene = "loops" /\ Loops!PNext /\ Rest("par")

allvars ==
    <<scene, fwvars, linkvars, clientvars, dhcpvars, browservars, diskvars,
      usbvars, winvars, shellvars, parvars>>

Spec == Init /\ [][Next]_allvars

-----------------------------------------------------------------------------
\* wifi.c: once the download reports success the chip's RAM holds the whole
\* firmware and the NVRAM, and a command that needs the chip never meets one that
\* is not up, in whichever order the commands are typed.
ChipReady ==
    /\ scene = "firmware" => Firmware!RamWhole
    /\ scene = "radio" => Radio!EnsuresChipUp

\* wifi.c, dhcp.c and browser.c against lost, repeated and late answers: a
\* download is put together from blocks in sequence; the address in use is the
\* static one or one a server granted; a page on the screen is whole, and the
\* browser's proxy serves the page its client asked for.
ClientsExact ==
    /\ scene = "downloads" => Downloads!DownloadsInOrder
    /\ scene = "lease" => Lease!LeaseGranted
    /\ scene = "pages" => Pages!ShowsWholePages /\ Pages!ProxyServesItsUrl

\* fat32.c, update.c and vfs.c: through refused sectors, full media and power cuts
\* - except one that hits an update after the old kernel's chain was freed - the
\* chains of the directory are sound and disjoint, and the kernel it shows is a
\* published one, whole; every file of the tree is in a directory of the tree.
DiskSound ==
    scene = "disk" => Disk!ChainsSound /\ Disk!KernelWhole /\ Disk!TreeClosed

\* rp1usb.c: an input device that was brought up always has a transfer the
\* controller can complete, and a camera frame handed on is one exposure.
UsbSound ==
    /\ scene = "camera" => Bus(CameraPlug)!InputAlive /\ Bus(CameraPlug)!FrameOneExposure
    /\ scene = "keyboard" => Bus(KeyboardPlug)!InputAlive /\ Bus(KeyboardPlug)!FrameOneExposure

\* wm.c, shellwin.c and main.c: the screen shows the windows in their order
\* after every repaint, and keys go to the shell whose window has the focus.
\* shell.c: what the editor saves is what it shows, and pingpong counts every
\* message.
DesktopSound ==
    /\ scene = "desktop" => Desktop!ScreenRight /\ Desktop!FocusRouted
    /\ scene = "layout" => Moved!FocusRouted
    /\ scene = "line" => Line!EditorSaves /\ Line!PingPongCounts

\* smpsched.c: as long as no wait was broken off, a call of smpsched_parallel or
\* smpsched_nqueens returns every index of its own range once, whatever the
\* calls before it and the other loop left running, and two units share a stack
\* only when SP_GEN calls lie between them.
ParallelExact == scene = "loops" => Loops!ParallelExact /\ Loops!StackGenerations
=============================================================================
