----------------------------- MODULE HttpRoutes -----------------------------
(***************************************************************************)
(* The routes of http_build (system/tcp_server.c) that keep state of their *)
(* own between requests: the staged upload of /chainload, the camera       *)
(* snapshot of /cam, the two real-time harnesses on two static stacks, the *)
(* guard of /bench and the queued WiFi join.  Requests are served one at a *)
(* time; a route that waits gives up the CPU with proc_yield.  A byte of   *)
(* an image, a row of a frame and a time slice are units.                  *)
(***************************************************************************)
EXTENDS Naturals, Sequences, SequencesExt

CONSTANTS
    Image,      \* the kernels an operator uploads: a sequence of lengths
    CAP,        \* CHAIN_STAGE_CAP
    FRAMES,     \* bound: frames the camera delivers
    ROWS,       \* requests one frame is read in
    SAMPLES,    \* periods jit_measure takes
    CHUNK,      \* time slices in the hog's g_jit_chunk_us
    YIELDS      \* yields after a measurement, 256 in the code

VARIABLES
    g_chain_stage, g_chain_len,   \* the staging buffer (<< >> before kmalloc), bytes staged
    up, booted,                   \* the operator: kernel and next byte; what kernel_chainload got
    camera, snap, got,            \* latest frame, the copy of it, the rows the viewer has
    serving, hogs, meas, g_jit_hog_run, g_jit_done, g_preempt, left,
    bench_busy, g_adhoc, g_adhoc_pending, joined

chain == <<g_chain_stage, g_chain_len, up, booted>>
cam == <<camera, snap, got>>
rt == <<serving, hogs, meas, g_jit_hog_run, g_jit_done, g_preempt, left, bench_busy>>
queued == <<g_adhoc, g_adhoc_pending, joined>>
vars == <<chain, cam, rt, queued>>

Byte == {<<k, i>> : k \in DOMAIN Image, i \in 0..CAP} \cup {"garbage"}
Nothing == << >>

Init ==
    /\ g_chain_stage = Nothing /\ g_chain_len = 0 /\ up = [img |-> 0, next |-> 0]
    /\ booted = Nothing
    /\ camera = 0 /\ snap = 0 /\ got = << >>
    /\ serving = "none" /\ hogs = << >> /\ meas = 0 /\ g_jit_hog_run = 0
    /\ g_jit_done = 1 /\ g_preempt = 1 /\ left = 0
    /\ bench_busy = 0 /\ g_adhoc = 0 /\ g_adhoc_pending = 0 /\ joined = << >>

Idle == serving = "none" /\ booted = Nothing

-----------------------------------------------------------------------------
chainload_post_mutant(off, b) ==
    LET stage == IF g_chain_stage = Nothing THEN [i \in 1..CAP |-> "garbage"] ELSE g_chain_stage
    IN  IF off + 1 > CAP
        THEN g_chain_stage' = stage /\ UNCHANGED g_chain_len
        ELSE /\ g_chain_stage' = [stage EXCEPT ![off + 1] = b]
             /\ g_chain_len' = IF off + 1 > g_chain_len THEN off + 1 ELSE g_chain_len

\* POST /chainload: off = 0 begins an upload and allocates the staging buffer once.
chainload_post(off, b) ==
    LET stage == IF off = 0 /\ g_chain_stage = Nothing
                 THEN [i \in 1..CAP |-> "garbage"] ELSE g_chain_stage
        len == IF off = 0 THEN 0 ELSE g_chain_len
    IN  IF stage = Nothing \/ off + 1 > CAP
        THEN g_chain_stage' = stage /\ g_chain_len' = len
        ELSE /\ g_chain_stage' = [stage EXCEPT ![off + 1] = b]
             /\ g_chain_len' = IF off + 1 > len THEN off + 1 ELSE len

\* The operator sends a kernel's bytes in order, each until it is acknowledged (an
\* unanswered one is sent again), or gives up and begins with another kernel.
SendByte ==
    /\ Idle /\ up.img # 0 /\ up.next < Image[up.img]
    /\ chainload_post(up.next, <<up.img, up.next>>)
    /\ up' = IF up.next + 1 > CAP THEN [img |-> 0, next |-> 0] ELSE [up EXCEPT !.next = @ + 1]
    /\ UNCHANGED <<booted, cam, rt, queued>>

ResendByte ==
    /\ Idle /\ up.img # 0 /\ up.next > 0
    /\ chainload_post(up.next - 1, <<up.img, up.next - 1>>)
    /\ UNCHANGED <<up, booted, cam, rt, queued>>

StartUpload(k) ==
    /\ Idle /\ up' = [img |-> k, next |-> 0]
    /\ UNCHANGED <<g_chain_stage, g_chain_len, booted, cam, rt, queued>>

\* GET /chainload?go=1, with or without len=: hands the staged bytes over, no return.
chainload_go(len) ==
    /\ g_chain_stage # Nothing /\ len > 0
    /\ booted' = SubSeq(g_chain_stage, 1, len)

Go ==
    /\ Idle /\ up.img # 0 /\ up.next = Image[up.img]
    /\ \E len \in {Image[up.img], g_chain_len} : chainload_go(len)
    /\ UNCHANGED <<g_chain_stage, g_chain_len, up, cam, rt, queued>>

-----------------------------------------------------------------------------
\* The USB poll completes a frame.
CameraFrame ==
    /\ camera < FRAMES /\ camera' = camera + 1
    /\ UNCHANGED <<chain, snap, got, rt, queued>>

\* GET /cam?off=: the first request copies the latest frame, all are served from the copy.
cam_snapshot(off) == IF off = 0 /\ camera # 0 THEN camera ELSE snap

CamRow ==
    /\ Idle
    /\ LET off == Len(got) % ROWS
       IN  /\ snap' = cam_snapshot(off)
           /\ got' = IF off = 0 THEN <<snap'>> ELSE Append(got, snap')
    /\ UNCHANGED <<chain, camera, rt, queued>>

\* GET /cam without off= : the dimensions, and a snapshot too.
CamDims ==
    /\ Idle /\ snap' = cam_snapshot(0) /\ got' = << >>
    /\ UNCHANGED <<chain, camera, rt, queued>>

-----------------------------------------------------------------------------
\* jit_run, entry: the hog on g_rt_stk_a (only when loaded), jit_measure on g_rt_stk_b.
jit_run(hog) ==
    /\ g_jit_done' = 0
    /\ g_jit_hog_run' = IF hog THEN 1 ELSE g_jit_hog_run
    /\ hogs' = IF hog THEN Append(hogs, CHUNK) ELSE hogs
    /\ meas' = SAMPLES

\* GET /rtos-jitter: an idle measurement, then a loaded one, with preempt as asked.
RtosJitter(pe) ==
    /\ Idle /\ g_preempt' = pe /\ serving' = "idle"
    /\ jit_run(FALSE)
    /\ UNCHANGED <<left, bench_busy, chain, cam, queued>>

\* jit_measure, one period: the highest priority, so it is never starved.
jit_measure ==
    /\ meas > 0 /\ meas' = meas - 1
    /\ IF meas = 1 THEN g_jit_hog_run' = 0 /\ g_jit_done' = 1
                   ELSE UNCHANGED <<g_jit_hog_run, g_jit_done>>
    /\ UNCHANGED <<serving, hogs, g_preempt, left, bench_busy, chain, cam, queued>>

\* The hog of stack slot h runs one slice: it looks at g_jit_hog_run between chunks.
HogSlice(h) ==
    IF hogs[h] > 1 THEN [hogs EXCEPT ![h] = @ - 1]
    ELSE IF g_jit_hog_run = 1 THEN [hogs EXCEPT ![h] = CHUNK]
    ELSE RemoveAt(hogs, h)

\* A yield of the waiting request while the hog is ready gives it a slice, to its
\* next yield when preemption is off.
jit_hog ==
    /\ serving # "none" /\ hogs # << >>
    /\ \/ serving \in {"idle", "loaded"} /\ g_jit_done = 0 /\ UNCHANGED left
       \/ serving \in {"drain1", "drain2"} /\ left > 0 /\ left' = left - 1
    /\ hogs' = IF g_preempt = 1 THEN HogSlice(1)
               ELSE IF g_jit_hog_run = 1 THEN hogs ELSE Tail(hogs)
    /\ UNCHANGED <<serving, meas, g_jit_hog_run, g_jit_done, g_preempt, bench_busy, chain,
                   cam, queued>>

\* jit_run, end: the measurement is published; YIELDS yields let the hog exit.
JitDrain ==
    /\ serving \in {"idle", "loaded"} /\ g_jit_done = 1
    /\ g_jit_hog_run' = 0 /\ left' = YIELDS
    /\ serving' = IF serving = "idle" THEN "drain1" ELSE "drain2"
    /\ UNCHANGED <<hogs, meas, g_jit_done, g_preempt, bench_busy, chain, cam, queued>>

JitNext ==
    /\ serving \in {"drain1", "drain2"} /\ (left = 0 \/ hogs = << >>)
    /\ IF serving = "drain1"
       THEN serving' = "loaded" /\ jit_run(TRUE) /\ UNCHANGED g_preempt
       ELSE /\ serving' = "none" /\ g_preempt' = 1
            /\ UNCHANGED <<hogs, meas, g_jit_hog_run, g_jit_done>>
    /\ UNCHANGED <<left, bench_busy, chain, cam, queued>>

-----------------------------------------------------------------------------
\* GET /bench: serial then parallel, unless a run is in flight.
BenchStart ==
    /\ Idle /\ bench_busy = 0 /\ bench_busy' = 1 /\ serving' = "bench"
    /\ UNCHANGED <<hogs, meas, g_jit_hog_run, g_jit_done, g_preempt, left, chain, cam, queued>>

BenchEnd ==
    /\ serving = "bench" /\ bench_busy' = 0 /\ serving' = "none"
    /\ UNCHANGED <<hogs, meas, g_jit_hog_run, g_jit_done, g_preempt, left, chain, cam, queued>>

\* GET /wifi-adhoc stores the parameters; serial_io_tick runs the join later.
WifiAdhoc(n) ==
    /\ Idle /\ joined = << >> /\ g_adhoc' = n /\ g_adhoc_pending' = 1
    /\ UNCHANGED <<joined, chain, cam, rt>>

wifi_adhoc_poll_pending ==
    /\ booted = Nothing /\ g_adhoc_pending = 1 /\ g_adhoc_pending' = 0
    /\ joined' = <<g_adhoc>>
    /\ UNCHANGED <<g_adhoc, chain, cam, rt>>

Next ==
    \/ \E k \in DOMAIN Image : StartUpload(k)
    \/ SendByte \/ ResendByte \/ Go
    \/ CameraFrame \/ CamRow \/ CamDims
    \/ \E pe \in {0, 1} : RtosJitter(pe)
    \/ jit_measure \/ jit_hog \/ JitDrain \/ JitNext
    \/ BenchStart \/ BenchEnd
    \/ \E n \in {1, 2} : WifiAdhoc(n)
    \/ wifi_adhoc_poll_pending

-----------------------------------------------------------------------------
\* /chainload boots exactly the kernel whose upload was completed last, whatever was
\* staged before it, given up or sent twice, and with or without len= (chainload_post).
BootsUpload ==
    booted # Nothing => booted = [i \in 1..Image[up.img] |-> <<up.img, i - 1>>]

\* The rows a viewer joins into one picture come from one frame, however many frames
\* the camera delivers meanwhile (the copy taken at off = 0).
FrameWhole == \A i, j \in DOMAIN got : got[i] = got[j]

\* No two live processes share a static stack: each measurement finds the last one's
\* hog gone, at any CHUNK below YIELDS and with preemption on or off (jit_run).
StackExclusive == Len(hogs) <= 1
=============================================================================
