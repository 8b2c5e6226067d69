-------------------------------- MODULE WifiFw --------------------------------
(***************************************************************************)
(* The firmware download of device/wifi/wifi.c: wifi_fwload_write streams  *)
(* firmware, nvram and trailer into the chip's RAM through a backplane     *)
(* window, in CMD53 chunks that are retried on a data error.  A unit is 32 *)
(* bytes: a block is two units, a trailer one.                             *)
(***************************************************************************)
EXTENDS Naturals, Sequences

CONSTANTS
    FwLen, NvLen,   \* lengths of the firmware and of the condensed nvram
    RamSize,        \* chip_socramsize
    SB_XFER,        \* largest chunk
    SB_WSIZE,       \* backplane window
    BSIZE,          \* block size of function 1
    RETRIES         \* g_cmd53_retries

VARIABLES
    ram,            \* [0..RamSize-1 -> unit]
    window,         \* the window the chip has, NoWin when partly set
    job,            \* the running wifi_sbmem: [buf, addr, cur_win, tries]
    todo,           \* the writes of wifi_fwload_write still to come
    clock,          \* SD clock: "id" (400 kHz), "cmd" (25 MHz) or "data" (g_fwload_hz)
    fwload          \* "idle", "writing", "done" or "failed"

vars == <<ram, window, job, todo, clock, fwload>>

NoWin == RamSize     \* 0xFFFFFFFF in the code
Units(name, n) == [i \in 1..n |-> <<name, i>>]
sbmem(buf, addr) == [buf |-> buf, addr |-> addr, cur_win |-> NoWin, tries |-> 0]
NoJob == sbmem(<< >>, 0)

Init ==
    /\ ram = [a \in 0..(RamSize - 1) |-> <<"garbage", 0>>] /\ window = NoWin
    /\ job = NoJob /\ todo = << >> /\ clock = "id" /\ fwload = "idle"

\* The chunk that comes next when len units are left to be written at addr.
Least(S) == CHOOSE x \in S : \A y \in S : x <= y
chunkAt(len, addr) == Least({len, SB_XFER, SB_WSIZE - (addr % SB_WSIZE)})

\* wifi_fwload_write: the trailer cleared, the firmware, the nvram below the trailer, the
\* trailer.
Writes ==
    << sbmem(<< <<"zero", 0>> >>, RamSize - 1), sbmem(Units("fw", FwLen), 0),
       sbmem(Units("nv", NvLen), RamSize - NvLen - 1), sbmem(Units("trailer", 1), RamSize - 1) >>

\* Offs holds the places at which the chunks of a write begin and end, and each
\* chunk is at most one block or a number of whole blocks.
CutsInto(Offs, len, addr) ==
    /\ 0 \in Offs
    /\ \A o \in Offs : o < len =>
          LET c == chunkAt(len - o, addr + o)
          IN  (c <= BSIZE \/ c % BSIZE = 0) /\ o + c \in Offs

\* The images fit below the trailer, and their lengths are such that the chunks
\* wifi_sbmem cuts them into are ones wifi_cmd53_pio does not shorten.
ConstantsOK ==
    /\ FwLen \in Nat /\ NvLen \in Nat /\ RamSize \in Nat /\ FwLen + NvLen + 1 <= RamSize
    /\ SB_XFER \in Nat \ {0} /\ SB_WSIZE \in Nat \ {0} /\ BSIZE \in Nat \ {0}
    /\ \A w \in 1..4 : \E Offs \in SUBSET (0..Len(Writes[w].buf)) :
          CutsInto(Offs, Len(Writes[w].buf), Writes[w].addr)

wifi_fwload_write ==
    /\ fwload # "writing"
    /\ job' = Head(Writes) /\ todo' = Tail(Writes) /\ fwload' = "writing"
    /\ clock' = "data" /\ UNCHANGED <<ram, window>>

-----------------------------------------------------------------------------
\* wifi_sbmem: the window of the next chunk, and the chunk, which stops at the window's end.
win == job.addr \div SB_WSIZE
chunk == chunkAt(Len(job.buf), job.addr)
Fail == fwload' = "failed" /\ job' = NoJob /\ todo' = << >>

\* emmc_cmd: the lines busy, no answer, or a CRC, index or end-bit error is a failure.
\* sdio_cmd52 sends its command four times before it fails, at the command clock.
emmc_cmd == {"answer", "failure"}
sdio_cmd52 == {IF \A t \in 1..4 : try[t] = "failure" THEN "failure" ELSE "answer" :
                try \in [1..4 -> emmc_cmd]}

\* sdio_set_window, three CMD52s: done only when the window changes.
sdio_set_window ==
    /\ fwload = "writing" /\ job.buf # << >> /\ job.cur_win # win
    /\ \E byte \in [1..3 -> sdio_cmd52] :
         IF \A i \in 1..3 : byte[i] = "answer"
         THEN window' = win /\ job' = [job EXCEPT !.cur_win = win] /\ UNCHANGED <<todo, fwload>>
         ELSE window' = NoWin /\ Fail
    /\ clock' = "cmd" /\ UNCHANGED ram

total_mutant(len) == IF len > BSIZE THEN (len \div BSIZE - 1) * BSIZE ELSE len

\* wifi_cmd53_pio: more than one block goes in block mode, whole blocks only.
total(len) == IF len > BSIZE THEN (len \div BSIZE) * BSIZE ELSE len
Put(n) ==
    [a \in DOMAIN ram |->
        LET base == window * SB_WSIZE + (job.addr % SB_WSIZE)
        IN  IF a \in base..(base + n - 1) THEN job.buf[a - base + 1] ELSE ram[a]]

\* 0: the chunk is done.  -2: a data error, after any part of the chunk; the line is reset
\* and the chunk sent again, RETRIES times.  -1: a hard error.
wifi_cmd53_pio ==
    /\ fwload = "writing" /\ job.buf # << >> /\ job.cur_win = win
    /\ \/ /\ ram' = Put(total(chunk))
          /\ job' = [job EXCEPT !.buf = SubSeq(@, chunk + 1, Len(@)), !.addr = @ + chunk, !.tries = 0]
          /\ UNCHANGED <<todo, fwload>>
       \/ /\ \E n \in 0..total(chunk) : ram' = Put(n)
          /\ IF job.tries + 1 < RETRIES
             THEN job' = [job EXCEPT !.tries = @ + 1] /\ UNCHANGED <<todo, fwload>>
             ELSE Fail
       \/ Fail /\ UNCHANGED ram
    /\ clock' = "data" /\ UNCHANGED window

NextWrite ==
    /\ fwload = "writing" /\ job.buf = << >>
    /\ IF todo = << >> THEN fwload' = "done" /\ UNCHANGED <<job, todo>>
       ELSE job' = Head(todo) /\ todo' = Tail(todo) /\ UNCHANGED fwload
    /\ UNCHANGED <<ram, window, clock>>

Next == wifi_fwload_write \/ sdio_set_window \/ wifi_cmd53_pio \/ NextWrite

-----------------------------------------------------------------------------
(* When wifi_fwload_write reports success the chip's RAM holds the whole   *)
(* firmware, the whole nvram and the trailer, whatever errors and retries  *)
(* happened on the way and however the chunks fall across windows: the     *)
(* next step releases the processor on it.                                 *)
RamWhole ==
    fwload = "done" =>
        /\ \A i \in 1..FwLen : ram[i - 1] = <<"fw", i>>
        /\ \A i \in 1..NvLen : ram[RamSize - NvLen - 2 + i] = <<"nv", i>>
        /\ ram[RamSize - 1] = <<"trailer", 1>>
=============================================================================
