------------------------------- MODULE Memory -------------------------------
(***************************************************************************)
(* The first-fit heap of mem/memory.c and the kmalloc layer on top of it   *)
(* (mem/kmalloc.c).                                                        *)
(*                                                                         *)
(* getmem and freemem walk the free list with IRQs masked and core 0 alone *)
(* allocates, so each call is one step.  The list threaded through the     *)
(* arena is the sequence of its blocks in link order; that this order is   *)
(* the address order is a property, not an assumption.  What the callers   *)
(* hold is the history variable live.  kmalloc's statistics, which only    *)
(* the memory window shows, are left out.                                  *)
(***************************************************************************)
EXTENDS Integers, Sequences, FiniteSets

CONSTANTS
    MEM_ALIGN,              \* granularity of blocks
    Header,                 \* sizeof(struct memblk)
    KM_HEADER_BYTES,        \* sizeof(struct km_header)
    HeapStart, HeapEnd,     \* mem_init's arguments
    Requests                \* the sizes callers ask for, in bytes

\* memory.h:26 says MEM_ALIGN must be at least the header's size.
ASSUME AlignAssumption ==
    /\ MEM_ALIGN \in Nat /\ Header \in Nat \ {0}
    /\ MEM_ALIGN >= Header
ASSUME ArenaAssumption ==
    /\ HeapStart \in Nat \ {0} /\ HeapEnd \in Nat
    /\ HeapStart + 2 * MEM_ALIGN <= HeapEnd
ASSUME RequestAssumption ==
    Requests \subseteq Nat \ {0} /\ KM_HEADER_BYTES \in Nat

VARIABLES
    free,       \* memlist_head.mnext and on: the blocks [addr, len] in link order
    mlength,    \* memlist_head.mlength, the cached sum
    live,       \* what callers hold, bytes as they asked for them (history)
    ret         \* whether the last call succeeded

memvars == <<free, mlength, live, ret>>

ROUNDMB(x) == ((x + (MEM_ALIGN - 1)) \div MEM_ALIGN) * MEM_ALIGN
TRUNCMB(x) == (x \div MEM_ALIGN) * MEM_ALIGN
Aligned(x) == x % MEM_ALIGN = 0

heap_lo == ROUNDMB(HeapStart)
heap_hi == TRUNCMB(HeapEnd)

Block == [addr : Nat, len : Nat]

MemTypes ==
    /\ free \in Seq(Block)
    /\ mlength \in Int
    /\ live \subseteq [addr : Nat, bytes : Nat \ {0}, by : {"getmem", "kmalloc"}]
    /\ ret \in {"ok", "refused"}

\* mem_init: one block.
mem_init ==
    /\ free = <<[addr |-> heap_lo, len |-> heap_hi - heap_lo]>>
    /\ mlength = heap_hi - heap_lo
    /\ live = {}
    /\ ret = "ok"

End(b) == b.addr + b.len

-----------------------------------------------------------------------------
\* An allocator that takes a block one granule too short.
IsFirstFit_mutant(i, n) == free[i].len >= n - MEM_ALIGN

\* The walk of getmem stops at the first block of n bytes or more.
IsFirstFit(i, n) ==
    /\ free[i].len >= n
    /\ \A j \in DOMAIN free : j < i => free[j].len < n

\* What is left could not hold a header: the block is taken whole.
TakeWhole(i, n) == free[i].len < n + Header

Unlinked(q, i) ==
    [j \in 1 .. Len(q) - 1 |-> IF j < i THEN q[j] ELSE q[j + 1]]

\* A split that leaves the block as long as it was.
Split_mutant(i, n) == [free EXCEPT ![i].addr = @ + n]

\* The tail of the block stays in the list in its place.
Split(i, n) ==
    [free EXCEPT ![i] = [addr |-> free[i].addr + n, len |-> free[i].len - n]]

\* getmem(bytes), called by kmalloc or directly; with no block large enough it
\* returns 0 and nothing changes.
getmem(bytes, by) ==
    LET n == ROUNDMB(bytes) IN
    \/ \E i \in DOMAIN free :
          /\ IsFirstFit(i, n)
          /\ IF TakeWhole(i, n)
             THEN free' = Unlinked(free, i) /\ mlength' = mlength - free[i].len
             ELSE free' = Split(i, n) /\ mlength' = mlength - n
          /\ live' = live \cup {[addr |-> free[i].addr, bytes |-> bytes, by |-> by]}
          /\ ret' = "ok"
    \/ /\ \A i \in DOMAIN free : free[i].len < n
       /\ ret' = "refused"
       /\ UNCHANGED <<free, mlength, live>>

-----------------------------------------------------------------------------
\* The walk of freemem ends with the i-th block before start and the next, if
\* there is one, not before it.
IsPlace(i, start) ==
    /\ \A j \in 1 .. i : free[j].addr < start
    /\ i < Len(free) => free[i + 1].addr >= start

\* A check that looks at the predecessor only.
Overlaps_mutant(i, start, end) == i > 0 /\ End(free[i]) > start

\* The region meets the block before or the block after.
Overlaps(i, start, end) ==
    \/ i > 0 /\ End(free[i]) > start
    \/ i < Len(free) /\ end > free[i + 1].addr

JoinsPrev(i, start) == i > 0 /\ End(free[i]) = start

\* A free that never merges with the block behind it.
JoinsNext_mutant(i, end) == FALSE

JoinsNext(i, end) == i < Len(free) /\ end = free[i + 1].addr

Insert(q, i, b) ==
    [j \in 1 .. Len(q) + 1 |-> IF j <= i THEN q[j]
                               ELSE IF j = i + 1 THEN b ELSE q[j - 1]]

\* The list after the region [start, start + n) went in behind block i.
Linked(i, start, n) ==
    LET prev == free[i]
        next == free[i + 1]
    IN  IF JoinsPrev(i, start)
        THEN IF JoinsNext(i, start + n)
             THEN [Unlinked(free, i + 1) EXCEPT
                      ![i] = [addr |-> prev.addr, len |-> prev.len + n + next.len]]
             ELSE [free EXCEPT ![i] = [addr |-> prev.addr, len |-> prev.len + n]]
        ELSE IF JoinsNext(i, start + n)
             THEN [free EXCEPT ![i + 1] = [addr |-> start, len |-> n + next.len]]
             ELSE Insert(free, i, [addr |-> start, len |-> n])

\* The region is one freemem accepts ...
InArena(start, n) == start >= heap_lo /\ start + n <= heap_hi

Acceptable(start, n) ==
    /\ InArena(start, n)
    /\ \E i \in 0 .. Len(free) : IsPlace(i, start) /\ ~Overlaps(i, start, start + n)

\* ... and links in, after which the callers hold held.
Accept(start, n, held) ==
    /\ InArena(start, n)
    /\ \E i \in 0 .. Len(free) :
        /\ IsPlace(i, start)
        /\ ~Overlaps(i, start, start + n)
        /\ free' = Linked(i, start, n)
    /\ mlength' = mlength + n
    /\ live' = held
    /\ ret' = "ok"

\* It returns -1 and changes nothing.
Refuse(start, n) ==
    /\ ~Acceptable(start, n)
    /\ ret' = "refused"
    /\ UNCHANGED <<free, mlength, live>>

Free(start, n, held) == Accept(start, n, held) \/ Refuse(start, n)

\* freemem by a caller that gives back the block b it holds.
freemem(b) == Free(b.addr, ROUNDMB(b.bytes), live \ {b})

\* The bytes of a region, and those on the free list.
Bytes(start, n) == start .. start + n - 1
FreeBytes == UNION {Bytes(free[i].addr, free[i].len) : i \in DOMAIN free}

\* freemem by a caller that gives back something that is free already, wholly
\* or in part: the double free or wrong size of the comment at memory.c:97.
freemem_again(start, bytes) ==
    /\ Aligned(start)
    /\ Bytes(start, ROUNDMB(bytes)) \cap FreeBytes # {}
    /\ Free(start, ROUNDMB(bytes), live)

\* kmalloc(bytes) and kfree: the header in front of the block keeps the size
\* that goes back to freemem.  A pointer without the magic is not freed at all.
kmalloc(bytes) == getmem(bytes + KM_HEADER_BYTES, "kmalloc")
kfree(b) == b.by = "kmalloc" /\ freemem(b)

MemNext ==
    \/ \E bytes \in Requests : getmem(bytes, "getmem") \/ kmalloc(bytes)
    \/ \E b \in live : (b.by = "getmem" /\ freemem(b)) \/ kfree(b)
    \/ \E start \in heap_lo .. heap_hi, bytes \in Requests : freemem_again(start, bytes)

MemSpec == mem_init /\ [][MemNext]_memvars

-----------------------------------------------------------------------------
\* The checks of test/host/memtest.c's check_list on every reachable list: each
\* block lies in the arena, is aligned, can hold its header, and the list is in
\* address order.  Blocks never touch either: freemem has merged them.
ListSound ==
    /\ \A i \in DOMAIN free :
        /\ free[i].addr >= heap_lo /\ End(free[i]) <= heap_hi
        /\ Aligned(free[i].addr) /\ Aligned(free[i].len)
        /\ free[i].len >= Header
    /\ \A i, j \in DOMAIN free : i < j => End(free[i]) < free[j].addr

\* The bytes getmem promised to the caller that holds b.
HeldBytes(b) == Bytes(b.addr, ROUNDMB(b.bytes))

\* No byte is handed out twice or while it is free, and none is lost: the free
\* blocks and the blocks callers hold partition the arena.
Partition ==
    /\ \A b, c \in live : b # c => HeldBytes(b) \cap HeldBytes(c) = {}
    /\ \A b \in live : HeldBytes(b) \cap FreeBytes = {}
    /\ FreeBytes \cup UNION {HeldBytes(b) : b \in live} = Bytes(heap_lo, heap_hi - heap_lo)

\* mem_free_bytes() returns the cached sum: it is the number of the bytes a walk
\* of the list finds.
CachedTotal == mlength = Cardinality(FreeBytes)

\* freemem takes back every block that is held and nothing that is free: the
\* double-free check neither misses nor misfires.
FreesRight ==
    [][/\ \A b \in live : freemem(b) => ret' = "ok"
       /\ \A start \in heap_lo .. heap_hi, bytes \in Requests :
             freemem_again(start, bytes) => ret' = "refused"]_memvars
=============================================================================
