\* An unaligned arena of six granules; requests of one to three granules, with
\* and without the kmalloc header, that do and do not fill their granules.
SPECIFICATION MemSpec
CONSTANTS
    MEM_ALIGN = 2
    Header = 2
    KM_HEADER_BYTES = 4
    HeapStart = 3
    HeapEnd = 17
    Requests = {1, 2, 5}
INVARIANTS ListSound Partition CachedTotal
PROPERTIES FreesRight
