------------------------------ MODULE Storage --------------------------------
(***************************************************************************)
(* The SD card (device/sd/sd.c), FAT32 on it (fs/fat32.c), the file tree   *)
(* above it (fs/vfs.c, loader/main.c) and the kernel's self-update         *)
(* (system/update.c).  A step is one sector written; the card may refuse   *)
(* it, and the power may fail between two.                                 *)
(***************************************************************************)
EXTENDS Naturals, Sequences, FiniteSets, FiniteSetsExt, Functions, TLC

CONSTANTS
    Cluster,    \* data clusters, numbers from 2 up
    Slot,       \* entries of the root directory, numbers from 1 up
    Small,      \* 8.3 names written with fat32_write_file
    Version,    \* kernel versions published, numbers
    PARTS,      \* clusters of a kernel image; also the pieces it is downloaded in
    Path,       \* other paths of the tree
    CUTS, JOBS  \* bounds on power cuts and on files written

VARIABLES
    fat, data, dir,     \* the card: FAT, cluster contents, directory
    job,                \* the file being written, or Idle
    mounted, tree,      \* g_sd_mounted; path -> node
    upd_result,         \* 0 not checked, 1 up to date, 2 available, 3 failed (-1), 4 written
    upd_img, manifest, server,
    cuts, jobs,
    torn                \* fat32_write_file_full did not get from freeing the old chain to the entry

card == <<fat, data, dir>>
upd == <<upd_result, upd_img, manifest, server>>
bounds == <<cuts, jobs>>
vars == <<card, job, mounted, tree, upd, bounds, torn>>

EOC == 1
Free == 0
Kernel == "KERNEL_2.IMG"
Empty == [name |-> "", first |-> 0, len |-> 0]
Idle == [kind |-> "idle"]
Image(v) == [i \in 1..PARTS |-> <<v, i>>]

\* fat32_read_file, walking the chain of a file of so many clusters.
Chain[c \in Cluster \cup {Free, EOC}, n \in 0..Cardinality(Cluster)] ==
    IF n = 0 \/ c \notin Cluster THEN << >> ELSE <<c>> \o Chain[fat[c], n - 1]
fat32_read_file(e) == LET ch == Chain[e.first, e.len] IN [i \in DOMAIN ch |-> data[ch[i]]]

Dir == [kind |-> "dir"]
File(size, d, c) == [kind |-> "file", size |-> size, data |-> d, fat_cluster |-> c]
NoData == << >>

\* fat32_walk_dir, sd_visit: nodes for the entries before the first empty slot; of two entries
\* with one name the first wins.
Shown == {s \in Slot : dir[s] # Empty /\ \A q \in Slot : q < s => dir[q] # Empty}
sd_visit == [p \in {<<"microsd", dir[s].name>> : s \in Shown} |->
                LET s == Min({q \in Shown : dir[q].name = p[2]})
                IN  File(dir[s].len, NoData, dir[s].first)]

Init ==
    /\ fat = [c \in Cluster |-> IF c < 2 + PARTS - 1 THEN c + 1 ELSE IF c = 2 + PARTS - 1 THEN EOC ELSE Free]
    /\ data = [c \in Cluster |-> IF c < 2 + PARTS THEN <<0, c - 1>> ELSE << >>]
    /\ dir = [s \in Slot |-> IF s = 1 THEN [name |-> Kernel, first |-> 2, len |-> PARTS] ELSE Empty]
    /\ job = Idle /\ mounted = FALSE /\ tree = << >> :> Dir
    /\ upd_result = 0 /\ upd_img = << >> /\ manifest = 0 /\ server \in Version
    /\ cuts = 0 /\ jobs = 0 /\ torn = FALSE

-----------------------------------------------------------------------------
\* sd_init: the steps of the bring-up, any of which a card or controller may not answer; it
\* gives up at the first of those it needs.  ACMD41 is repeated until the card is ready.
InitStep == {"reset", "clock", "CMD0", "CMD8", "CMD55", "ACMD41", "ready", "CMD2", "CMD3", "CMD7", "CMD16", "LBA0", "MBR"}
sd_init(dead) == dead \notin InitStep \ {"CMD8", "CMD16"}
\* fat32_mount: a FAT32 partition whose boot sector makes sense.
fat32_mount(odd) == odd \notin {"MBR", "type", "boot sector", "sector size", "cluster size", "root"}

\* vfs_mount_sd, at boot: /microsd exists in any case, and is empty unless all of that worked.
vfs_mount_sd(dead, odd) ==
    /\ ~mounted /\ << "microsd" >> \notin DOMAIN tree
    /\ mounted' = (sd_init(dead) /\ fat32_mount(odd))
    /\ tree' = (<<"microsd">> :> Dir) @@ (IF mounted' THEN sd_visit @@ tree ELSE tree)
    /\ UNCHANGED <<card, job, upd, bounds, torn>>

\* The old kernel's chain is being taken apart, and its entry still points there.
Harmed == job.kind = "full" /\ job.exists /\ ~(job.ph = "free" /\ job.c = dir[job.slot].first)

\* The power fails: what is in RAM is gone, a write under way stops where it is.
PowerCut ==
    /\ cuts < CUTS /\ cuts' = cuts + 1
    /\ torn' = (torn \/ Harmed)
    /\ job' = Idle /\ mounted' = FALSE /\ tree' = << >> :> Dir
    /\ upd_result' = 0 /\ upd_img' = << >> /\ manifest' = 0
    /\ UNCHANGED <<card, server, jobs>>

\* sd_read_block or sd_write_block fails: the write returns -1 with the card as it stands.
sd_error ==
    /\ job.kind \in {"small", "full"}
    /\ torn' = (torn \/ Harmed)
    /\ job' = Idle /\ upd_result' = IF job.kind = "full" THEN 3 ELSE upd_result
    /\ UNCHANGED <<card, mounted, tree, upd_img, manifest, server, bounds>>

FreeClusters_mutant == {c \in Cluster : fat[c] # EOC}
FreeClusters == {c \in Cluster : fat[c] = Free}
\* name_to_8_3 finds an entry; in fat32_write_file any free slot before it will do.
Matching(name) == {s \in Slot : dir[s].name = name}
Usable(name) == Matching(name) \cup {s \in Slot : dir[s] = Empty}

-----------------------------------------------------------------------------
\* microsd_write_file and fat32_write_file: one cluster, marked as a chain's end first ...
microsd_write_file(name) ==
    /\ mounted /\ job = Idle /\ jobs < JOBS /\ jobs' = jobs + 1
    /\ FreeClusters # {}
    /\ LET c == Min(FreeClusters)
       IN  /\ fat' = [fat EXCEPT ![c] = EOC]
           /\ job' = [kind |-> "small", ph |-> "data", name |-> name, c |-> c, body |-> <<name, jobs>>]
    /\ UNCHANGED <<data, dir, mounted, tree, upd, cuts, torn>>
\* ... then filled, ...
WriteData ==
    /\ job.kind = "small" /\ job.ph = "data"
    /\ data' = [data EXCEPT ![job.c] = job.body] /\ job' = [job EXCEPT !.ph = "dir"]
    /\ UNCHANGED <<fat, dir, mounted, tree, upd, bounds, torn>>
\* ... then entered in the directory, and in the tree.  The old cluster stays allocated.
fat32_write_file ==
    /\ job.kind = "small" /\ job.ph = "dir"
    /\ IF Usable(job.name) = {} THEN UNCHANGED <<dir, tree>>
       ELSE /\ dir' = [dir EXCEPT ![Min(Usable(job.name))] = [name |-> job.name, first |-> job.c, len |-> 1]]
            /\ tree' = (<<"microsd", job.name>> :> File(1, << job.body >>, 0)) @@ tree
    /\ job' = Idle /\ UNCHANGED <<fat, data, mounted, upd, bounds, torn>>

-----------------------------------------------------------------------------
\* fat32_write_file_full: an existing file's chain is freed, cluster by cluster, ...
FullStart ==
    LET at == Matching(Kernel)
    IN  job' = [kind |-> "full", ph |-> IF at # {} THEN "free" ELSE "alloc", exists |-> at # {},
                slot |-> IF at # {} THEN Min(at) ELSE 0,
                c |-> IF at # {} THEN dir[Min(at)].first ELSE 0,
                first |-> 0, prev |-> 0, done |-> 0, cursor |-> 2]
FullFree ==
    /\ job.kind = "full" /\ job.ph = "free"
    /\ IF job.c \in Cluster
       THEN fat' = [fat EXCEPT ![job.c] = Free] /\ job' = [job EXCEPT !.c = fat[job.c]]
       ELSE fat' = fat /\ job' = [job EXCEPT !.ph = "alloc"]
    /\ UNCHANGED <<data, dir, mounted, tree, upd, bounds, torn>>
\* ... then clusters are taken from the front, ended, linked and filled in turn, ...
FullAlloc ==
    /\ job.kind = "full" /\ job.ph = "alloc"
    /\ LET free == {c \in FreeClusters : c >= job.cursor}
       IN  /\ free # {}
           /\ fat' = [fat EXCEPT ![Min(free)] = EOC]
           /\ job' = [job EXCEPT !.ph = "link", !.c = Min(free), !.cursor = Min(free) + 1]
    /\ UNCHANGED <<data, dir, mounted, tree, upd, bounds, torn>>
FullLink ==
    /\ job.kind = "full" /\ job.ph = "link"
    /\ fat' = IF job.prev = 0 THEN fat ELSE [fat EXCEPT ![job.prev] = job.c]
    /\ job' = [job EXCEPT !.ph = "data", !.first = IF job.prev = 0 THEN job.c ELSE @]
    /\ UNCHANGED <<data, dir, mounted, tree, upd, bounds, torn>>
FullData ==
    /\ job.kind = "full" /\ job.ph = "data"
    /\ data' = [data EXCEPT ![job.c] = upd_img[job.done + 1]]
    /\ job' = [job EXCEPT !.done = @ + 1, !.prev = job.c,
                          !.ph = IF job.done + 1 = Len(upd_img) THEN "dir" ELSE "alloc"]
    /\ UNCHANGED <<fat, dir, mounted, tree, upd, bounds, torn>>
\* ... and the entry, in its old slot or in a free one, comes last.
fat32_write_file_full ==
    /\ job.kind = "full" /\ job.ph = "dir"
    /\ LET s == IF job.exists THEN job.slot ELSE Min({q \in Slot : dir[q] = Empty})
       IN  /\ job.exists \/ \E q \in Slot : dir[q] = Empty
           /\ dir' = [dir EXCEPT ![s] = [name |-> Kernel, first |-> job.first, len |-> Len(upd_img)]]
    /\ job' = Idle /\ upd_result' = 4
    /\ UNCHANGED <<fat, data, mounted, tree, upd_img, manifest, server, bounds, torn>>
\* No free cluster or slot: -1 as well.
FullNoRoom ==
    /\ job.kind = "full"
    /\ \/ job.ph = "alloc" /\ {c \in FreeClusters : c >= job.cursor} = {}
       \/ job.ph = "dir" /\ ~job.exists /\ \A q \in Slot : dir[q] # Empty
    /\ torn' = (torn \/ Harmed) /\ job' = Idle /\ upd_result' = 3
    /\ UNCHANGED <<card, mounted, tree, upd_img, manifest, server, bounds>>

-----------------------------------------------------------------------------
\* update_check: the manifest, if it arrives, against the running build (0 here).
update_check ==
    /\ job = Idle /\ upd_result \in 0..3 /\ upd_img = << >>
    /\ \/ manifest' = server /\ upd_result' = IF server = 0 THEN 1 ELSE 2
       \/ manifest' = manifest /\ upd_result' = 3
    /\ UNCHANGED <<card, job, mounted, tree, upd_img, server, bounds, torn>>
\* Another version is published, at any time (external).
Publish(v) == server' = v /\ v > server /\ UNCHANGED <<card, job, mounted, tree, upd_result, upd_img, manifest, bounds, torn>>

\* update_install: the pieces one after the other, each tried three times, ...
update_fetch ==
    /\ job = Idle /\ upd_result = 2 /\ Len(upd_img) < PARTS
    /\ \/ upd_img' = Append(upd_img, Image(server)[Len(upd_img) + 1]) /\ upd_result' = upd_result
       \/ upd_img' = << >> /\ upd_result' = 3
    /\ UNCHANGED <<card, job, mounted, tree, manifest, server, bounds, torn>>
\* ... compared with the manifest's hash, ...
Verified == upd_img = Image(manifest)
update_verify ==
    /\ job = Idle /\ upd_result = 2 /\ Len(upd_img) = PARTS
    /\ IF Verified THEN FullStart /\ UNCHANGED <<upd_result, upd_img>>
                   ELSE upd_result' = 3 /\ upd_img' = << >> /\ job' = job
    /\ UNCHANGED <<card, mounted, tree, manifest, server, bounds, torn>>
\* ... written to the card, and started: a power cut without the loss.
update_reboot ==
    /\ upd_result = 4 /\ jobs < JOBS /\ jobs' = jobs + 1
    /\ job' = Idle /\ mounted' = FALSE /\ tree' = << >> :> Dir
    /\ upd_result' = 0 /\ upd_img' = << >> /\ manifest' = 0
    /\ UNCHANGED <<card, server, cuts, torn>>

-----------------------------------------------------------------------------
\* vfs_read: a file of the card is loaded (microsd_load) on its first read; a load that fails
\* leaves no data, and the copy is then made from address 0.
vfs_read(p) ==
    /\ p \in DOMAIN tree /\ tree[p].kind = "file" /\ tree[p].data = NoData /\ tree[p].size > 0
    /\ mounted /\ tree[p].fat_cluster >= 2 /\ job = Idle
    /\ LET d == fat32_read_file([first |-> tree[p].fat_cluster, len |-> tree[p].size])
       IN  /\ d # << >>
           /\ tree' = [tree EXCEPT ![p] = [@ EXCEPT !.data = d, !.size = Len(d)]]
    /\ UNCHANGED <<card, job, mounted, upd, bounds, torn>>

\* resolve_create (vfs_mkdir_p, vfs_create_path): missing directories on the way are made; a
\* file on the way ends it, with what was made so far.
Prefixes(p) == {SubSeq(p, 1, n) : n \in 1..Len(p)}
Blocked(p) == \E q \in Prefixes(p) \ {p} : q \in DOMAIN tree /\ tree[q].kind = "file"
resolve_create(p, last) ==
    LET new == Prefixes(p) \ DOMAIN tree
    IN  /\ ~Blocked(p) /\ new # {} /\ jobs < JOBS /\ jobs' = jobs + 1
        /\ tree' = [q \in new |-> IF q = p THEN last ELSE Dir] @@ tree
        /\ UNCHANGED <<card, job, mounted, upd, cuts, torn>>

Next ==
    \/ \E dead \in {"none", "CMD8", "CMD0"}, odd \in {"none", "type"} : vfs_mount_sd(dead, odd)
    \/ PowerCut \/ sd_error
    \/ \E name \in Small : microsd_write_file(name)
    \/ WriteData \/ fat32_write_file
    \/ FullFree \/ FullAlloc \/ FullLink \/ FullData \/ fat32_write_file_full \/ FullNoRoom
    \/ update_check \/ update_fetch \/ update_verify \/ update_reboot
    \/ \E v \in Version : Publish(v)
    \/ \E p \in DOMAIN tree : vfs_read(p)
    \/ \E p \in Path, last \in {Dir, File(0, NoData, 0)} : resolve_create(p, last)

-----------------------------------------------------------------------------
(* The card stays sound through power cuts, refused sectors and full media *)
(* (unless one of them hit an update between freeing the old kernel's      *)
(* chain and writing the entry): the chains the directory shows consist of *)
(* allocated clusters, end, and share none.                                *)
ChainsSound ==
    ~torn /\ ~Harmed =>
        \A s, q \in {x \in Slot : dir[x] # Empty} :
            LET ch == Chain[dir[s].first, Cardinality(Cluster)]
            IN  /\ Len(ch) = dir[s].len /\ \A i \in DOMAIN ch : fat[ch[i]] # Free
                /\ s # q => Range(ch) \cap Range(Chain[dir[q].first, Cardinality(Cluster)]) = {}

(* The kernel the directory shows is a published one, whole: the old one   *)
(* until the entry changes, then the new one - although the server may     *)
(* publish another version while the pieces are being fetched.             *)
KernelWhole ==
    ~torn /\ ~Harmed =>
        \A s \in Matching(Kernel) : \E v \in Version \cup {0} : fat32_read_file(dir[s]) = Image(v)

(* In the tree every node hangs in a directory, whatever was created in    *)
(* which order.                                                            *)
TreeClosed ==
    \A p \in DOMAIN tree : p # << >> => SubSeq(p, 1, Len(p) - 1) \in DOMAIN tree /\ tree[SubSeq(p, 1, Len(p) - 1)].kind = "dir"
=============================================================================
