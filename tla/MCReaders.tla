------------------------------ MODULE MCReaders ------------------------------
(***************************************************************************)
(* The readers of the program on small inputs: those of SourceReaders, and *)
(* the file systems, whose promises are checked here alone.                *)
(***************************************************************************)
EXTENDS SourceReaders, Bitwise

NtfsReader == INSTANCE Ntfs
           WITH ClusterSize <- 2, CellBits <- 16, BitmapRecord <- 1, RootRecord <- 2,
                PathGuard <- 3, JournalRunLimit <- 2
Fat == INSTANCE Fat32 WITH ClusterSize <- 2
ExFat == INSTANCE Exfat WITH ClusterSize <- 2, CellBits <- 16
Ext == INSTANCE Ext4 WITH BlockSize <- 2, JournalInode <- 2, MaxTreeDepth <- 5, JournalLimit <- 8
Hfs == INSTANCE HfsPlus WITH BlockSize <- 2
ApfsReader == INSTANCE Apfs WITH BlockSize <- 2, PreviewLimit <- 3

(*---------------------------------- RAID ---------------------------------*)
BitwiseXor(a, b) == a ^^ b

RaidGeometries ==
  [level : {"Raid0", "Raid1", "Jbod"}, n : {2, 3}, stripe : {1, 2}, offset : {0, 1}]
    \cup [level : {"Raid5"}, n : {3}, stripe : {1, 2}, offset : {0, 1}]
    \cup [level : {"Raid6"}, n : {4}, stripe : {1, 2}, offset : {0, 1}]

RaidArrayOf(g) ==
  [level |-> g.level, n |-> g.n, stripe |-> g.stripe, offset |-> g.offset,
   data |-> [i \in 1..(g.n * Width(g) * g.stripe) |-> (i * 37 + 11) % 256]]

SmallArrays == {RaidArrayOf(g) : g \in RaidGeometries}

(*---------------------------- Filesystem memory --------------------------*)
MemoryFiles ==
  {[content |-> c, hashes |-> TRUE] : c \in {<<"h", "t">>, <<"h", "a", "t">>, <<"h", "b", "t">>}}
    \cup {[content |-> <<"h", "t">>, hashes |-> FALSE]}

MemoryPaths == {<<"a", "x">>, <<"a", "y">>, <<"b", "x">>}

MemoryFolders ==
  {[files |-> f, links |-> {}, closed |-> c, volume |-> "v"] :
     f \in UNION {[ps -> MemoryFiles] : ps \in SUBSET MemoryPaths}, c \in {{}, {<<"a">>}}}

SmallCaptures ==
  {[before |-> before, after |-> after, options |-> [maxDepth |-> 2, ignored |-> ignored, volume |-> "none"]] :
     before \in {f \in MemoryFolders : f.closed = {}}, after \in MemoryFolders, ignored \in {{}, {"b"}}}

(*--------------------------------- Carving -------------------------------*)
CarvingBlocks ==
  { <<11, 12, 9, 13>>, <<11, 12, 9, 9>>, <<21, 1, 24, 9, 3, 0, 22, 2, 23>>,
    <<21, 1, 24, 0, 0, 9, 3, 0, 22, 2>>, <<31, 9, 32, 0>>, <<41, 3, 42, 9, 9>>, <<41, 9, 41, 3, 42>>, <<51, 3, 9>>,
    <<2, 61, 3, 62, 9>>, <<71, 0, 72, 1, 9>>, <<81, 1, 9, 9>>, <<91, 9>>,
    <<95, 0, 96, 2, 96, 2, 96, 2>>, <<0, 0, 0>>, <<9>>, <<9, 9, 0>>, <<11, 12, 9, 0, 0, 13>>,
    <<21, 1, 24, 9, 3, 0, 0, 0, 22, 22, 23>> }

SmallCarvedImages ==
  {[image |-> a \o b \o c, threads |-> threads] :
     a, b \in CarvingBlocks, c \in {<<9>>, <<11, 12, 9, 13, 91, 9>>}, threads \in {1, 2, 3}}

(*------------------------------ Virtual disks ----------------------------*)
\* The orders in which some of n blocks can have been allocated.
AllocationOrders(n) ==
  UNION {{s \in [1..Cardinality(S) -> S] : Cardinality({s[i] : i \in DOMAIN s}) = Cardinality(S)}
         : S \in SUBSET (0..n - 1)}

\* The cells of a disk on which only the blocks in "stored" were written.
DiskCells(n, size, stored) ==
  [i \in 1..n |-> IF \E k \in DOMAIN stored : stored[k] = (i - 1) \div size THEN 10 + i ELSE 0]

DiskFile(format, cells, size, stored, damaged) ==
  [format |-> format, cells |-> cells, size |-> size, stored |-> stored, damaged |-> damaged]

SmallDiskFiles ==
  {DiskFile("fixed", DiskCells(5, 2, <<0, 1, 2>>), 2, <<>>, FALSE)}
    \cup {DiskFile("dynamic", DiskCells(5, size, order), size, order, damaged) :
            order \in AllocationOrders(3), size \in {2, 3}, damaged \in BOOLEAN}
    \cup {DiskFile("dynamic", DiskCells(20, 16, order), 16, order, FALSE) : order \in AllocationOrders(2)}
    \cup {DiskFile("sparse", DiskCells(n, 2, order), 2, order, FALSE) :
            order \in AllocationOrders(4), n \in {5, 6, 7, 8}}

(*----------------------------- Partition tables --------------------------*)
VolumeOn(start, sectors, fs, type) == [start |-> start, sectors |-> sectors, fs |-> fs, type |-> type]

\* Five volumes, whose entries take two sectors of a GPT.
ManyVolumes == [i \in 1..5 |-> VolumeOn(8 + 8 * i, 8, IF i = 2 THEN "Apfs" ELSE "Ntfs", "apfs")]

SmallSourceDisks ==
  {[volumes |-> ManyVolumes, size |-> 80, scheme |-> "gpt", known |-> known, damage |-> damage, wiped |-> {16, 24}] :
     known \in BOOLEAN, damage \in SUBSET {"gpt", "backup"}} \cup
  {[volumes |-> <<VolumeOn(16, 16, fs, type), VolumeOn(at, 16, next, "apfs"), VolumeOn(64, 12, "Exfat", "ntfs")>>,
    size |-> 80, scheme |-> scheme, known |-> known, damage |-> damage, wiped |-> wiped] :
     fs \in FileSystems, type \in {"fat32", "hfs", "ntfs"}, at \in {32, 36}, next \in {"Apfs", "Ntfs"},
     scheme \in {"mbr", "gpt"}, known \in BOOLEAN, damage \in SUBSET {"mbr", "gpt", "backup"},
     wiped \in SUBSET {16, 64}}

(*------------------------------ File systems -----------------------------*)
\* The files that are there lie on nothing another file has got.
KeepApart(files, taken) ==
  \A f \in files : f.live => \A i \in DOMAIN f.places : f.places[i] \notin taken

NtfsFile(name, live, kind, size, places, stream) ==
  [name |-> name, live |-> live, kind |-> kind, size |-> size, clusters |-> places, stream |-> stream,
   places |-> places]

NtfsFiles ==
  {NtfsFile("a", l, "plain", n, c, s) : l, s \in BOOLEAN, n \in {3, 6},
     c \in {<<20, 21, 22>>, <<22, 20, 21>>, <<20, -1, 23>>, <<30, 12, 20>>}}
    \cup {NtfsFile("a", l, "compressed", 7, c, s) : l, s \in BOOLEAN, c \in {<<21, 20>>, <<20, -1>>}}
    \cup {NtfsFile("a", l, "resident", 1, <<>>, s) : l, s \in BOOLEAN}

ChooseNtfs ==
  \E a \in NtfsFiles, live \in BOOLEAN, mft \in {<<1, 2, 3, 4, 5, 6, 7>>, <<4, 5, 6, 11, 10, 1, 2>>} :
  \E taken \in {{}, {20}, {21, 27}}, torn \in {{}, {3}, {2, 6}}, deletions \in {<<5, 6>>, <<6>>} :
    LET b == NtfsFile("b", live, "plain", 4, <<28, 26>>, FALSE)
    IN /\ KeepApart({a, b}, taken)
       /\ input' = [files |-> <<a, b>>, mft |-> mft, taken |-> taken, torn |-> torn, deletions |-> deletions]

\* Of an NTFS volume with torn records and a fragmented table, every deleted file
\* whose record can be read is found with what no other file has overwritten, and is
\* called whole only when it is; a file that is there is not called deleted; and
\* without torn records a deletion the change journal remembers is put down to the
\* file it is about (recover_deleted_files, build_non_resident_candidate,
\* build_usn_candidates).  Content kept in its record counts as whole with the update
\* sequence number still in it, as the code reads it; a deleted compressed file with a
\* hole is never found, and of that only the listed size is stated; no run of clusters
\* reaches out of the volume.
NtfsFilesAreRecovered ==
  Chosen("ntfs") =>
    NtfsReader!NtfsVolumeIsRecovered(input.files, input.mft, input.taken, input.torn, input.deletions)

FatFile(name, live, folder, mark, size, places) ==
  [name |-> name, live |-> live, folder |-> folder, long |-> mark, chained |-> mark, size |-> size,
   clusters |-> places, places |-> places]

FatFiles(name, first, sizes, orders) ==
  {FatFile(name, l, f, m, n, [i \in DOMAIN o |-> first + o[i]]) :
     l, f, m \in BOOLEAN, n \in sizes, o \in orders}

\* exFAT links the clusters of a file in the table only when they do not follow
\* each other.
Followed(f) == \A i \in DOMAIN f.places : f.places[i] = f.places[1] + i - 1

ChooseFat(first, chained) ==
  \E a \in FatFiles("a", first, {5, 6}, {<<0, 1, 2>>, <<2, 1, 0>>, <<0, 2, 1>>, <<1, 2, 3>>})
             \cup FatFiles("a", first, {0}, {<<>>}) :
  \E b \in FatFiles("b", first + 4, {3, 4}, {<<0, 1>>, <<1, 2>>}) \cup FatFiles("b", first + 4, {2}, {<<0>>}) :
  \E taken \in {<<>>, <<1>>, <<2, 5>>, <<6, 5, 2>>} :
    LET clusters == [i \in DOMAIN taken |-> first + taken[i]]
    IN /\ chained => (Followed(a) \/ a.chained) /\ b.live
       /\ ~chained => ~b.long
       /\ KeepApart({a, b}, {clusters[i] : i \in DOMAIN clusters})
       /\ input' = [files |-> <<a, b>>, taken |-> clusters]

ExtFile(live, listed, kind, size, places, time) ==
  [live |-> live, listed |-> listed, kind |-> kind, size |-> size, blocks |-> places, time |-> time,
   places |-> places]

ChooseExt4 ==
  \E live, listed \in BOOLEAN, kind \in {"direct", "extents", "tree"}, size \in {3, 4},
     places \in {<<22, 23>>, <<27, 15>>, <<31, 14>>} :
  \E other \in {ExtFile(l, TRUE, k, 2, <<24>>, 2) : l \in BOOLEAN, k \in {"direct", "tree"}}
               \cup {ExtFile(FALSE, TRUE, "extents", n, <<25, 26>>, t) : n \in {3, 4}, t \in {1, 2}} :
  \E first \in {0, 1}, taken \in {{}, {22}, {23}, {15, 24}}, journal \in {<<>>, <<1>>, <<1, 2>>} :
    LET file == ExtFile(live, listed, kind, size, places, 1)
    IN /\ live => listed
       /\ KeepApart({file, other}, taken)
       /\ input' = [files |-> <<file, other>>, first |-> first, taken |-> taken, journal |-> journal]

HfsFile(live, leaf, folder, size, places, resource, kept) ==
  [live |-> live, leaf |-> leaf, folder |-> folder, size |-> size, blocks |-> places, resource |-> resource,
   kept |-> kept]

HfsFiles ==
  {HfsFile(l, leaf, 2, n, b, <<>>, k) : l, k \in BOOLEAN, leaf \in {1, 2}, n \in {5, 6}, b \in {<<4, 5, 6>>, <<6, 4, 7>>}}
    \cup {HfsFile(l, leaf, 5, 0, <<>>, b, k) : l, k \in BOOLEAN, leaf \in {1, 2}, b \in {<<>>, <<8>>, <<8, 5, 6, 7, 4>>}}

ChooseHfs ==
  \E a \in HfsFiles, live, wrapped \in BOOLEAN, leaf \in {1, 2}, folder \in {2, 5}, resource \in {<<>>, <<12, 11>>} :
  \E copies \in {<<>>, <<<<1, 1>>>>, <<<<2, 1>>>>, <<<<1, 2>>, <<1, 1>>, <<2, 1>>>>} :
    input' = [files |-> <<a, HfsFile(live, leaf, folder, 2, <<10>>, resource, TRUE)>>,
              copies |-> copies, wrapped |-> wrapped]

ApfsFile(names, linked, size, places, kept) ==
  [names |-> names, linked |-> linked, size |-> size, places |-> places, kept |-> kept]

Extent(block, count) == [block |-> block, count |-> count]

ApfsFiles(name, places) ==
  {ApfsFile(n, l, s, p, k) :
     n \in {<<>>, <<<<2, name>>>>, <<<<3, name>>>>, <<<<3, name>>, <<2, name + 1>>>>}, l \in BOOLEAN,
     s \in {0, 3, 4}, p \in places, k \in 0..2}

ChooseApfs ==
  \E a \in ApfsFiles(1, {<<Extent(2, 2)>>, <<Extent(2, 1), Extent(3, 1)>>, <<Extent(5, 1), Extent(2, 1)>>}) :
  \E b \in ApfsFiles(3, {<<Extent(9, 1), Extent(7, 1)>>}), other \in {0, 1} :
    /\ a.kept <= Len(a.places) /\ b.size = 3 /\ ~b.linked
    /\ input' = [files |-> <<a, b>>, other |-> IF other = 0 THEN ApfsReader!NoVolume ELSE ApfsReader!VolumeOf(<<b>>)]

\* What the analysers of FAT32, exFAT, ext4, HFS+ and APFS list and recover is what the
\* file system wrote: a file that is there is listed once and whole; a deleted one
\* whose first cluster or block is free is found with its beginning, up to what
\* another file got, and called whole only when it is (recover_deleted_files,
\* build_conservative_free_clusters, block_is_free, scan_deleted_catalog_slack,
\* resolve_fork_extents, select_deleted_catalog_inodes; each module says where its
\* analyser promises less).  Only on FAT32, exFAT and ext4 is a block of a deleted
\* file given to another one: on HFS+ and APFS the code does not look.
FilesAreRecovered ==
  /\ Chosen("fat32") => Fat!Fat32VolumeIsRecovered(input.files, input.taken, 17)
  /\ Chosen("exfat") => ExFat!ExfatVolumeIsRecovered(input.files, input.taken, 31)
  /\ Chosen("ext4") => Ext!Ext4VolumeIsRecovered(input.files, input.first, input.taken, input.journal)
  /\ Chosen("hfsplus") => Hfs!HfsVolumeIsRecovered(input.files, input.copies, input.wrapped)
  /\ Chosen("apfs") => ApfsReader!ApfsVolumeIsRecovered(input.files, 20, input.other)

(*------------------------------- Correlation -----------------------------*)
MergeFile(name, size, start, hash, journal, score) ==
  [name |-> name, size |-> size, start |-> start, hash |-> hash, journal |-> journal, score |-> score]

MergeFiles(names, sizes, starts, hashes, journal, scores) ==
  {MergeFile(n, s, p, h, journal, q) : n \in names, s \in sizes, p \in starts, h \in hashes, q \in scores}

NoneOr(files) == {<<>>} \cup {<<f>> : f \in files}

SmallScanResults ==
  {[fileSystem |-> <<a, b>>, journal |-> journal, carved |-> carved] :
     a \in MergeFiles({1, 2}, {10, 20}, {None, 4}, {None, 7}, FALSE, {60, 80}),
     b \in MergeFiles({1}, {10, 11}, {4}, {None, 7}, FALSE, {60, 80}),
     journal \in NoneOr(MergeFiles({1}, {10, 11}, {None, 4}, {None, 7}, TRUE, {60, 90})),
     carved \in NoneOr(MergeFiles({3}, {10, 20}, {4}, {None}, FALSE, {70}))}

(*---------------------------------- Choice -------------------------------*)
AnalyserNext ==
  \/ Chooses("ntfs", ChooseNtfs)
  \/ Chooses("fat32", ChooseFat(10, FALSE))
  \/ Chooses("exfat", ChooseFat(24, TRUE))
  \/ Chooses("ext4", ChooseExt4)
  \/ Chooses("hfsplus", ChooseHfs)
  \/ Chooses("apfs", ChooseApfs)
=============================================================================
