----------------------------- MODULE SourceReaders -----------------------------
(***************************************************************************)
(* The readers whose promises are theorems: RAID arrays, the comparison of *)
(* two captures, the carving of an image, virtual disks, partition tables  *)
(* and the correlation of what a deleted-file scan found.  Each is a       *)
(* function of what it reads, so a behaviour chooses one reader and one of *)
(* its inputs, and the promise is an invariant of that state.  The inputs  *)
(* are constants.                                                          *)
(***************************************************************************)
EXTENDS SnapshotDiff, Carving, Correlation, RaidArray, VirtualDisks, PartitionTables

CONSTANTS
  RaidArrays,      \* arrays as the systems that owned them wrote them
  Captures,        \* [before, after, options]: a folder when it was captured, twice
  CarvedImages,    \* [image, threads]: images, and how many threads carve them
  DiskFiles,       \* [format, cells, size, stored, damaged]: disks put into containers
  SourceDisks,     \* [volumes, size, scheme, known, damage, wiped]: partitioned disks
  ScanResults      \* [fileSystem, journal, carved]: what each source of a scan found

ASSUME RaidAssumption == IsExclusiveOr /\ \A array \in RaidArrays : IsArray(array)
ASSUME CaptureAssumption ==
  \A c \in Captures : Folder(c.before) /\ Folder(c.after)
ASSUME CarvingAssumption ==
  WindowsOverlap /\ \A c \in CarvedImages : IsCarvable(c.image, c.threads)
ASSUME DiskFileAssumption == MinGrainEntries \in Nat \ {0} /\ \A disk \in DiskFiles : IsDiskFile(disk)
ASSUME SourceDiskAssumption ==
  /\ MibSectors \in Nat \ {0} /\ ScanLimit \in Nat
  /\ \A disk \in SourceDisks : IsPartitioned(disk)
ASSUME ScanResultAssumption ==
  \A r \in ScanResults : IsFileList(r.fileSystem, FALSE) /\ IsFileList(r.journal, TRUE) /\ IsFileList(r.carved, FALSE)

VARIABLES reader,    \* the reader of this behaviour, or "none"
          input      \* what it reads, once chosen

readerVars == <<reader, input>>

NoInput == <<>>

Chosen(name) == reader = name /\ input # NoInput

Chooses(name, choose) == reader = name /\ input = NoInput /\ choose /\ UNCHANGED reader

(*---------------------------------- RAID ---------------------------------*)
RaidInput(array, lost) ==
  [array |-> array, lost |-> lost, members |-> [i \in 1..array.n |-> Written(array, i - 1)]]

ChooseRaid ==
  \E array \in RaidArrays : \E lost \in SUBSET (1..array.n) :
    /\ lost # 1..array.n
    /\ input' \in {RaidInput(array, lost)}

\* A complete array builds back to what it held, and so does a degraded one: RAID 5
\* without one member, RAID 6 without two, a mirror without any but one member
\* (read_member_chunk, reconstruct_block).  A RAID 6 array that lost one member is told
\* apart below; a mirror of three or more that lost its first gives the exclusive-or of
\* the copies, as the branch for RAID 5 makes it.
RaidBuildsBack ==
  Chosen("raid") =>
    LET array == input.array
        sound == /\ ~(array.level = "Raid6" /\ Cardinality(input.lost) = 1)
                 /\ ~(array.level = "Raid1" /\ array.n > 2 /\ 1 \in input.lost)
        allowed == input.lost = {} \/ Degraded(array, input.lost)
    IN (sound /\ allowed) => BuildsBack(array, input.members, input.lost)

\* "This works for RAID 5 (P parity) and RAID 6 (when only 1 disk lost)"
\* (raid/mod.rs, reconstruct_block): a RAID 6 array that lost one member builds
\* back to what it held.
DegradedRaid6BuildsBack ==
  (Chosen("raid") /\ input.array.level = "Raid6" /\ Cardinality(input.lost) = 1) =>
      BuildsBack(input.array, input.members, input.lost)

(*---------------------------- Filesystem memory --------------------------*)
\* What the comparison of two complete captures calls lost is gone from its place,
\* and no file left has its size and its first and last 64 KiB; every such file is
\* called lost; what is called moved has them where it is said to be; and the hint of
\* a recovered file names the file it was (compute_diff, recovery_context_hints_for,
\* compute_partial_hash).  Larger files are told apart by no more than that.
DiffTellsTheTruth ==
  Chosen("diff") => DiffIsTrue(input.before, input.after, input.options)

(*--------------------------------- Carving -------------------------------*)
\* A carve that does not give up meets every header that no earlier candidate has
\* swallowed, also one across two windows or two segments; one that a second part must
\* follow (RIFF and AVI), unless the same header without it stands in a window before
\* it or another header between its parts (find_next_signature).  It calls a candidate intact
\* only when it validates, and finds none past the end of the image or inside
\* another one (carve_signatures, carve_candidate, carving_candidate_end_offset).
HeadersAreMet ==
  Chosen("carving") => CarvingMeetsEveryHeader(input.image, input.threads)

(*------------------------------ Virtual disks ----------------------------*)
ChooseDiskFile ==
  \E disk \in DiskFiles : input' \in {[file |-> FileOf(disk), cells |-> disk.cells]}

\* A dynamic VHD with blocks of 16 sectors, as large as any real one or larger.
WideBlocks(file) == file.ext = "vhd" /\ file.sparseHeader.blockSize >= 16

\* Read from any position at any length, a container gives what the disk written
\* into it held, unallocated blocks as zeros (VhdSource, VmdkSource); wide blocks of
\* a dynamic VHD are told apart below.
VirtualDisksReadBack ==
  (Chosen("vdisk") /\ ~WideBlocks(input.file)) => ReadsBack(input.file, input.cells)

\* "Each block has a bitmap sector followed by data" (virtual_disk/vhd.rs, read):
\* a dynamic VHD reads back, also one with wide blocks.
BitmapIsOneSector ==
  (Chosen("vdisk") /\ WideBlocks(input.file)) =>
    ReadSource(RecoverySource(input.file), 0, Len(input.cells)) = input.cells

(*----------------------------- Partition tables --------------------------*)
\* Every volume a table left intact names is listed at its start with its size and
\* its file system, and without one every volume whose header stands at a place
\* looked at; nothing else is listed (inspect_potential_volumes, merge_volume).
VolumesAreFound ==
  Chosen("partitions") =>
    FindsEveryVolume(input.volumes, input.size, input.scheme, input.known, input.damage, input.wiped)

(*------------------------------- Correlation -----------------------------*)
\* What the sources of a deleted-file scan found is never lost in putting it together:
\* a file is dropped only for one that stands for it, without a journal for one at
\* least as good, and no content is listed twice (correlate_recovery_sources).
BestCopiesSurvive ==
  Chosen("merge") => KeepsBestCopies(input.fileSystem, input.journal, input.carved)

(*---------------------------------- Choice -------------------------------*)
ReaderInit == reader \in {"raid", "diff", "carving", "vdisk", "partitions", "merge"} /\ input = NoInput

ReaderNext ==
  \/ Chooses("raid", ChooseRaid)
  \/ Chooses("diff", input' \in Captures)
  \/ Chooses("carving", input' \in CarvedImages)
  \/ Chooses("vdisk", ChooseDiskFile)
  \/ Chooses("partitions", input' \in SourceDisks)
  \/ Chooses("merge", input' \in ScanResults)

ReaderSpec == ReaderInit /\ [][ReaderNext]_readerVars
=============================================================================
