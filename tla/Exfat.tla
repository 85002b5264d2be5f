-------------------------------- MODULE Exfat --------------------------------
(***************************************************************************)
(* The exFAT analyser: the entry sets of the directories, files with and   *)
(* without a chain in the table, and what is recovered of a deleted file,  *)
(* whose clusters the allocation bitmap calls free.                        *)
(*                                                                         *)
(* A cell is [data] of a file, [used] of the bitmap or one entry of a      *)
(* directory: [entry, ...].                                                *)
(***************************************************************************)
EXTENDS ClusterChains

CONSTANT CellBits       \* clusters one cell of the bitmap covers

\* build_contiguous_cluster_range.
ContiguousRange(volume, start, count) ==
  IF \A i \in 0..(count - 1) : ValidCluster(volume, start + i)
  THEN Done([i \in 1..count |-> start + i - 1]) ELSE Failed

\* read_clusters, cut to a length.
ReadClusters(volume, clusters, length) ==
  SubSeq(RunCells(volume.image, ClusterRuns(clusters)), 1, Min({length, Len(clusters) * ClusterSize}))

(*---------------------------------- Bitmap -------------------------------*)
\* load_allocation_bitmap: of the first entry for it before the end.
BitmapEntries(root) ==
  {i \in DOMAIN root : root[i].entry = "bitmap" /\ \A j \in 1..(i - 1) : root[j].entry # "end"}

BitmapCells(volume, entry, chain) ==
  IF chain.ok THEN Done(ReadClusters(volume, chain.value, entry.size)) ELSE Failed

BitmapIn(volume, root) ==
  LET entry == root[Min(BitmapEntries(root))]
  IN IF BitmapEntries(root) = {} THEN Failed
     ELSE BitmapCells(volume, entry, FollowChain(volume, entry.start, Max({1, ClustersFor(entry.size)})))

\* cluster_is_free; a cluster the bitmap does not cover is an error.
Covered(volume, bitmap, cluster) ==
  ValidCluster(volume, cluster) /\ (cluster - FirstCluster) \div CellBits + 1 \in DOMAIN bitmap

ClusterIsFree(bitmap, cluster) == cluster \notin bitmap[(cluster - FirstCluster) \div CellBits + 1].used

(*-------------------------------- Candidates -----------------------------*)
Recovered(record, path, clusters, size, integrity, score) ==
  Done(<<[name |-> record.name, path |-> path, runs |-> ClusterRuns(clusters), size |-> size,
          expected |-> record.size, integrity |-> integrity, score |-> score]>>)

\* The end of build_deleted_candidate: whole, in more than one run.
Whole(record, path, clusters, integrity, score) ==
  IF integrity = "intact" /\ Len(ClusterRuns(clusters)) > 1
  THEN Recovered(record, path, clusters, record.size, "fragmented", Min({score, 78}))
  ELSE Recovered(record, path, clusters, record.size, integrity, score)

\* build_conservative_free_clusters, and what is made of it: "scores" for a part, one
\* cluster and more.
FreeRange(volume, bitmap, record, path, need, integrity, scores) ==
  LET places == 0..(need - 1)
      beyond == {i \in places : ~Covered(volume, bitmap, record.start + i)}
      taken == {i \in places \ beyond : ~ClusterIsFree(bitmap, record.start + i)}
      stop == Min(beyond \cup taken \cup {need})
      clusters == [i \in 1..stop |-> record.start + i - 1]
  IN IF stop \in beyond \/ stop = 0 THEN Failed
     ELSE IF stop < need
     THEN Recovered(record, path, clusters, Min({stop * ClusterSize, record.size}), "partial", scores[1])
     ELSE IF need = 1 THEN Whole(record, path, clusters, "intact", scores[2])
     ELSE Whole(record, path, clusters, integrity, scores[3])

\* follow_deleted_file_chain.
StillFree(volume, bitmap, chain, need) ==
  /\ chain.ok
  /\ Len(chain.value) = need
  /\ \A c \in Range(chain.value) : Covered(volume, bitmap, c) /\ ClusterIsFree(bitmap, c)

FromDeletedChain(volume, bitmap, record, path, need, chain) ==
  IF StillFree(volume, bitmap, chain, need) THEN Whole(record, path, chain.value, "intact", 84)
  ELSE FreeRange(volume, bitmap, record, path, need, "fragmented", <<32, 74, 56>>)

\* build_deleted_candidate.
DeletedCandidate(volume, bitmap, record, path) ==
  LET need == ClustersFor(record.size)
  IN IF need = 0 THEN Recovered(record, path, <<>>, 0, "intact", 100)
     ELSE IF ~record.allocation \/ record.start < FirstCluster THEN Failed
     ELSE IF record.noChain
     THEN FreeRange(volume, bitmap, record, path, need, "intact", <<38, 90, 90>>)
     ELSE FromDeletedChain(volume, bitmap, record, path, need, FollowChain(volume, record.start, need))

\* build_visible_candidate.
FromVisibleChain(record, path, need, chain) ==
  IF ~chain.ok THEN Failed
  ELSE IF Len(chain.value) # need THEN Failed
  ELSE IF Len(ClusterRuns(chain.value)) > 1
  THEN Recovered(record, path, chain.value, record.size, "fragmented", 90)
  ELSE Recovered(record, path, chain.value, record.size, "intact", 98)

VisibleCandidate(volume, record, path) ==
  LET need == ClustersFor(record.size)
  IN IF need = 0 THEN Recovered(record, path, <<>>, record.size, "intact", 98)
     ELSE IF ~record.allocation \/ record.start < FirstCluster THEN Failed
     ELSE FromVisibleChain(record, path, need,
            IF record.noChain THEN ContiguousRange(volume, record.start, need)
            ELSE FollowChain(volume, record.start, need))

(*-------------------------------- Directories ----------------------------*)
\* parse_file_entry_set: the first stream entry and the parts of the name, cut to the
\* length the stream tells; a set without a stream or a name is nothing.
RecordOf(primary, streams, name) ==
  LET stream == Head(streams)
      shown == SubSeq(name, 1, Min({stream.nameLength, Len(name)}))
  IN IF streams = <<>> THEN <<>>
     ELSE IF shown = <<>> THEN <<>>
     ELSE <<[name |-> shown, deleted |-> primary.deleted, directory |-> primary.directory,
             allocation |-> stream.allocation, noChain |-> stream.noChain,
             start |-> stream.start, size |-> stream.size]>>

ParsedSet(primary, secondaries) ==
  RecordOf(primary, SelectSeq(secondaries, LAMBDA s : s.entry = "stream"),
           SelectSeq([i \in DOMAIN secondaries |->
                        IF secondaries[i].entry = "name" THEN secondaries[i].part ELSE "none"],
                     LAMBDA part : part # "none"))

\* The loop of scan_directory over the entries: up to the end, or to a set that
\* reaches past the directory.
RecordsOf(cells) ==
  LET from[i \in 1..(Len(cells) + 1)] ==
        IF i > Len(cells) THEN <<>>
        ELSE IF cells[i].entry = "end" THEN <<>>
        ELSE IF cells[i].entry # "file" THEN from[i + 1]
        ELSE IF i + cells[i].secondaries > Len(cells) THEN <<>>
        ELSE ParsedSet(cells[i], SubSeq(cells, i + 1, i + cells[i].secondaries))
             \o from[i + cells[i].secondaries + 1]
  IN from[1]

\* read_directory_bytes: the root by its chain, a folder by its length.
DirectoryChain(volume, folder) ==
  IF folder.size = NoLimit \/ ~folder.noChain
  THEN FollowChain(volume, folder.start, ClustersFor(folder.size))
  ELSE ContiguousRange(volume, folder.start, ClustersFor(folder.size))

DirectoryCells(volume, folder, clusters) ==
  ReadClusters(volume, clusters, IF folder.size = NoLimit THEN Len(clusters) * ClusterSize ELSE folder.size)

Root(volume) == [start |-> volume.root, size |-> NoLimit, noChain |-> FALSE]

ScanState(ok, visited, files) == [ok |-> ok, visited |-> visited, files |-> files]

Listed(state, built) ==
  IF built.ok THEN [state EXCEPT !.files = @ \o built.value] ELSE [state EXCEPT !.ok = FALSE]

Entered(record) ==
  /\ ~record.deleted /\ record.directory /\ record.allocation
  /\ record.start >= FirstCluster /\ record.size > 0

\* scan_directory and scan_visible_directory: a directory is read once, whatever
\* fails ends the scan.  "lost" tells which of the two it is.
RECURSIVE ScanDirectory(_, _, _, _, _, _)
ScanDirectory(volume, bitmap, lost, state, folder, path) ==
  LET Visit(s, record) ==
        IF ~s.ok THEN s
        ELSE IF record.deleted = lost /\ ~record.directory
        THEN Listed(s, IF lost THEN DeletedCandidate(volume, bitmap, record, path)
                       ELSE VisibleCandidate(volume, record, path))
        ELSE IF Entered(record)
        THEN ScanDirectory(volume, bitmap, lost, s, record, Append(path, record.name))
        ELSE s
      Scan(chain) ==
        IF chain.ok
        THEN FoldLeft(Visit, [state EXCEPT !.visited = @ \cup {folder.start}],
                      RecordsOf(DirectoryCells(volume, folder, chain.value)))
        ELSE [state EXCEPT !.ok = FALSE]
  IN IF folder.start \in state.visited THEN state ELSE Scan(DirectoryChain(volume, folder))

\* read_from: the signatures, and a layout that can be walked.
UsableLayout(volume) == volume.valid /\ volume.root >= FirstCluster /\ DOMAIN volume.fat # {}

\* recover_deleted_files, list_visible_files: the bitmap is read before the walk.
ScanWith(volume, lost, bitmap) ==
  IF bitmap.ok THEN ScanDirectory(volume, bitmap.value, lost, ScanState(TRUE, {}, <<>>), Root(volume), <<>>)
  ELSE ScanState(FALSE, {}, <<>>)

FromRoot(volume, lost, chain) ==
  IF UsableLayout(volume) /\ chain.ok
  THEN ScanWith(volume, lost, BitmapIn(volume, DirectoryCells(volume, Root(volume), chain.value)))
  ELSE ScanState(FALSE, {}, <<>>)

FilesOf(volume, lost) == FromRoot(volume, lost, DirectoryChain(volume, Root(volume)))

(*------------------------------ Its promise ------------------------------*)
\* A volume as an exFAT system writes it: a file is [name, live, folder, chained,
\* size, clusters], one without a chain lies together.  Deleting a file marks its
\* entries and frees its clusters in the bitmap; its chain stays.  "taken" are
\* freed clusters that a file of another name got, with a chain.
EntrySet(name, live, directory, chained, size, clusters) ==
  << [entry |-> "file", deleted |-> ~live, directory |-> directory, secondaries |-> 3],
     [entry |-> "stream", allocation |-> size > 0, noChain |-> ~chained, nameLength |-> 2, size |-> size,
      start |-> IF clusters = <<>> THEN 0 ELSE clusters[1]],
     [entry |-> "name", part |-> name], [entry |-> "name", part |-> "tail"] >>

FileEntries(file) == EntrySet(file.name, file.live, FALSE, file.chained, file.size, file.clusters)

FolderSize == 16

\* Clusters from 2 on hold the root, from 14 on the folder, which lies together and
\* has an entry that leads back to it; cluster 22 holds the bitmap.
Formatted(files, taken, last) ==
  LET InFolder(folder) == FlattenSeq([i \in DOMAIN files |->
                            IF files[i].folder = folder THEN FileEntries(files[i]) ELSE <<>>])
      rootChain == [i \in 1..12 |-> i + 1]
      root == <<[entry |-> "label"], [entry |-> "bitmap", start |-> 22, size |-> 2]>>
              \o EntrySet("sub", TRUE, TRUE, FALSE, FolderSize, <<14>>) \o InFolder(FALSE)
              \o (IF taken = <<>> THEN <<>>
                  ELSE EntrySet("new", TRUE, FALSE, TRUE, ClusterSize * Len(taken), taken))
      folder == EntrySet("loop", TRUE, TRUE, FALSE, FolderSize, <<14>>) \o InFolder(TRUE)
      linked == {files[i].clusters : i \in {i \in DOMAIN files : files[i].chained}}
      chains == {rootChain, <<22>>} \cup linked
      live == UNION {Range(files[i].clusters) : i \in {i \in DOMAIN files : files[i].live}}
      used == (2..22) \cup Range(taken) \cup live
      Link(c) == IF c \in Range(taken) THEN Chain(taken)[c]
                 ELSE IF \E s \in chains : c \in Range(s)
                 THEN Chain(CHOOSE s \in chains : c \in Range(s))[c] ELSE Free
  IN [valid |-> TRUE, root |-> 2, used |-> used,
      fat |-> [c \in FirstCluster..last |-> Link(c)],
      image |-> Padded(root, 12 * ClusterSize) \o Padded(folder, 8 * ClusterSize)
                \o <<[used |-> used \cap (2..CellBits + 1)], [used |-> used \ (2..CellBits + 1)]>>
                \o FlattenSeq([k \in 1..(last - 22) |-> OwnedCells(files, taken, k + 22)])]

\* Every file of every directory is listed once with its name, its folder and its
\* content, however the directories refer to each other; of a deleted one that lay
\* together all that no other file took is recovered, of one that did not all or,
\* when another file took a cluster, nothing of that file.  This is said of volumes
\* on which the first cluster of every deleted file is still free.
FoundRight(volume, file, number, taken, found) ==
  LET untouched == Range(file.clusters) \cap Range(taken) = {}
  IN /\ found.path = IF file.folder THEN <<<<"sub", "tail">>>> ELSE <<>>
     /\ found.expected = file.size
     /\ untouched \/ Contiguous(file.clusters) =>
          HoldsBeginning(volume, number, found, SizeBefore(file, taken), file.size)
     /\ ~file.live => KeepsOff(found, volume.used)

FoundAll(volume, files, taken, gone, there) ==
  LET WithName(list, file) == SelectSeq(list, LAMBDA f : f.name = <<file.name, "tail">>)
      Right(list, i) == /\ Len(WithName(list, files[i])) = 1
                        /\ FoundRight(volume, files[i], i, taken, WithName(list, files[i])[1])
  IN /\ gone.ok /\ there.ok
     /\ Len(gone.files) = Cardinality({i \in DOMAIN files : ~files[i].live})
     /\ \A i \in DOMAIN files : Right(IF files[i].live THEN there.files ELSE gone.files, i)

ExfatVolumeIsRecovered(files, taken, last) ==
  \A volume \in {Formatted(files, taken, last)} :
    (\A i \in DOMAIN files : files[i].clusters # <<>> => files[i].clusters[1] \notin Range(taken))
      => FoundAll(volume, files, taken, FilesOf(volume, TRUE), FilesOf(volume, FALSE))
=============================================================================
