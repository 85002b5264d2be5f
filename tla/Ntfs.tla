-------------------------------- MODULE Ntfs --------------------------------
(***************************************************************************)
(* The NTFS analyser: the records of the master file table, the runs of    *)
(* their data, what is recovered of a deleted file before its clusters     *)
(* were given to another, and the names the change journal remembers.      *)
(*                                                                         *)
(* A volume is [valid, mftLcn, image].  The image is a sequence of cells,  *)
(* ClusterSize to a cluster.  A cell is a record: [data] of a file, [used] *)
(* of $Bitmap, [file, name, reason] of the change journal, [lznt1] of a    *)
(* compressed stream.  A file record is two cells: [tag, usn, inUse,       *)
(* directory, attributes], then [usn, data], which holds resident data and *)
(* ends, as the sector before it, with the number of the update sequence.  *)
(***************************************************************************)
EXTENDS ByteRuns

CONSTANTS ClusterSize,      \* cells of a cluster and of a file record
          CellBits,         \* clusters one cell of $Bitmap covers
          BitmapRecord, RootRecord,
          PathGuard,        \* how many directories a path is followed up
          JournalRunLimit   \* cells of one run of the journal that are read

\* An Option, as the analysers' functions return it.
Nothing == [some |-> FALSE]
Some(value) == [some |-> TRUE, value |-> value]

Failed == [ok |-> FALSE]
Done(value) == [ok |-> TRUE, value |-> value]

TotalClusters(volume) == Len(volume.image) \div ClusterSize

\* The cells from an offset on, or a failure when the image ends before.
ReadImage(volume, offset, length) ==
  IF offset + length <= Len(volume.image)
  THEN Done(SubSeq(volume.image, offset + 1, offset + length)) ELSE Failed

(*------------------------------- Run lists -------------------------------*)
\* parse_runlist, of pairs [length, step, hole]; a length of 0 fails it, and so does
\* a step below cluster 0.  A hole has no clusters.
HoleCluster == -1

Lcn(pairs, i) ==
  SumFunctionOnSet([k \in 1..i |-> IF pairs[k].hole THEN 0 ELSE pairs[k].step], 1..i)

RunlistFails(pairs) == \E i \in DOMAIN pairs : pairs[i].length = 0 \/ Lcn(pairs, i) < 0

ParsedRuns(pairs) ==
  [i \in DOMAIN pairs |-> [start |-> Lcn(pairs, i), length |-> pairs[i].length, sparse |-> pairs[i].hole]]

\* The clusters of runs in their order, HoleCluster where there is none.
RunClusters(runs) ==
  FlattenSeq([i \in DOMAIN runs |-> [k \in 1..runs[i].length |->
                IF runs[i].sparse THEN HoleCluster ELSE runs[i].start + k - 1]])

ClustersFor(cells) == (cells + ClusterSize - 1) \div ClusterSize

\* physical_offset_for_non_resident_offset, of the first cell of a cluster.
PhysicalOffset(volume, clusters, index) ==
  IF index \in DOMAIN clusters /\ clusters[index] \in 0..(TotalClusters(volume) - 1)
  THEN Done(clusters[index] * ClusterSize) ELSE Failed

\* read_non_resident_bytes: "size" cells from the start of the index-th cluster on.
\* The code checks the first cluster of each run; a later one outside the volume is
\* past the end of the image, which is whole clusters, and fails the read itself.
ReadClusters(volume, clusters, index, size) ==
  LET last == index + ClustersFor(size) - 1
      used == SubSeq(clusters, index, last)
      outside == \E i \in DOMAIN used : used[i] >= TotalClusters(volume)
      pieces == [i \in DOMAIN used |-> IF used[i] = HoleCluster THEN ZeroFill(ClusterSize)
                                       ELSE Physical(used[i] * ClusterSize, ClusterSize)]
  IN IF last > Len(clusters) \/ outside THEN Failed
     ELSE Done(SubSeq(RunCells(volume.image, pieces), 1, size))

(*--------------------------------- Records -------------------------------*)
\* apply_update_sequence_fixups: both sectors end with the record's number.
FixedUp(cells) ==
  /\ "usn" \in DOMAIN cells[1] /\ "usn" \in DOMAIN cells[2]
  /\ cells[2].usn = cells[1].usn

\* namespace_rank.
NamespaceRank(space) ==
  CASE space = "win32-dos" -> 4 [] space = "win32" -> 3 [] space = "posix" -> 2 [] space = "dos" -> 1
    [] OTHER -> 0

\* Of the names with the highest rank, the first.
BestName(names) ==
  LET Best(i) == /\ \A j \in DOMAIN names : NamespaceRank(names[j].space) <= NamespaceRank(names[i].space)
                 /\ \A j \in 1..(i - 1) : NamespaceRank(names[j].space) < NamespaceRank(names[i].space)
  IN IF names = <<>> THEN Nothing ELSE Some(names[CHOOSE i \in DOMAIN names : Best(i)])

\* parse_data_attribute.  A resident value is its second cell as it lies in the
\* image; a later piece of a run list, an empty one or one that does not parse is
\* nothing, and so is every flag but "compressed".
ParsedData(attribute, offset) ==
  IF attribute.resident
  THEN IF attribute.flag # "none" \/ attribute.size = 0 THEN Nothing
       ELSE Some([resident |-> TRUE, size |-> attribute.size, offset |-> offset + 1])
  ELSE IF \/ attribute.lowest # 0 \/ attribute.flag \notin {"none", "compressed"}
          \/ attribute.pairs = <<>> \/ attribute.size = 0 \/ RunlistFails(attribute.pairs)
       THEN Nothing
       ELSE Some([resident |-> FALSE, size |-> attribute.size, allocated |-> attribute.allocated,
                  compressed |-> attribute.flag = "compressed",
                  runs |-> ParsedRuns(attribute.pairs),
                  clusters |-> RunClusters(ParsedRuns(attribute.pairs))])

\* parse_mft_record: the first unnamed data that parses, every named one that does.
FirstSome(options) ==
  LET found == SelectSeq(options, LAMBDA o : o.some) IN IF found = <<>> THEN Nothing ELSE Head(found)

ParseRecord(header, offset, number) ==
  LET OfType(type) == SelectSeq(header.attributes, LAMBDA a : a.type = type)
      Unnamed(a) == a.stream = "none"
      Parsed(attributes) == [i \in DOMAIN attributes |-> ParsedData(attributes[i], offset)]
      streams == SelectSeq(OfType("data"), LAMBDA a : ~Unnamed(a) /\ ParsedData(a, offset).some)
  IN [number |-> number, inUse |-> header.inUse, directory |-> header.directory,
      name |-> BestName(OfType("name")),
      data |-> FirstSome(Parsed(SelectSeq(OfType("data"), Unnamed))),
      streams |-> [i \in DOMAIN streams |-> [name |-> streams[i].stream,
                                             data |-> ParsedData(streams[i], offset).value]]]

\* read_mft_record_by_index, and the record when it is one.
ReadRecord(volume, mft, number) ==
  LET cells == ReadClusters(volume, mft.clusters, number + 1, ClusterSize)
      place == PhysicalOffset(volume, mft.clusters, number + 1)
  IN IF (number + 1) * ClusterSize > mft.size \/ ~cells.ok \/ ~place.ok THEN Nothing
     ELSE IF FixedUp(cells.value) /\ cells.value[1].tag = "FILE"
     THEN Some(ParseRecord(cells.value[1], place.value, number)) ELSE Nothing

\* The record of $MFT itself is where the boot sector says.
MftRecord(volume) ==
  LET cells == ReadImage(volume, volume.mftLcn * ClusterSize, ClusterSize)
  IN IF volume.valid /\ volume.mftLcn < TotalClusters(volume) /\ cells.ok
     THEN IF FixedUp(cells.value) /\ cells.value[1].tag = "FILE"
          THEN Some(ParseRecord(cells.value[1], volume.mftLcn * ClusterSize, 0)) ELSE Nothing
     ELSE Nothing

\* load_allocation_bitmap, from the data of $Bitmap: a cell is the set of clusters
\* in use among those it covers.
LoadedBitmap(volume, record) ==
  IF ~record.some \/ ~record.value.data.some THEN Failed
  ELSE LET data == record.value.data.value
       IN IF data.resident THEN ReadImage(volume, data.offset, data.size)
          ELSE IF data.compressed THEN Failed
          ELSE ReadClusters(volume, data.clusters, 1, data.size)

\* cluster_is_free; a cluster outside the volume or the bitmap is an error.
Covered(volume, bitmap, cluster) ==
  cluster < TotalClusters(volume) /\ cluster \div CellBits + 1 \in DOMAIN bitmap
ClusterIsFree(bitmap, cluster) == cluster \notin bitmap[cluster \div CellBits + 1].used

\* load_records_and_index: a record that cannot be read or parsed is left out.
RecordsOf(volume, mft) ==
  LET count == (mft.size + ClusterSize - 1) \div ClusterSize
      all == [i \in 1..count |-> ReadRecord(volume, mft, i - 1)]
      read == SelectSeq(all, LAMBDA r : r.some)
  IN [i \in DOMAIN read |-> read[i].value]

IndexOf(volume, mft, bitmap) ==
  IF ~bitmap.ok THEN Failed
  ELSE Done([bitmap |-> bitmap.value, records |-> RecordsOf(volume, mft)])

LoadFrom(volume, mft) ==
  IF ~mft.some \/ ~mft.value.data.some THEN Failed
  ELSE IF mft.value.data.value.resident THEN Failed
  ELSE LET data == mft.value.data.value
       IN IndexOf(volume, data, LoadedBitmap(volume, ReadRecord(volume, data, BitmapRecord)))

LoadRecordsAndIndex(volume) == LoadFrom(volume, MftRecord(volume))

(*--------------------------------- Recovery ------------------------------*)
Recovered(runs, size, expected, integrity, score) ==
  [runs |-> runs, size |-> size, expected |-> expected, integrity |-> integrity, score |-> score]

NotRecovered(expected) == Recovered(<<>>, 0, expected, "partial", 0)

\* The runs of the first clusters of a file of "size" cells.
RunsOf(clusters, count, size) ==
  MergedRuns([i \in 1..count |->
    LET length == Min({ClusterSize, size - (i - 1) * ClusterSize})
    IN IF clusters[i] = HoleCluster THEN ZeroFill(length)
       ELSE Physical(clusters[i] * ClusterSize, length)])

\* The bug of recovering a cluster another file has taken.
TakenIgnored(index, cluster) == FALSE

\* Whether a cluster of a deleted file is another's now.
Taken(index, cluster) == ~ClusterIsFree(index.bitmap, cluster)

\* build_non_resident_candidate: up to the first cluster that is in use, and an
\* error when one before it is outside the bitmap.
DeletedRuns(volume, index, data) ==
  LET need == Min({ClustersFor(data.size), Len(data.clusters)})
      real == {i \in 1..need : data.clusters[i] # HoleCluster}
      beyond == {i \in real : ~Covered(volume, index.bitmap, data.clusters[i])}
      taken == {i \in real \ beyond : Taken(index, data.clusters[i])}
      stop == Min(beyond \cup taken \cup {need + 1})
      size == Min({data.size, (stop - 1) * ClusterSize})
      runs == RunsOf(data.clusters, stop - 1, data.size)
      whole == size = data.size
  IN IF stop \in beyond THEN Failed
     ELSE IF size = 0 THEN Done(NotRecovered(data.size))
     ELSE Done(IF whole /\ PhysicalRunCount(runs) > 1 THEN Recovered(runs, size, data.size, "fragmented", 80)
               ELSE IF whole THEN Recovered(runs, size, data.size, "intact", 86)
               ELSE Recovered(runs, size, data.size, "partial", 61))

\* build_visible_non_resident_candidate: what the run list covers is never partial.
VisibleRuns(volume, data) ==
  LET need == Min({ClustersFor(data.size), Len(data.clusters)})
      size == Min({data.size, need * ClusterSize})
      runs == RunsOf(data.clusters, need, data.size)
  IN IF \E i \in 1..need : data.clusters[i] >= TotalClusters(volume) THEN Failed
     ELSE IF PhysicalRunCount(runs) > 1 THEN Done(Recovered(runs, size, data.size, "fragmented", 91))
     ELSE Done(Recovered(runs, size, data.size, "intact", 95))

\* decompress_lznt1 of the stored cells: the first one stands for the stream.
Inflated(cells) == IF "lznt1" \in DOMAIN cells[1] THEN cells[1].lznt1 ELSE <<>>

\* build_compressed_non_resident_candidate: all of it or nothing.  A hole, a cluster
\* that is not free or a stream that does not inflate to the size is nothing; a
\* cluster that is not inside the map or the volume is an error.
CompressedRuns(volume, data, inside, free, scores) ==
  LET need == ClustersFor(data.allocated)
      used == SubSeq(data.clusters, 1, Min({need, Len(data.clusters)}))
      runs == RunsOf(used, Len(used), data.allocated)
      beyond == {i \in DOMAIN used : used[i] \notin inside}
      taken == {i \in DOMAIN used \ beyond : used[i] \notin free}
      whole == data.allocated > 0 /\ \A i \in DOMAIN data.clusters : data.clusters[i] # HoleCluster
      fragmented == PhysicalRunCount(runs) > 1
  IN IF whole /\ beyond # {} /\ \A i \in taken : Min(beyond) < i THEN Failed
     ELSE IF ~whole \/ taken # {} \/ Len(used) < need THEN Done(NotRecovered(data.size))
     ELSE IF Len(Inflated(RunCells(volume.image, runs))) # data.size THEN Done(NotRecovered(data.size))
     ELSE Done(Recovered(runs, data.size, data.size, IF fragmented THEN "fragmented" ELSE "intact",
                         IF fragmented THEN scores[1] ELSE scores[2]))

Resident(data, score) ==
  Done(Recovered(<<Physical(data.offset, data.size)>>, data.size, data.size, "intact", score))

\* The data of a deleted file, and of one that is still there.
DeletedData(volume, index, data) ==
  IF data.resident THEN Resident(data, 94)
  ELSE IF data.compressed
  THEN CompressedRuns(volume, data, {c \in Range(data.clusters) : Covered(volume, index.bitmap, c)},
                      {c \in Range(data.clusters) : ~Taken(index, c)}, <<76, 81>>)
  ELSE DeletedRuns(volume, index, data)

VisibleData(volume, data) ==
  IF data.resident THEN Resident(data, 97)
  ELSE IF data.compressed
  THEN CompressedRuns(volume, data, {c \in Range(data.clusters) : c < TotalClusters(volume)},
                      Range(data.clusters), <<88, 92>>)
  ELSE VisibleRuns(volume, data)

DataOfRecord(volume, index, record, data) ==
  IF record.inUse THEN VisibleData(volume, data) ELSE DeletedData(volume, index, data)

\* build_parent_path: up to the root, a record that is no directory, or the guard.
ParentPath(records, parent) ==
  LET Node(number) == SelectSeq(records, LAMBDA r : r.number = number /\ r.directory /\ r.name.some)
      path[depth \in 0..PathGuard] ==     \* <<the record reached, the names below it>>
        IF depth = 0 THEN <<parent, <<>>>>
        ELSE LET below == path[depth - 1]
                 node == Node(below[1])
             IN IF below[1] = RootRecord \/ node = <<>> THEN below
                ELSE <<node[1].name.value.parent, <<node[1].name.value.name>> \o below[2]>>
  IN path[PathGuard][2]

(*--------------------------------- Candidates ----------------------------*)
Candidate(record, recovered, records, streams) ==
  [record |-> record.number, name |-> record.name.value.name,
   path |-> ParentPath(records, record.name.value.parent),
   recovered |-> recovered, streams |-> streams]

\* build_deleted_named_streams, build_visible_named_streams: the streams of which
\* something is recovered, or a failure.
StreamsOf(volume, index, record) ==
  LET all == [i \in DOMAIN record.streams |->
                [name |-> record.streams[i].name,
                 data |-> DataOfRecord(volume, index, record, record.streams[i].data)]]
      kept == SelectSeq(all, LAMBDA s : s.data.ok /\ s.data.value.size > 0)
  IN IF \E i \in DOMAIN all : ~all[i].data.ok THEN Failed
     ELSE Done([i \in DOMAIN kept |-> [name |-> kept[i].name, recovered |-> kept[i].data.value]])

\* build_deleted_candidate and build_visible_candidate, once the data is there.
CandidateWith(record, data, streams, records) ==
  IF ~data.ok THEN Failed
  ELSE IF data.value.size = 0 THEN Done(<<>>)
  ELSE IF ~streams.ok THEN Failed
  ELSE Done(<<Candidate(record, data.value, records, streams.value)>>)

Build(volume, index, record) ==
  IF ~record.name.some \/ ~record.data.some THEN Done(<<>>)
  ELSE CandidateWith(record, DataOfRecord(volume, index, record, record.data.value),
                     StreamsOf(volume, index, record), index.records)

\* One failure ends the whole list.
AllBuilt(built) ==
  IF \E i \in DOMAIN built : ~built[i].ok THEN Failed
  ELSE Done(FlattenSeq([i \in DOMAIN built |-> built[i].value]))

\* recover_deleted_files.
DeletedIn(volume, index) ==
  LET gone == SelectSeq(index.records, LAMBDA r : ~r.inUse /\ ~r.directory)
  IN AllBuilt([i \in DOMAIN gone |-> Build(volume, index, gone[i])])

RecoverDeletedFiles(volume, loaded) == IF loaded.ok THEN DeletedIn(volume, loaded.value) ELSE Failed

\* list_visible_files: the files of the system have names that start with "$".
VisibleIn(volume, index) ==
  LET there == SelectSeq(index.records, LAMBDA r : r.inUse /\ ~r.directory /\ r.name.some)
      listed == SelectSeq(there, LAMBDA r : ~r.name.value.system)
  IN AllBuilt([i \in DOMAIN listed |-> Build(volume, index, listed[i])])

ListVisibleFiles(volume, loaded) == IF loaded.ok THEN VisibleIn(volume, loaded.value) ELSE Failed

(*------------------------------ Change journal ---------------------------*)
\* parse_usn_records_from_buffer: the deletions among the records of a run; a run
\* that cannot be read is left out.
JournalRuns(data) ==
  IF data.resident THEN <<Physical(data.offset, data.size)>>
  ELSE LET real == SelectSeq(data.runs, LAMBDA run : ~run.sparse)
       IN [i \in DOMAIN real |-> Physical(real[i].start * ClusterSize,
                                         Min({real[i].length * ClusterSize, JournalRunLimit}))]

Deletions(volume, data) ==
  LET readable == SelectSeq(JournalRuns(data),
                            LAMBDA run : run.offset + run.length <= Len(volume.image))
      cells == RunCells(volume.image, readable)
      records == SelectSeq(cells, LAMBDA cell : "reason" \in DOMAIN cell)
  IN SelectSeq(records, LAMBDA record : record.reason = "delete")

\* build_usn_candidates: the file number is taken as a place in the list of the
\* records that could be read; each place is looked at once.
Remembered(deletion, built) ==
  IF built.ok THEN {[file |-> deletion.file, name |-> deletion.name, candidate |-> built.value[i]]
                      : i \in DOMAIN built.value}
  ELSE {}

JournalCandidates(volume, index, deletions) ==
  LET Place(i) == deletions[i].file + 1
      Usable(i) == /\ \A j \in 1..(i - 1) : Place(j) # Place(i)
                   /\ Place(i) \in DOMAIN index.records
                   /\ ~index.records[Place(i)].inUse /\ ~index.records[Place(i)].directory
  IN UNION {Remembered(deletions[i], Build(volume, index, index.records[Place(i)]))
              : i \in {i \in DOMAIN deletions : Usable(i)}}

\* recover_usn_journal_files: of the first record with the journal's name.
JournalData(records) ==
  LET journals == SelectSeq(records, LAMBDA r : r.name.some /\ r.name.value.name = "$UsnJrnl")
      streams == IF journals = <<>> THEN <<>> ELSE SelectSeq(journals[1].streams, LAMBDA s : s.name = "$J")
  IN IF streams = <<>> THEN Nothing ELSE Some(streams[1].data)

JournalFrom(volume, index, data) ==
  IF data.some THEN JournalCandidates(volume, index, Deletions(volume, data.value)) ELSE {}

RecoverUsnJournalFiles(volume, loaded) ==
  IF loaded.ok THEN JournalFrom(volume, loaded.value, JournalData(loaded.value.records)) ELSE {}

(*------------------------------ Its promise ------------------------------*)
\* A volume as NTFS writes it.  A file is [name, live, kind, size, clusters,
\* stream]: a hole among its clusters is HoleCluster, "stream" is whether it has a
\* named stream.  Records 0 to 4 are $MFT, $Bitmap, the root, a directory of the
\* root that holds the files, and $UsnJrnl.
PairsOf(clusters) ==
  LET Previous(i) == Max({0} \cup {clusters[j] : j \in {Max({0} \cup {j \in 1..(i - 1) : clusters[j] # HoleCluster})} \ {0}})
  IN [i \in DOMAIN clusters |->
        [length |-> 1, hole |-> clusters[i] = HoleCluster, step |-> clusters[i] - Previous(i)]]

NameOf(parent, name, space) ==
  [type |-> "name", parent |-> parent, name |-> name, space |-> space,
   system |-> name \in {"$MFT", "$Bitmap", "$UsnJrnl"}]

DataOf(stream, size, allocated, clusters, flag) ==
  [type |-> "data", stream |-> stream, resident |-> FALSE, flag |-> flag, lowest |-> 0,
   size |-> size, allocated |-> allocated, pairs |-> PairsOf(clusters)]

ResidentDataOf(stream) ==
  [type |-> "data", stream |-> stream, resident |-> TRUE, flag |-> "none", size |-> 1]

FileCell(number, k) == [data |-> 100 * number + k]

\* What the file at a number holds.
Content(number, file) ==
  [k \in 1..file.size |->
     IF file.kind = "plain" /\ file.clusters[ClustersFor(k)] = HoleCluster THEN ZeroCell
     ELSE FileCell(number, k)]

FileAttributes(file) ==
  <<NameOf(3, "SHORT~1", "dos"), NameOf(3, file.name, "win32")>>
  \o (IF file.stream THEN <<ResidentDataOf("ads")>> ELSE <<>>)
  \o (IF file.kind = "resident" THEN <<ResidentDataOf("none")>>
      ELSE <<DataOf("none", file.size, Len(file.clusters) * ClusterSize, file.clusters,
                    IF file.kind = "compressed" THEN "compressed" ELSE "none")>>)

FirstFile == 5

Attributes(number, files, mft) ==
  CASE number = 0 -> <<NameOf(2, "$MFT", "win32-dos"),
                       DataOf("none", Len(mft) * ClusterSize, 0, mft, "none")>>
    [] number = 1 -> <<NameOf(2, "$Bitmap", "win32-dos"), DataOf("none", 2, 2, <<8>>, "none")>>
    [] number = 2 -> <<NameOf(2, ".", "win32-dos")>>
    [] number = 3 -> <<NameOf(2, "docs", "posix")>>
    [] number = 4 -> <<NameOf(2, "$UsnJrnl", "win32-dos"), DataOf("$J", 2, 2, <<9>>, "none")>>
    [] OTHER -> FileAttributes(files[number - FirstFile + 1])

\* Two cells of a cluster, or a cluster of one value.
Both(cell) == <<cell, cell>>

RecordCells(number, files, mft, torn) ==
  << [tag |-> "FILE", usn |-> 1, directory |-> number \in {2, 3},
      inUse |-> number < FirstFile \/ files[number - FirstFile + 1].live,
      attributes |-> Attributes(number, files, mft)],
     [usn |-> IF number \in torn THEN 2 ELSE 1, data |-> 100 * number + 1] >>

FileClusters(file) == Range(file.clusters) \ {HoleCluster}

\* The cells of a file's cluster, unless another file has it now.
ClusterCells(number, file, cluster) ==
  LET first == (CHOOSE i \in DOMAIN file.clusters : file.clusters[i] = cluster) * ClusterSize - 1
  IN IF file.kind = "compressed"
     THEN Both(IF first = 1 THEN [lznt1 |-> Content(number, file)] ELSE [data |-> 7])
     ELSE <<FileCell(number, first), FileCell(number, first + 1)>>

Formatted(files, mft, reused, torn, deletions) ==
  LET system == Range(mft) \cup {0, 8, 9}
      owned == UNION {FileClusters(files[i]) : i \in {i \in DOMAIN files : files[i].live}}
      used == system \cup owned \cup reused
      Owner(c) == {i \in DOMAIN files : c \in FileClusters(files[i])}
      Cluster(c) ==
        CASE c \in Range(mft) ->
               RecordCells((CHOOSE i \in DOMAIN mft : mft[i] = c) - 1, files, mft, torn)
          [] c = 8 -> << [used |-> used \cap (0..CellBits - 1)], [used |-> used \ (0..CellBits - 1)] >>
          [] c = 9 -> [i \in 1..2 |-> IF i \in DOMAIN deletions
                                     THEN [file |-> deletions[i], name |-> "remembered", reason |-> "delete"]
                                     ELSE ZeroCell]
          [] c \notin system /\ c \notin reused /\ Owner(c) # {} ->
               LET i == CHOOSE i \in Owner(c) : TRUE IN ClusterCells(i + FirstFile - 1, files[i], c)
          [] OTHER -> Both([data |-> 99])
  IN [valid |-> TRUE, mftLcn |-> mft[1],
      image |-> FlattenSeq([c \in 1..(2 * CellBits) |-> Cluster(c - 1)])]

\* What the analyser has to find of a file whose record is there.
ContentFound(volume, file, candidate, number) ==
  LET cells == RunCells(volume.image, candidate.recovered.runs)
      whole == Content(number, file)
  IN IF file.kind = "compressed" THEN Inflated(cells) = whole
     ELSE IF file.kind = "resident" THEN cells = <<[usn |-> 1, data |-> whole[1].data]>>
     ELSE cells = SubSeq(whole, 1, Len(cells))

\* Up to the first cluster that is another's now; nothing of a compressed file, of
\* which one with a hole is never read.
SizeLeft(file, reused) ==
  LET taken == {i \in DOMAIN file.clusters :
                  \/ file.clusters[i] \in reused
                  \/ file.kind = "compressed" /\ file.clusters[i] = HoleCluster}
  IN IF file.kind = "resident" \/ taken = {} THEN file.size
     ELSE IF file.kind = "compressed" THEN 0
     ELSE Min({file.size, (Min(taken) - 1) * ClusterSize})

FoundAsItIs(volume, files, lost, candidates, reused, torn) ==
  \A i \in DOMAIN files :
    LET number == i + FirstFile - 1
        file == files[i]
        found == SelectSeq(candidates, LAMBDA c : c.record = number)
    IN IF file.live = lost \/ number \in torn \/ SizeLeft(file, reused) = 0 THEN found = <<>>
       ELSE /\ Len(found) = 1
            /\ found[1].name = file.name
            /\ found[1].path = IF 3 \in torn THEN <<>> ELSE <<"docs">>
            /\ found[1].recovered.size = SizeLeft(file, reused)
            /\ found[1].recovered.integrity = "partial" <=> SizeLeft(file, reused) < file.size
            /\ Len(found[1].streams) = IF file.stream THEN 1 ELSE 0
            /\ ContentFound(volume, file, found[1], number)

\* Every file with a record that can be read is listed once, under its name and
\* path.  One that is there is listed with what it holds; of a deleted one exactly
\* the part before the first cluster another file took is recovered, and called
\* partial; nothing else is.  And as long as every record can be read, what the
\* journal remembers is attached to the file it is about.
KnowsItsFiles(files, volume, gone, there, remembered, reused, torn, deletions) ==
  /\ gone.ok /\ there.ok
  /\ FoundAsItIs(volume, files, TRUE, gone.value, reused, torn)
  /\ FoundAsItIs(volume, files, FALSE, there.value, reused, torn)
  /\ torn = {} => /\ \A r \in remembered : r.candidate.record = r.file
                  /\ {r.file : r \in remembered}
                       = {c.record : c \in Range(gone.value)} \cap Range(deletions)

NtfsVolumeIsRecovered(files, mft, reused, torn, deletions) ==
  \A volume \in {Formatted(files, mft, reused, torn, deletions)} :
    \A loaded \in {LoadRecordsAndIndex(volume)} :
      KnowsItsFiles(files, volume, RecoverDeletedFiles(volume, loaded),
                    ListVisibleFiles(volume, loaded), RecoverUsnJournalFiles(volume, loaded),
                    reused, torn, deletions)
=============================================================================
