------------------------------- MODULE HfsPlus -------------------------------
(***************************************************************************)
(* The HFS+ analyser: the volume header, direct or inside an HFS wrapper,  *)
(* forks with their extents in the overflow file, the leaves of the        *)
(* catalog, and the stale records in the slack of those leaves.            *)
(*                                                                         *)
(* An image has BlockSize cells to a block.  A cell is [data], a volume    *)
(* header, the header of a B-tree [first] or a node of one.  A fork is     *)
(* [size, blocks, extents].                                                *)
(***************************************************************************)
EXTENDS ByteRuns

CONSTANT BlockSize

Failed == [ok |-> FALSE]
Done(value) == [ok |-> TRUE, value |-> value]

RootFolder == 2
NoName == 0
NameWithSlash == -1
CatalogFile == 4

(*---------------------------------- Volume -------------------------------*)
HeaderCell == 1

\* read_hfsplus_volume_header: <<>> when there is none.
VolumeHeader(image, at) ==
  IF at + HeaderCell >= Len(image) THEN <<>>
  ELSE SelectSeq(<<image[at + HeaderCell + 1]>>, LAMBDA header :
         /\ "catalog" \in DOMAIN header
         /\ header.blocks # 0 /\ at + header.blocks * BlockSize <= Len(image)
         /\ header.catalog.size # 0)

VolumeOf(image, at, header) ==
  [image |-> image, offset |-> at, catalog |-> header.catalog, overflow |-> header.overflow]

VolumeAt(image, at) ==
  LET header == VolumeHeader(image, at)
  IN IF header = <<>> THEN Failed ELSE Done(VolumeOf(image, at, header[1]))

\* inspect_volume_layout, with read_hfs_wrapper_embedded_offset.
Wrapped(image) ==
  IF HeaderCell >= Len(image) THEN Failed
  ELSE IF "embedded" \notin DOMAIN image[HeaderCell + 1] THEN Failed
  ELSE VolumeAt(image, image[HeaderCell + 1].embedded)

InspectVolume(image) ==
  IF VolumeHeader(image, 0) = <<>> THEN Wrapped(image) ELSE VolumeAt(image, 0)

(*---------------------------------- Forks --------------------------------*)
NonEmpty(extents) == SelectSeq(extents, LAMBDA e : e.count > 0)
BlocksOf(extents) == FoldLeft(LAMBDA sum, e : sum + e.count, 0, extents)

\* The runs of some extents, up to the size of the fork.
RunsUpTo(volume, extents, size) ==
  LET Add(runs, extent) ==
        LET left == size - RunsLength(runs)
        IN IF left = 0 THEN runs
           ELSE Append(runs, Physical(volume.offset + extent.start * BlockSize, Min({left, extent.count * BlockSize})))
  IN FoldLeft(Add, <<>>, NonEmpty(extents))

\* read_inline_fork_bytes, and the end of read_fork_bytes.
ReadRuns(volume, runs, size) ==
  IF RunsLength(runs) < size \/ \E i \in DOMAIN runs : runs[i].offset + runs[i].length > Len(volume.image)
  THEN Failed ELSE Done(RunCells(volume.image, runs))

(*--------------------------------- B-trees -------------------------------*)
TreeState(ok, leaves) == [ok |-> ok, leaves |-> leaves]

\* The leaves of a tree in their chain, each once, up to one that cannot be read.
RECURSIVE LeavesFrom(_, _, _, _)
LeavesFrom(cells, number, visited, leaves) ==
  LET node == cells[number + 1]
  IN IF number = 0 \/ number \in visited THEN TreeState(TRUE, leaves)
     ELSE IF number >= Len(cells) THEN TreeState(FALSE, leaves)
     ELSE IF ~node.leaf THEN LeavesFrom(cells, node.next, visited \cup {number}, leaves)
     ELSE IF ~node.sound THEN TreeState(FALSE, leaves)
     ELSE LeavesFrom(cells, node.next, visited \cup {number}, Append(leaves, node))

LeavesOf(cells) ==
  IF ~cells.ok THEN TreeState(FALSE, <<>>)
  ELSE IF "first" \notin DOMAIN cells.value[1] THEN TreeState(FALSE, <<>>)
  ELSE LeavesFrom(cells.value, cells.value[1].first, {}, <<>>)

RecordsIn(tree) == FlattenSeq([i \in DOMAIN tree.leaves |-> tree.leaves[i].records])

\* lookup_extent_overflow_record: what lies behind the record is not read.
Lookup(tree, key) ==
  LET found == SelectSeq(RecordsIn(tree), LAMBDA record : record.key = key)
  IN IF found # <<>> THEN Done(<<NonEmpty(found[1].extents)>>) ELSE IF tree.ok THEN Done(<<>>) ELSE Failed

Resolved(extents, complete) == Done([extents |-> extents, complete |-> complete])

\* resolve_fork_extents: from the extents known so far.
RECURSIVE Extended(_, _, _, _, _)
Extended(tree, id, kind, extents, blocks) ==
  LET Continue(found) ==
        IF ~found.ok THEN Failed
        ELSE IF found.value \in {<<>>, <<<<>>>>} THEN Resolved(extents, FALSE)
        ELSE Extended(tree, id, kind, extents \o found.value[1], blocks)
  IN IF BlocksOf(extents) >= blocks THEN Resolved(extents, TRUE)
     ELSE Continue(Lookup(tree, <<kind, id, BlocksOf(extents)>>))

\* The overflow file itself has no more than its own extents.
OverflowCells(volume) ==
  ReadRuns(volume, RunsUpTo(volume, volume.overflow.extents, volume.overflow.size), volume.overflow.size)

ResolveExtents(volume, id, kind, fork) ==
  IF BlocksOf(fork.extents) >= fork.blocks THEN Resolved(NonEmpty(fork.extents), TRUE)
  ELSE IF ~OverflowCells(volume).ok THEN Failed
  ELSE Extended(LeavesOf(OverflowCells(volume)), id, kind, NonEmpty(fork.extents), fork.blocks)

\* read_fork_bytes.
ReadFork(volume, fork, resolved) ==
  IF ~resolved.ok THEN Failed
  ELSE IF ~resolved.value.complete THEN Failed
  ELSE ReadRuns(volume, RunsUpTo(volume, resolved.value.extents, fork.size), fork.size)

Catalog(volume) ==
  LeavesOf(ReadFork(volume, volume.catalog, ResolveExtents(volume, CatalogFile, "data", volume.catalog)))

(*----------------------------- Runs of a fork ----------------------------*)
Fork(runs, expected, integrity, score) ==
  [runs |-> runs, size |-> RunsLength(runs), expected |-> expected, integrity |-> integrity, score |-> score]

Graded(runs, size, complete) ==
  IF runs = <<>> THEN Fork(<<>>, 0, "corrupt", 12)
  ELSE IF RunsLength(runs) < size \/ ~complete THEN Fork(runs, size, "partial", 42)
  ELSE IF Len(runs) > 1 THEN Fork(runs, size, "fragmented", 86)
  ELSE Fork(runs, size, "intact", 96)

\* visible_byte_runs_from_fork: nothing asks whether the blocks are still the file's.
GradedExtents(volume, fork, resolved) ==
  IF resolved.ok
  THEN Done(Graded(RunsUpTo(volume, resolved.value.extents, fork.size), fork.size, resolved.value.complete))
  ELSE Failed

ForkRuns(volume, id, kind, fork) ==
  IF fork.size = 0 THEN Done(Fork(<<>>, 0, "intact", 97))
  ELSE GradedExtents(volume, fork, ResolveExtents(volume, id, kind, fork))

(*--------------------------------- Records -------------------------------*)
\* visible_hfsplus_primary_fork_profile: a file of a resource fork alone is as good
\* as that (standalone_resource_fork_profile).
Standalone(resource) ==
  IF resource.expected > resource.size THEN Fork(<<>>, 0, "partial", 48)
  ELSE IF Len(resource.runs) > 1 THEN Fork(<<>>, 0, "fragmented", 74)
  ELSE Fork(<<>>, 0, "intact", 84)

Profile(main, resource) ==
  IF main.size > 0 \/ main.expected > 0 \/ resource.size = 0 THEN main ELSE Standalone(resource)

FileOf(record, main, resource) ==
  IF main.size = 0 /\ resource.size = 0 THEN <<>>
  ELSE <<[id |-> record.id, parent |-> record.parent, name |-> record.name, main |-> Profile(main, resource),
          resource |-> resource]>>

\* A file record; one of its forks that cannot be read is an error.
FileRecord(volume, record) ==
  LET Built(main, resource) == IF main.ok /\ resource.ok THEN Done(FileOf(record, main.value, resource.value)) ELSE Failed
  IN Built(ForkRuns(volume, record.id, "data", record.data), ForkRuns(volume, record.id, "resource", record.resource))

\* parse_catalog_record, of a file.
CatalogRecord(volume, record) ==
  IF record.type = "file" /\ record.name # NoName THEN FileRecord(volume, record) ELSE Done(<<>>)

AllBuilt(built) ==
  IF \E i \in DOMAIN built : ~built[i].ok THEN Failed
  ELSE Done(FlattenSeq([i \in DOMAIN built |-> built[i].value]))

\* build_parent_path: the names from the root down, as far as the folders are known.
RECURSIVE PathOf(_, _, _)
PathOf(folders, id, seen) ==
  LET known == SelectSeq(folders, LAMBDA folder : folder.id = id)
  IN IF id = RootFolder \/ id \in seen \/ known = <<>> THEN <<>>
     ELSE Append(PathOf(folders, Last(known).parent, seen \cup {id}), Last(known).name)

WithPaths(tree, files) ==
  LET folders == SelectSeq(RecordsIn(tree), LAMBDA record : record.type = "folder" /\ record.name # NoName)
  IN IF tree.ok /\ files.ok
     THEN Done([i \in DOMAIN files.value |-> [file |-> files.value[i], path |-> PathOf(folders, files.value[i].parent, {})]])
     ELSE Failed

\* parse_catalog_visible_files.
FilesIn(volume, records) == AllBuilt([i \in DOMAIN records |-> CatalogRecord(volume, records[i])])

VisibleFiles(volume, tree) == WithPaths(tree, FilesIn(volume, RecordsIn(tree)))

(*--------------------------------- Deleted -------------------------------*)
Identity(file) == <<file.id, file.parent, file.name>>
Identities(files) == {Identity(files[i]) : i \in DOMAIN files}

\* parse_deleted_catalog_record.
Plausible(record) == record.type = "file" /\ record.name \notin {NoName, NameWithSlash} /\ record.id > RootFolder

\* The bug of not asking which files are still there.
StaleFilesOfAll(volume, slack, active) ==
  AllBuilt([i \in DOMAIN slack |-> IF Plausible(slack[i]) THEN FileRecord(volume, slack[i]) ELSE Done(<<>>)])

StaleFiles(volume, slack, active) ==
  AllBuilt([i \in DOMAIN slack |-> IF Plausible(slack[i]) /\ Identity(slack[i]) \notin active
                                   THEN FileRecord(volume, slack[i]) ELSE Done(<<>>)])

\* deleted_hfsplus_recovery_profile.
Capped(file) ==
  LET cap == CASE file.main.integrity = "intact" -> 68
               [] file.main.integrity = "fragmented" -> 57
               [] file.main.integrity = "partial" -> 46
               [] OTHER -> 22
  IN [file EXCEPT !.main.score = Min({@, cap})]

\* scan_deleted_catalog_slack: each file once.
AddDeleted(deleted, file) ==
  IF Identity(file) \in Identities(deleted) THEN deleted ELSE Append(deleted, Capped(file))

\* parse_catalog_deleted_files: leaf by leaf, the files of a leaf before its slack.
DeletedState(ok, active, deleted) == [ok |-> ok, active |-> active, deleted |-> deleted]

ScanLeaf(volume, state, leaf) ==
  LET Slack(active, stale) ==
        IF stale.ok THEN DeletedState(TRUE, active, FoldLeft(AddDeleted, state.deleted, stale.value))
        ELSE DeletedState(FALSE, {}, <<>>)
      Files(files) ==
        IF files.ok
        THEN Slack(state.active \cup Identities(files.value),
                   StaleFiles(volume, leaf.slack, state.active \cup Identities(files.value)))
        ELSE DeletedState(FALSE, {}, <<>>)
  IN IF state.ok THEN Files(FilesIn(volume, leaf.records)) ELSE state

DeletedFiles(volume, tree) ==
  LET Scan(state, leaf) == ScanLeaf(volume, state, leaf)
      Result(state) == IF state.ok THEN WithPaths(tree, Done(state.deleted)) ELSE Failed
  IN Result(FoldLeft(Scan, DeletedState(TRUE, {}, <<>>), tree.leaves))

\* list_visible_files, recover_deleted_files.
ListVisibleFiles(image) ==
  IF InspectVolume(image).ok THEN VisibleFiles(InspectVolume(image).value, Catalog(InspectVolume(image).value)) ELSE Failed

RecoverDeletedFiles(image) ==
  IF InspectVolume(image).ok THEN DeletedFiles(InspectVolume(image).value, Catalog(InspectVolume(image).value)) ELSE Failed

(*------------------------------ Its promise ------------------------------*)
\* A volume as an HFS+ system writes it.  A file is [live, leaf, folder, size,
\* blocks, resource, kept]: two of its blocks are named in its record, the others in
\* the overflow file, as long as it is there or they are "kept".  A "copy" <<leaf, i>>
\* is a record of file i that the slack of a leaf still has.
InlineBlocks == 2
FirstId == 16
SubFolder == 5
FolderName == 1000

ForkCell(i, kind, k) == [data |-> 100 * i + k + (IF kind = "data" THEN 0 ELSE 50)]

BlocksNamed(blocks) == [k \in DOMAIN blocks |-> [start |-> blocks[k], count |-> 1]]

ForkWritten(blocks, size) ==
  [size |-> size, blocks |-> Len(blocks), extents |-> BlocksNamed(SubSeq(blocks, 1, Min({InlineBlocks, Len(blocks)})))]

ResourceSize(file) == BlockSize * Len(file.resource)

NoFork == [size |-> 0, blocks |-> 0, extents |-> <<>>]
Record(type, parent, id, name, data, resource) ==
  [type |-> type, parent |-> parent, id |-> id, name |-> name, data |-> data, resource |-> resource]
RecordWritten(i, file) ==
  Record("file", file.folder, FirstId + i, i, ForkWritten(file.blocks, file.size),
         ForkWritten(file.resource, ResourceSize(file)))

\* The overflow records of a fork: one for every InlineBlocks of the rest.
OverflowOf(i, kind, blocks) ==
  LET count == (Max({Len(blocks), InlineBlocks}) - 1) \div InlineBlocks
  IN [n \in 1..count |->
        [key |-> <<kind, FirstId + i, n * InlineBlocks>>,
         extents |-> BlocksNamed(SubSeq(blocks, n * InlineBlocks + 1, Min({(n + 1) * InlineBlocks, Len(blocks)})))]]

OverflowWritten(files) ==
  FlattenSeq([i \in DOMAIN files |->
    IF files[i].live \/ files[i].kept
    THEN OverflowOf(i, "data", files[i].blocks) \o OverflowOf(i, "resource", files[i].resource) ELSE <<>>])

Leaf(next, records, slack) == [leaf |-> TRUE, sound |-> TRUE, next |-> next, records |-> records, slack |-> slack]
Index(next) == [leaf |-> FALSE, sound |-> FALSE, next |-> next, records |-> <<>>, slack |-> <<>>]

\* Between two stale records lies what a later one left of an earlier.
Torn == Record("torn", 0, 0, NoName, NoFork, NoFork)

CatalogLeaf(files, copies, leaf, next, folders) ==
  LET numbers == SelectSeq([i \in DOMAIN files |-> i], LAMBDA i : files[i].live /\ files[i].leaf = leaf)
      stale == SelectSeq(copies, LAMBDA copy : copy[1] = leaf)
  IN Leaf(next, folders \o [n \in DOMAIN numbers |-> RecordWritten(numbers[n], files[numbers[n]])],
          FlattenSeq([n \in DOMAIN stale |-> <<Torn, RecordWritten(stale[n][2], files[stale[n][2]])>>]))

Folders == <<Record("folder", RootFolder, SubFolder, FolderName, NoFork, NoFork),
             Record("thread", SubFolder, 0, NoName, NoFork, NoFork)>>

\* The cells of a block: the volume header, the overflow file, the two halves of the
\* catalog with the later one first, and the files.
DataBlock(files, block) ==
  LET owners == {<<i, kind>> \in (DOMAIN files) \X {"data", "resource"} :
                   block \in Range(IF kind = "data" THEN files[i].blocks ELSE files[i].resource)}
      Cells(i, kind, blocks) ==
        [k \in 1..BlockSize |-> ForkCell(i, kind, (CHOOSE n \in DOMAIN blocks : blocks[n] = block) * BlockSize + k)]
      Of(owner) == Cells(owner[1], owner[2], IF owner[2] = "data" THEN files[owner[1]].blocks ELSE files[owner[1]].resource)
  IN IF owners = {} THEN [k \in 1..BlockSize |-> [data |-> 0]] ELSE Of(CHOOSE owner \in owners : TRUE)

Written(files, copies) ==
  <<[data |-> 0],
    [blocks |-> 16, overflow |-> [size |-> 2, blocks |-> 1, extents |-> BlocksNamed(<<1>>)],
     catalog |-> [size |-> 4, blocks |-> 2, extents |-> BlocksNamed(<<3, 2>>)]]>>
  \o <<[first |-> 1], Leaf(0, OverflowWritten(files), <<>>)>>
  \o <<Index(3), CatalogLeaf(files, copies, 2, 0, Folders)>>
  \o <<[first |-> 1], CatalogLeaf(files, copies, 1, 2, <<>>)>>
  \o FlattenSeq([n \in 1..12 |-> DataBlock(files, n + 3)])

Formatted(files, copies, wrapped) ==
  IF wrapped THEN <<[data |-> 0], [embedded |-> 4], [data |-> 0], [data |-> 0]>> \o Written(files, copies)
  ELSE Written(files, copies)

\* What is found of a fork is its beginning: all of it, or the blocks in its record
\* when the overflow file has forgotten the others.
ForkIsFound(image, i, kind, blocks, size, whole, found) ==
  LET length == IF whole THEN size ELSE Min({size, InlineBlocks * BlockSize})
  IN /\ found.size = length
     /\ RunCells(image, found.runs) = [k \in 1..length |-> ForkCell(i, kind, BlockSize + k)]
     /\ found.integrity = CASE length < size -> "partial"
                            [] size > 0 /\ Len(blocks) > 1 -> "fragmented"
                            [] OTHER -> "intact"

FoundOnce(image, i, file, found) ==
  /\ Len(found) = 1
  /\ found[1].path = IF file.folder = SubFolder THEN <<FolderName>> ELSE <<>>
  /\ ForkIsFound(image, i, "resource", file.resource, ResourceSize(file), file.live \/ file.kept, found[1].file.resource)
  /\ file.size > 0 => ForkIsFound(image, i, "data", file.blocks, file.size, file.live \/ file.kept, found[1].file.main)

OnlyThese(image, files, numbers, found) ==
  /\ found.ok
  /\ Len(found.value) = Cardinality(numbers)
  /\ \A i \in numbers : FoundOnce(image, i, files[i], SelectSeq(found.value, LAMBDA f : f.file.name = i))

\* Every live file is listed once and whole; every stale record gives one deleted
\* file, unless the file is still in that leaf or in one before it.
HfsVolumeIsRecovered(files, copies, wrapped) ==
  LET holding == {i \in DOMAIN files : files[i].size > 0 \/ files[i].resource # <<>>}
      Here(i, leaf) == files[i].live /\ files[i].leaf <= leaf
      Both(image) ==
        /\ OnlyThese(image, files, {i \in holding : files[i].live}, ListVisibleFiles(image))
        /\ OnlyThese(image, files, {i \in holding : \E n \in DOMAIN copies : copies[n][2] = i /\ ~Here(i, copies[n][1])},
                     RecoverDeletedFiles(image))
  IN Both(Formatted(files, copies, wrapped))
=============================================================================
