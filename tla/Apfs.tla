-------------------------------- MODULE Apfs --------------------------------
(***************************************************************************)
(* The APFS analyser: the catalog of a container's first volume, the files *)
(* its directories lead to, and the inodes no directory record names.      *)
(*                                                                         *)
(* The container, its object maps and its B-trees are read by the crate    *)
(* "apfs"; the model begins with what the crate returns.  A volume is      *)
(* [present, entries, extents]: the records of its catalog in their order, *)
(* and the extents under each private id.  A record is [type, ...]; an     *)
(* extent is [block, count].  An image has BlockSize cells to a block.     *)
(***************************************************************************)
EXTENDS ByteRuns

CONSTANTS BlockSize, PreviewLimit

Failed == [ok |-> FALSE]
Done(value) == [ok |-> TRUE, value |-> value]

RootDirRecord == 2
NoVolume == [present |-> FALSE]

(*--------------------------------- Catalog -------------------------------*)
\* open_primary_volume_context: the first volume of the container that is there.
PrimaryVolume(container) ==
  LET present == SelectSeq(container, LAMBDA volume : volume.present)
  IN IF present = <<>> THEN Failed ELSE Done(present[1])

Records(volume, type) == SelectSeq(volume.entries, LAMBDA entry : entry.type = type)

\* scan_catalog_state_from_entries.
ActiveFileIds(volume) == {e.file : e \in {r \in Range(Records(volume, "drec")) : r.kind = "file"}}
FileInodes(volume) == SelectSeq(Records(volume, "inode"), LAMBDA e : e.kind = "file" /\ e.size > 0)

\* select_deleted_catalog_inodes.
DeletedInodes(volume) ==
  SelectSeq(FileInodes(volume), LAMBDA e : e.private # 0 /\ e.oid \notin ActiveFileIds(volume))

ExtentsOf(volume, private) ==
  IF private \in DOMAIN volume.extents THEN volume.extents[private] ELSE <<>>

(*---------------------------------- Files --------------------------------*)
\* byte_runs_from_extents: one after the other, up to the size of the file.
RunsUpTo(size, extents) ==
  LET Add(runs, extent) ==
        LET length == Min({size - RunsLength(runs), extent.count * BlockSize})
        IN AppendRun(runs, Physical(extent.block * BlockSize, length))
  IN FoldLeft(Add, <<>>, extents)

Candidate(id, path, size, runs) ==
  [id |-> id, path |-> path, size |-> RunsLength(runs), expected |-> size, runs |-> runs,
   integrity |-> CASE RunsLength(runs) < size -> "partial"
                   [] Len(runs) > 1 -> "fragmented"
                   [] OTHER -> "intact"]

\* Nothing for a file without a reconstructable byte.
CandidateOf(inode, path, runs) == IF runs = <<>> THEN <<>> ELSE <<Candidate(inode.oid, path, inode.size, runs)>>

InodeCandidate(volume, inode, path) ==
  CandidateOf(inode, path, RunsUpTo(inode.size, ExtentsOf(volume, inode.private)))

\* lookup_inode, by its object id.
Inode(volume, oid) == SelectSeq(Records(volume, "inode"), LAMBDA e : e.oid = oid)

\* build_visible_candidate.
VisibleCandidate(volume, entry, path) ==
  IF Inode(volume, entry.file) = <<>> THEN Failed
  ELSE Done(InodeCandidate(volume, Inode(volume, entry.file)[1], path))

\* What two listings give one after the other; the first failure ends both.
Both(one, other) == IF one.ok /\ other.ok THEN Done(one.value \o other.value) ELSE Failed

\* walk_directory: a link is left out.
Walk(volume) ==
  LET folders == {RootDirRecord} \cup {e.file : e \in {r \in Range(Records(volume, "drec")) : r.kind = "folder"}}
      Entries(folder) == SelectSeq(Records(volume, "drec"), LAMBDA e : e.oid = folder)
      walked[folder \in folders] ==
        LET Under(e) == [i \in DOMAIN walked[e.file].value |->
                           [walked[e.file].value[i] EXCEPT !.path = <<e.name>> \o @]]
            Of(e) == CASE e.kind = "folder" -> IF walked[e.file].ok THEN Done(Under(e)) ELSE Failed
                       [] e.kind = "file" -> VisibleCandidate(volume, e, <<e.name>>)
                       [] OTHER -> Done(<<>>)
        IN FoldLeft(LAMBDA listed, e : Both(listed, Of(e)), Done(<<>>), Entries(folder))
  IN walked[RootDirRecord]

ListVisibleFiles(container) ==
  IF PrimaryVolume(container).ok THEN Walk(PrimaryVolume(container).value) ELSE Failed

\* read_preview_bytes: the first bytes must be in the image.
PreviewReads(image, runs) ==
  \A i \in DOMAIN runs :
    LET before == RunsLength(SubSeq(runs, 1, i - 1))
    IN before >= PreviewLimit \/ runs[i].offset + Min({runs[i].length, PreviewLimit - before}) <= Len(image)

\* recover_deleted_files, of one inode and of them all.
DeletedCandidate(image, volume, inode) ==
  LET found == InodeCandidate(volume, inode, <<>>)
  IN IF \A i \in DOMAIN found : PreviewReads(image, found[i].runs) THEN Done(found) ELSE Failed

RecoverDeletedFiles(image, container) ==
  IF ~PrimaryVolume(container).ok THEN Failed
  ELSE LET volume == PrimaryVolume(container).value
       IN FoldLeft(LAMBDA found, inode : Both(found, DeletedCandidate(image, volume, inode)),
                   Done(<<>>), DeletedInodes(volume))

(*------------------------------- The promise -----------------------------*)
(* A file is [names, linked, size, places, kept]: its names as             *)
(* <<folder, name>>, whether its inode counts links, its extents and how   *)
(* many of them the catalog still has.                                     *)
SubFolder == 3
FolderName == 100

FileId(i) == 10 + i
PrivateId(i) == 10 + (i % 2) + 1      \* not the id of the file, but of another one

FileCell(i, k) == [data |-> 100 * i + k]

Drec(folder, name, file, kind) == [type |-> "drec", oid |-> folder, name |-> name, file |-> file, kind |-> kind]

\* The catalog is ordered by object id, with the inode before the records of its names.
CatalogOf(files) ==
  LET NamesIn(folder) ==
        FlattenSeq([i \in DOMAIN files |->
          LET own == SelectSeq(files[i].names, LAMBDA n : n[1] = folder)
          IN [k \in DOMAIN own |-> Drec(folder, own[k][2], FileId(i), "file")]])
      InodeOf(i) == [type |-> "inode", oid |-> FileId(i), private |-> PrivateId(i), kind |-> "file",
                     size |-> files[i].size, nlink |-> IF files[i].linked THEN 1 ELSE 0]
  IN <<Drec(RootDirRecord, FolderName, SubFolder, "folder")>> \o NamesIn(RootDirRecord)
     \o <<Drec(RootDirRecord, 0, 90, "link")>> \o NamesIn(SubFolder)
     \o [i \in DOMAIN files |-> InodeOf(i)]
     \o <<[type |-> "inode", oid |-> SubFolder, private |-> SubFolder, kind |-> "folder", size |-> 0, nlink |-> 1]>>

VolumeOf(files) ==
  [present |-> TRUE, entries |-> CatalogOf(files),
   extents |-> [private \in {PrivateId(i) : i \in DOMAIN files} |->
                  LET i == CHOOSE i \in DOMAIN files : PrivateId(i) = private
                  IN SubSeq(files[i].places, 1, files[i].kept)]]

\* Where the cells of a file lie in the image.
CellsOf(file) ==
  FlattenSeq([n \in DOMAIN file.places |->
    [k \in 1..(file.places[n].count * BlockSize) |-> file.places[n].block * BlockSize + k]])

ImageOf(files, cells) ==
  [c \in 1..cells |->
     LET owners == {i \in DOMAIN files : \E k \in 1..files[i].size : CellsOf(files[i])[k] = c}
     IN IF owners = {} THEN ZeroCell
        ELSE LET i == CHOOSE i \in owners : TRUE IN FileCell(i, CHOOSE k \in 1..files[i].size : CellsOf(files[i])[k] = c)]

SizeKept(file) == Min({file.size, Len(CellsOf([file EXCEPT !.places = SubSeq(@, 1, file.kept)]))})

IsFound(image, i, file, found) ==
  /\ found.size = SizeKept(file) /\ found.expected = file.size
  /\ RunCells(image, found.runs) = [k \in 1..found.size |-> FileCell(i, k)]
  /\ found.integrity = "partial" <=> found.size < file.size

PathOf(name) == IF name[1] = SubFolder THEN <<FolderName, name[2]>> ELSE <<name[2]>>

Found(list, i) == SelectSeq(list, LAMBDA found : found.id = FileId(i))

\* Of the first volume, every file is listed under each of its names, and one
\* without a name is recovered once; both with what its extents still say.  An
\* extent outside the image spoils the recovery and is left out.
ApfsVolumeIsRecovered(files, cells, other) ==
  LET image == ImageOf(files, cells)
      container == <<NoVolume, VolumeOf(files), other>>
      Numbers == {i \in DOMAIN files : SizeKept(files[i]) > 0}
      visible == ListVisibleFiles(container)
      gone == RecoverDeletedFiles(image, container)
  IN /\ visible.ok /\ gone.ok
     /\ \A i \in DOMAIN files :
          LET listed == Found(visible.value, i)
              names == files[i].names
          IN /\ {found.path : found \in Range(listed)} = (IF i \in Numbers THEN {PathOf(n) : n \in Range(names)} ELSE {})
             /\ Len(listed) = IF i \in Numbers THEN Len(names) ELSE 0
             /\ Len(Found(gone.value, i)) = IF i \in Numbers /\ names = <<>> THEN 1 ELSE 0
             /\ \A found \in Range(listed \o Found(gone.value, i)) : IsFound(image, i, files[i], found)
=============================================================================
