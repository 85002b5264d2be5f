--------------------------------- MODULE Ext4 ---------------------------------
(***************************************************************************)
(* The ext4 analyser: the inodes the bitmaps call free, the blocks their   *)
(* extents name, what of them no other file has taken, and the older       *)
(* copies of inodes that lie in the journal.                               *)
(*                                                                         *)
(* A volume is [valid, first, blocks, perGroup, inodesPerGroup,            *)
(* nonReserved, groups, image].  The image has BlockSize cells to a block. *)
(* A cell is [data] of a file, [used] of a bitmap, a [node] of an extent   *)
(* tree, a block of the journal [jbd2, ...], or an inode [regular, size,   *)
(* deleted, extents, node, direct].                                        *)
(***************************************************************************)
EXTENDS ByteRuns

CONSTANTS BlockSize,
          JournalInode,     \* 8 in the code
          MaxTreeDepth,     \* EXT4_MAX_EXTENT_TREE_DEPTH
          JournalLimit      \* blocks of the journal that are read

Failed == [ok |-> FALSE]
Done(value) == [ok |-> TRUE, value |-> value]

\* read_exact_at, of cells in a row.
ReadCells(volume, offset, count) ==
  IF offset + count <= Len(volume.image) THEN Done(SubSeq(volume.image, offset + 1, offset + count))
  ELSE Failed

\* block_offset.
InVolume(volume, block) == volume.first <= block /\ block < volume.blocks
ReadBlock(volume, block) ==
  IF InVolume(volume, block) THEN ReadCells(volume, block * BlockSize, BlockSize) ELSE Failed

(*---------------------------------- Layout -------------------------------*)
\* Ext4Superblock::read_from: the magic, and groups that hold something.
UsableLayout(volume) == volume.valid /\ volume.blocks > 0 /\ volume.perGroup > 0 /\ volume.inodesPerGroup > 0

\* group_count.
GroupCount(volume) ==
  (Max({1, volume.blocks - volume.first}) + volume.perGroup - 1) \div volume.perGroup

\* load_layout: every group has its bitmaps, or nothing is read.
LayoutReads(volume) ==
  /\ UsableLayout(volume)
  /\ Len(volume.groups) >= GroupCount(volume)
  /\ \A g \in 1..GroupCount(volume) :
       ReadBlock(volume, volume.groups[g].blockBitmap).ok /\ ReadBlock(volume, volume.groups[g].inodeBitmap).ok

UsedIn(volume, block) == ReadBlock(volume, block).value[1].used

\* inode_is_allocated.
InodeIsAllocated(volume, number) ==
  LET group == (number - 1) \div volume.inodesPerGroup + 1
  IN (number - 1) % volume.inodesPerGroup \in UsedIn(volume, volume.groups[group].inodeBitmap)

\* block_is_free, of a block of the volume: groups start at the first data block.
BlockIsFree(volume, block) ==
  LET group == (block - volume.first) \div volume.perGroup + 1
  IN (block - volume.first) % volume.perGroup \notin UsedIn(volume, volume.groups[group].blockBitmap)

\* read_inode.
ReadInode(volume, number) ==
  LET group == (number - 1) \div volume.inodesPerGroup + 1
      table == volume.groups[group].inodeTable
  IN IF InVolume(volume, table)
     THEN ReadCells(volume, table * BlockSize + ((number - 1) % volume.inodesPerGroup), 1) ELSE Failed

(*------------------------------- Extent trees ----------------------------*)
\* parse_extent_header.
SoundNode(node) == node.magic /\ node.count <= node.max /\ node.count <= Len(node.entries)

\* append_leaf_extent_blocks: an extent that was never written is left out, one that
\* starts at block 0 is an error.
Written(node) ==
  SelectSeq(SubSeq(node.entries, 1, node.count), LAMBDA e : e.initialized /\ e.length > 0)

LeafPointers(node) ==
  LET extents == Written(node)
  IN IF \E i \in DOMAIN extents : extents[i].start = 0 THEN Failed
     ELSE Done(FlattenSeq([i \in DOMAIN extents |-> [k \in 1..extents[i].length |->
            [logical |-> extents[i].logical + k - 1, physical |-> extents[i].start + k - 1]]]))

TreeState(ok, visited, pointers) == [ok |-> ok, visited |-> visited, pointers |-> pointers]

WithLeaf(state, leaf) ==
  IF leaf.ok THEN [state EXCEPT !.pointers = @ \o leaf.value] ELSE [state EXCEPT !.ok = FALSE]

\* collect_extent_tree: a block of the tree is read once.
RECURSIVE CollectTree(_, _, _)
CollectTree(volume, state, node) ==
  LET Read(s, cells) ==
        IF ~cells.ok THEN [s EXCEPT !.ok = FALSE]
        ELSE IF "node" \in DOMAIN cells.value[1] THEN CollectTree(volume, s, cells.value[1].node)
        ELSE [s EXCEPT !.ok = FALSE]
      Child(s, entry) ==
        IF ~s.ok \/ entry.child = 0 \/ entry.child \in s.visited THEN s
        ELSE Read([s EXCEPT !.visited = @ \cup {entry.child}], ReadBlock(volume, entry.child))
  IN IF ~SoundNode(node) \/ node.depth > MaxTreeDepth THEN [state EXCEPT !.ok = FALSE]
     ELSE IF node.depth = 0 THEN WithLeaf(state, LeafPointers(node))
     ELSE FoldLeft(Child, state, SubSeq(node.entries, 1, node.count))

FromTree(state) == IF state.ok THEN Done(state.pointers) ELSE Failed

\* parse_logical_blocks: without extents the first blocks of the inode, up to a hole.
LogicalBlocks(volume, inode) ==
  LET holes == {i \in DOMAIN inode.direct : inode.direct[i] = 0}
  IN IF inode.extents THEN FromTree(CollectTree(volume, TreeState(TRUE, {}, <<>>), inode.node))
     ELSE Done([i \in 1..(Min(holes \cup {Len(inode.direct) + 1}) - 1) |->
                  [logical |-> i - 1, physical |-> inode.direct[i]]])

(*--------------------------------- Recovery ------------------------------*)
\* build_deleted_candidate: the blocks in their order, up to the size or to the
\* first one in use; one outside the volume before it is an error.
Candidate(number, size, runs) ==
  LET got == RunsLength(runs)
  IN IF runs = <<>> THEN Done(<<>>)
     ELSE Done(<<[inode |-> number, runs |-> runs, size |-> got, expected |-> size,
                  integrity |-> IF got = size THEN "intact" ELSE "partial",
                  score |-> IF got = size THEN 72 ELSE 51]>>)

FreeBlocks(volume, number, size, pointers) ==
  LET need == Min({Len(pointers), (size + BlockSize - 1) \div BlockSize})
      beyond == {i \in 1..need : ~InVolume(volume, pointers[i].physical)}
      taken == {i \in (1..need) \ beyond : ~BlockIsFree(volume, pointers[i].physical)}
      stop == Min(beyond \cup taken \cup {need + 1})
  IN IF stop \in beyond THEN Failed
     ELSE Candidate(number, size,
            [i \in 1..(stop - 1) |-> Physical(pointers[i].physical * BlockSize,
                                              Min({BlockSize, size - (i - 1) * BlockSize}))])

DeletedCandidate(volume, number, size, pointers) ==
  IF pointers.ok
  THEN FreeBlocks(volume, number, size, SortSeq(pointers.value, LAMBDA a, b : a.logical < b.logical))
  ELSE Failed

CandidateOf(volume, number, inode) ==
  DeletedCandidate(volume, number, inode.size, LogicalBlocks(volume, inode))

\* recover_deleted_files: one failure ends the list.
Deleted(inode) == inode.regular /\ inode.size > 0 /\ inode.deleted # 0

FromInode(volume, number, cells) ==
  IF ~cells.ok THEN Failed
  ELSE IF "regular" \notin DOMAIN cells.value[1] THEN Done(<<>>)
  ELSE IF Deleted(cells.value[1]) THEN CandidateOf(volume, number, cells.value[1])
  ELSE Done(<<>>)

AllBuilt(built) ==
  IF \E i \in DOMAIN built : ~built[i].ok THEN Failed
  ELSE Done(FlattenSeq([i \in DOMAIN built |-> built[i].value]))

RecoverDeletedFiles(volume) ==
  IF ~LayoutReads(volume) THEN Failed
  ELSE AllBuilt([number \in 1..(GroupCount(volume) * volume.inodesPerGroup) |->
         IF number < volume.nonReserved \/ InodeIsAllocated(volume, number) THEN Done(<<>>)
         ELSE FromInode(volume, number, ReadInode(volume, number))])

(*---------------------------------- Journal ------------------------------*)
\* recover_journal_files: the blocks after the journal's first, whatever its extents
\* say; of the inodes in those that are not the journal's own the deleted ones, of
\* two with the same size and time of deletion the first.
JournalInodes(volume, start, length) ==
  LET blocks == [k \in 1..(Min({length, JournalLimit}) - 1) |->
                   ReadCells(volume, (start + k) * BlockSize, BlockSize)]
      read == Min({k \in DOMAIN blocks : ~blocks[k].ok} \cup {Len(blocks) + 1}) - 1
      cells == FlattenSeq([k \in 1..read |->
                 IF "jbd2" \in DOMAIN blocks[k].value[1] THEN <<>> ELSE blocks[k].value])
      gone == SelectSeq(cells, LAMBDA c : IF "regular" \in DOMAIN c THEN c.size > 0 /\ c.deleted # 0 ELSE FALSE)
      Seen(i) == \E j \in 1..(i - 1) : gone[j].size = gone[i].size /\ gone[j].deleted = gone[i].deleted
  IN [i \in 1..Len(gone) |-> IF Seen(i) \/ ~gone[i].regular THEN <<>> ELSE <<gone[i]>>]

\* A candidate that fails is left out, and the others are less sure.
LessSure(built) ==
  IF built.ok THEN [i \in DOMAIN built.value |-> [built.value[i] EXCEPT !.score = @ - 8]] ELSE <<>>

JournalCandidates(volume, inodes) ==
  FlattenSeq([i \in DOMAIN inodes |-> LessSure(CandidateOf(volume, i, inodes[i]))])

FromJournal(volume, start, header) ==
  IF ~header.ok THEN Failed
  ELSE IF "maxlen" \notin DOMAIN header.value[1] THEN Done(<<>>)
  ELSE Done(JournalCandidates(volume, FlattenSeq(JournalInodes(volume, start, header.value[1].maxlen))))

JournalAt(volume, pointers) ==
  IF ~pointers.ok THEN Failed
  ELSE IF pointers.value = <<>> THEN Done(<<>>)
  ELSE FromJournal(volume, pointers.value[1].physical, ReadBlock(volume, pointers.value[1].physical))

JournalOf(volume, cells) ==
  IF ~cells.ok THEN Failed
  ELSE IF "regular" \notin DOMAIN cells.value[1] THEN Done(<<>>)
  ELSE IF cells.value[1].size = 0 THEN Done(<<>>)
  ELSE JournalAt(volume, LogicalBlocks(volume, cells.value[1]))

RecoverJournalFiles(volume) ==
  IF ~LayoutReads(volume) \/ (JournalInode - 1) \div volume.inodesPerGroup >= Len(volume.groups)
  THEN Done(<<>>) ELSE JournalOf(volume, ReadInode(volume, JournalInode))

(*------------------------------ Its promise ------------------------------*)
\* A volume as an ext4 system writes it, with two groups of 16 blocks and of four
\* inodes.  A file is [live, listed, kind, size, blocks, time]: its blocks are named
\* by the inode ("direct"), by extents in it ("extents") or by extents in a block of
\* the tree ("tree").  Deleting it frees its inode and its blocks and keeps what the
\* inode names, until another file has the inode and it is not "listed"; "taken" are
\* freed blocks another file has now.
FileCell(number, k) == [data |-> 100 * number + k]

\* One extent to a block, the last block first.
Extents(blocks) ==
  [i \in DOMAIN blocks |->
     LET k == Len(blocks) + 1 - i
     IN [logical |-> k - 1, start |-> blocks[k], length |-> 1, initialized |-> TRUE, child |-> 0]]

\* A leaf of the tree is named twice, which it must not be read.
Indexes(block) ==
  [i \in 1..2 |-> [logical |-> 0, start |-> 0, length |-> 0, initialized |-> FALSE, child |-> block]]

Node(depth, entries) ==
  [magic |-> TRUE, depth |-> depth, count |-> Len(entries), max |-> 4, entries |-> entries]
NoNode == [magic |-> FALSE, depth |-> 0, count |-> 0, max |-> 0, entries |-> <<>>]

InodeCell(file, treeBlock) ==
  [regular |-> TRUE, size |-> file.size, deleted |-> IF file.live THEN 0 ELSE file.time,
   extents |-> file.kind # "direct",
   node |-> CASE file.kind = "extents" -> Node(0, Extents(file.blocks))
              [] file.kind = "tree" -> Node(1, Indexes(treeBlock))
              [] file.kind = "direct" -> NoNode,
   direct |-> IF file.kind = "direct" THEN Append(file.blocks, 0) ELSE <<>>]

NoInode == [regular |-> FALSE, size |-> 0, deleted |-> 0, extents |-> FALSE, node |-> NoNode, direct |-> <<>>]

PerGroup == 16
FirstFile == 4      \* the inodes of the files: the last of group one, then group two's
TreeBlock(first, i) == first + 9 + i
JournalStart(first) == first + 5
System(first) == (first..(first + 8)) \cup ((first + PerGroup)..(first + PerGroup + 4))

\* The inode with a number, of "files", of the journal or of none.
InodeNumbered(files, first, number) ==
  LET i == number - FirstFile + 1
  IN IF number = JournalInode
     THEN [NoInode EXCEPT !.regular = TRUE, !.size = 4 * BlockSize, !.extents = TRUE,
                          !.node = Node(0, Extents(<<JournalStart(first)>>))]
     ELSE IF i \in DOMAIN files THEN (IF files[i].listed THEN InodeCell(files[i], TreeBlock(first, i)) ELSE NoInode)
     ELSE NoInode

\* A bitmap of what lies from "from" on.
Bitmap(used, from, count) == [used |-> {x - from : x \in used \cap (from..(from + count - 1))}]

Repeated(cell) == [k \in 1..BlockSize |-> cell]

\* What the files hold of a block.
FileBlocks(files, first, taken, block) ==
  LET owners == {i \in DOMAIN files : block \in Range(files[i].blocks)}
      Cells(i, n) == [k \in 1..BlockSize |-> FileCell(i, (n - 1) * BlockSize + k)]
      tree == block - first - 9
  IN IF block \in taken THEN Repeated([data |-> 99])
     ELSE IF tree \in DOMAIN files THEN Repeated([node |-> Node(0, Extents(files[tree].blocks))])
     ELSE IF owners = {} THEN Repeated([data |-> 99])
     ELSE LET i == CHOOSE i \in owners : TRUE
          IN Cells(i, CHOOSE n \in DOMAIN files[i].blocks : files[i].blocks[n] = block)

\* "journal" are the files whose inode the journal holds as it was.
SystemBlock(files, first, journal, block, blocksUsed, inodesUsed) ==
  LET Table(number) == [k \in 1..BlockSize |-> InodeNumbered(files, first, number + k - 1)]
      Copy(k) == IF k \in DOMAIN journal THEN InodeCell(files[journal[k]], TreeBlock(first, journal[k])) ELSE NoInode
  IN CASE block = first + 1 -> Repeated(Bitmap(blocksUsed, first, PerGroup))
       [] block = first + PerGroup + 1 -> Repeated(Bitmap(blocksUsed, first + PerGroup, PerGroup))
       [] block = first + 2 -> Repeated(Bitmap(inodesUsed, 1, 4))
       [] block = first + PerGroup + 2 -> Repeated(Bitmap(inodesUsed, 5, 4))
       [] block = first + 3 -> Table(1)
       [] block = first + 4 -> Table(3)
       [] block = first + PerGroup + 3 -> Table(5)
       [] block = first + PerGroup + 4 -> Table(7)
       [] block = JournalStart(first) -> Repeated([jbd2 |-> "super", maxlen |-> 4])
       [] block = JournalStart(first) + 1 -> Repeated([jbd2 |-> "descriptor"])
       [] block = JournalStart(first) + 2 -> [k \in 1..BlockSize |-> Copy(k)]
       [] block = JournalStart(first) + 3 -> Repeated([jbd2 |-> "commit"])
       [] OTHER -> Repeated([data |-> 98])

Laid(files, first, taken, journal, blocksUsed, inodesUsed) ==
  [valid |-> TRUE, first |-> first, blocks |-> first + 2 * PerGroup, perGroup |-> PerGroup,
   inodesPerGroup |-> 4, nonReserved |-> FirstFile - 1,
   groups |-> [g \in 1..2 |-> LET from == first + (g - 1) * PerGroup
                              IN [blockBitmap |-> from + 1, inodeBitmap |-> from + 2, inodeTable |-> from + 3]],
   image |-> FlattenSeq([b \in 1..(first + 2 * PerGroup) |->
               IF b - 1 \in System(first)
               THEN SystemBlock(files, first, journal, b - 1, blocksUsed, inodesUsed)
               ELSE FileBlocks(files, first, taken, b - 1)])]

Formatted(files, first, taken, journal) ==
  LET live == {i \in DOMAIN files : files[i].live}
  IN Laid(files, first, taken, journal,
       System(first) \cup taken \cup UNION {Range(files[i].blocks) : i \in live},
       (1..(FirstFile - 1)) \cup {FirstFile + i - 1 : i \in {j \in DOMAIN files : files[j].live \/ ~files[j].listed}})

\* How much of a file lies before its first block another file got.
SizeBefore(file, taken) ==
  LET lost == {i \in DOMAIN file.blocks : file.blocks[i] \in taken}
  IN Min({file.size, (Min(lost \cup {Len(file.blocks) + 1}) - 1) * BlockSize})

HoldsBeginning(image, i, file, found, size) ==
  /\ found.size = size /\ found.expected = file.size
  /\ RunCells(image, found.runs) = [k \in 1..size |-> FileCell(i, k)]
  /\ found.integrity = "intact" <=> size = file.size

RecoveredOnce(image, i, file, found, size) ==
  IF size = 0 THEN found = <<>>
  ELSE Len(found) = 1 /\ HoldsBeginning(image, i, file, found[1], size)

TableIsRecovered(files, taken, image, gone) ==
  /\ gone.ok
  /\ \A i \in DOMAIN files :
       RecoveredOnce(image, i, files[i],
         SelectSeq(gone.value, LAMBDA found : found.inode = FirstFile + i - 1),
         IF files[i].live \/ ~files[i].listed THEN 0 ELSE SizeBefore(files[i], taken))

\* One candidate for each file the journal knows as deleted, in its order; files
\* that went in the same second with the same size count once.
JournalIsRecovered(files, taken, journal, image, older) ==
  LET Mark(i) == IF files[i].live THEN <<>> ELSE <<files[i].size, files[i].time>>
      expected == {k \in DOMAIN journal : /\ Mark(journal[k]) # <<>>
                                          /\ \A j \in 1..(k - 1) : Mark(journal[j]) # Mark(journal[k])
                                          /\ SizeBefore(files[journal[k]], taken) > 0}
  IN /\ older.ok
     /\ Len(older.value) = Cardinality(expected)
     /\ \A n \in DOMAIN older.value :
          LET i == journal[SetToSortSeq(expected, <)[n]]
          IN HoldsBeginning(image, i, files[i], older.value[n], SizeBefore(files[i], taken))

\* A deleted file is found once, with what no other file has overwritten of its
\* beginning, and called intact only when that is all of it; a live file is not.
Ext4VolumeIsRecovered(files, first, taken, journal) ==
  LET Both(volume) ==
        /\ TableIsRecovered(files, taken, volume.image, RecoverDeletedFiles(volume))
        /\ JournalIsRecovered(files, taken, journal, volume.image, RecoverJournalFiles(volume))
  IN Both(Formatted(files, first, taken, journal))
=============================================================================
