----------------------------- MODULE VirtualDisks -----------------------------
(***************************************************************************)
(* The containers a recovery source can be: raw images, VHD and VMDK       *)
(* files, what opening one makes of its header and tables, and what is     *)
(* read through them.  E01 files are not modelled (README, section 5).     *)
(*                                                                         *)
(* A file is a sequence of cells, sectors of data or of the container's    *)
(* own; what a header or a table holds is a field of the file beside them. *)
(***************************************************************************)
EXTENDS Integers, SequencesExt

CONSTANT MinGrainEntries   \* what a grain table holds at least (512)

ZeroCell == 0
EndOfFile == -1     \* reading gives nothing more

Cells(file, at) == IF at < Len(file.cells) THEN file.cells[at + 1] ELSE EndOfFile

\* An opened source: its format and the cells of the disk inside it.
Disk(format, cells) == [ok |-> TRUE, format |-> format, cells |-> cells]
NotOpened == [ok |-> FALSE, format |-> "none", cells |-> <<>>]

(*----------------------------------- VHD ---------------------------------*)
SparseBlock == -1

\* The bug of starting at the bitmap of a block.
NoBitmap(blockSize) == 0

\* Between a block's sector and its data: an eighth of its sectors, one at least.
BitmapSectors(blockSize) == Max({1, blockSize \div 8})

\* The footer at the end, or its copy at the start.
FooterOf(file) == IF file.footer.cookie THEN file.footer ELSE file.footerCopy

\* VhdSource::open; a VHDX file is refused by its signature.
VhdOpens(file) ==
  LET footer == FooterOf(file)
      header == file.sparseHeader
  IN /\ file.signature # "vhdxfile"
     /\ footer.cookie
     /\ footer.type \in {"fixed", "dynamic", "differencing"}
     /\ footer.type # "fixed" =>
          /\ footer.dataOffset + 2 <= Len(file.cells)
          /\ header.cookie
          /\ header.blockSize > 0
          /\ header.bat # <<>>

\* VhdSource::read: a block that is not in the file is zeros, also in a
\* differencing disk, whose parent is not looked for.
VhdCell(file, at) ==
  LET footer == FooterOf(file)
      size == file.sparseHeader.blockSize
      bat == file.sparseHeader.bat
      block == at \div size
  IN IF footer.type = "fixed" THEN Cells(file, at)
     ELSE IF block >= Len(bat) THEN ZeroCell
     ELSE IF bat[block + 1] = SparseBlock THEN ZeroCell
     ELSE Cells(file, bat[block + 1] + BitmapSectors(size) + (at % size))

VhdDisk(file) ==
  IF VhdOpens(file)
  THEN Disk("vhd", [i \in 1..FooterOf(file).size |-> VhdCell(file, i - 1)]) ELSE NotOpened

(*---------------------------------- VMDK ---------------------------------*)
DivCeil(a, b) == (a + b - 1) \div b

\* VmdkSource::open: the sector of every grain, 0 where the directory or a table
\* has none or cannot be read.
GrainTable(file) ==
  LET grains == DivCeil(file.capacity, file.grain)
      each == Max({file.entries, MinGrainEntries})
      tables == DivCeil(grains, each)
      Table(t) == file.tables[file.directory[t + 1]]
      Listed(t) == /\ Len(file.directory) >= tables
                   /\ file.directory[t + 1] \in DOMAIN file.tables
                   /\ Len(Table(t)) >= Min({each, grains - t * each})
  IN [g \in 0..(grains - 1) |->
        IF Listed(g \div each) THEN Table(g \div each)[(g % each) + 1] ELSE 0]

\* VmdkSource::open: a file of text that describes its extents is a disk of size 0.
VmdkDisk(file) ==
  LET table == GrainTable(file)
      Cell(at) == LET sector == table[at \div file.grain]
                  IN IF sector = 0 THEN ZeroCell ELSE Cells(file, sector + (at % file.grain))
  IN IF ~file.magic THEN (IF file.descriptor THEN Disk("vmdk", <<>>) ELSE NotOpened)
     ELSE IF file.grain = 0 THEN NotOpened
     ELSE Disk("vmdk", [i \in 1..file.capacity |-> Cell(i - 1)])

(*--------------------------------- Sources -------------------------------*)
\* open_recovery_source: by the extension of the name; e01 is not modelled.
RecoverySource(file) ==
  CASE file.ext = "vmdk" -> VmdkDisk(file)
    [] file.ext \in {"vhd", "vhdx"} -> VhdDisk(file)
    [] OTHER -> Disk("raw", file.cells)

\* seek from the start, then reads until the length is met or one gives nothing.
ReadSource(disk, position, length) ==
  LET start == Min({position, Len(disk.cells)})
      asked == SubSeq(disk.cells, start + 1, Min({start + length, Len(disk.cells)}))
      short == {i \in DOMAIN asked : asked[i] = EndOfFile}
  IN SubSeq(asked, 1, Min({i - 1 : i \in short} \cup {Len(asked)}))

(*------------------------------ Its promise ------------------------------*)
\* A disk of cells, written into a container: "stored" is the order in which the
\* blocks that hold data were allocated.
BlockCell(cells, size, block, i) ==
  IF block * size + i <= Len(cells) THEN cells[block * size + i] ELSE ZeroCell

BlockCells(cells, size, block) == [i \in 1..size |-> BlockCell(cells, size, block, i)]

NoFooter == [cookie |-> FALSE, type |-> "none", size |-> 0, dataOffset |-> 0]
NoHeader == [cookie |-> FALSE, blockSize |-> 1, bat |-> <<>>]

FixedVhd(cells) ==
  LET footer == [NoFooter EXCEPT !.cookie = TRUE, !.type = "fixed", !.size = Len(cells)]
  IN [ext |-> "vhd", signature |-> "data", footer |-> footer, footerCopy |-> NoFooter,
      sparseHeader |-> NoHeader, cells |-> cells \o <<ZeroCell>>]

\* Four sectors of headers, then each block behind its one sector of bitmap; the
\* footer at the end may be damaged.
DynamicVhd(cells, size, stored, damaged) ==
  LET footer == [cookie |-> TRUE, type |-> "dynamic", size |-> Len(cells), dataOffset |-> 1]
      Place(block) == IF block \in Range(stored)
                      THEN 4 + (size + 1) * ((CHOOSE i \in DOMAIN stored : stored[i] = block) - 1)
                      ELSE SparseBlock
  IN [ext |-> "vhd", signature |-> "conectix",
      footer |-> [footer EXCEPT !.cookie = ~damaged], footerCopy |-> footer,
      sparseHeader |-> [cookie |-> TRUE, blockSize |-> size,
                        bat |-> [b \in 1..DivCeil(Len(cells), size) |-> Place(b - 1)]],
      cells |-> <<7, 7, 7, 7>>
                \o [i \in 1..(Len(stored) * (size + 1)) |->
                      IF (i - 1) % (size + 1) = 0 THEN 8
                      ELSE BlockCell(cells, size, stored[((i - 1) \div (size + 1)) + 1], (i - 1) % (size + 1))]
                \o <<7>>]

\* A header, a directory and its tables, then the grains.
SparseVmdk(cells, size, stored) ==
  LET grains == DivCeil(Len(cells), size)
      tables == DivCeil(grains, MinGrainEntries)
      Grain(g) == IF g \in Range(stored)
                  THEN 2 + tables + size * ((CHOOSE i \in DOMAIN stored : stored[i] = g) - 1) ELSE 0
      Used(t) == \E e \in 0..(MinGrainEntries - 1) : t * MinGrainEntries + e \in Range(stored)
  IN [ext |-> "vmdk", magic |-> TRUE, descriptor |-> FALSE, capacity |-> Len(cells),
      grain |-> size, entries |-> MinGrainEntries,
      directory |-> [t \in 1..tables |-> IF Used(t - 1) THEN 1 + t ELSE 0],
      tables |-> [sector \in 2..(1 + tables) |->
                    [e \in 1..MinGrainEntries |-> Grain((sector - 2) * MinGrainEntries + e - 1)]],
      cells |-> [t \in 1..(2 + tables) |-> 7]
                \o [i \in 1..(Len(stored) * size) |->
                      BlockCell(cells, size, stored[((i - 1) \div size) + 1], ((i - 1) % size) + 1)]]

\* A disk in a container: "stored" are the blocks that were allocated, in that
\* order; no other block was written.
Allocated(cells, size, stored) ==
  /\ stored \in Seq(Nat)
  /\ \A at \in 0..(Len(cells) - 1) : at \div size \notin Range(stored) => cells[at + 1] = ZeroCell

IsDiskFile(disk) ==
  /\ disk.cells \in Seq(Nat) /\ disk.size \in Nat \ {0}
  /\ disk.format \in {"fixed", "dynamic", "sparse"}
  /\ disk.format \in {"dynamic", "sparse"} => Allocated(disk.cells, disk.size, disk.stored)
  /\ disk.format = "dynamic" => disk.damaged \in BOOLEAN /\ disk.cells # <<>>

FileOf(disk) ==
  CASE disk.format = "fixed" -> FixedVhd(disk.cells)
    [] disk.format = "dynamic" -> DynamicVhd(disk.cells, disk.size, disk.stored, disk.damaged)
    [] disk.format = "sparse" -> SparseVmdk(disk.cells, disk.size, disk.stored)

\* What is read through a container, from any position on and at any length, is
\* what the disk written into it held there.
ReadsBack(file, cells) ==
  LET disk == RecoverySource(file)
  IN /\ disk.ok
     /\ Len(disk.cells) = Len(cells)
     /\ \A position, length \in 0..Len(cells) :
          ReadSource(disk, position, length)
            = SubSeq(cells, position + 1, Min({position + length, Len(cells)}))
=============================================================================
