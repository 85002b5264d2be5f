------------------------------ MODULE RaidArray ------------------------------
(***************************************************************************)
(* The RAID engine: arithmetic in GF(256), the place of a logical byte on  *)
(* the members, the reconstruction of what a missing member held, and the  *)
(* command that checks a build, resolves its members and copies the array  *)
(* into an image.  A member is the sequence of its bytes; reads are told   *)
(* byte by byte, which is how the loop over stripes behaves.               *)
(***************************************************************************)
EXTENDS Integers, SequencesExt, StableSort

CONSTANT ByteXor(_, _)     \* of two bytes

\* What reading a byte can give besides a byte: the member file ends before
\* it, or the read returns an error.
EndOfMember == 256
RaidFailed == 257

NoMember == <<>>            \* in place of the bytes of a missing member
EmptySlot == 0              \* in place of the number of a disk

\* What a command returns: an image, or an error.
RaidImage(bytes) == [ok |-> TRUE, bytes |-> bytes]
NoRaidImage == [ok |-> FALSE, bytes |-> <<>>]

(*-------------------------------- GF(256) --------------------------------*)
\* x <<= 1, reduced by 0x11d.
Doubled(x) == IF 2 * x >= 256 THEN ByteXor(2 * x, 285) ELSE 2 * x

\* pow: the powers of the generator, of which there are 255.
GfPow(n) ==
  LET power[i \in 0..254] == IF i = 0 THEN 1 ELSE Doubled(power[i - 1]) IN power[n % 255]

\* mul, by its meaning: the tables of logarithms and powers hold this product, of a by
\* the binary digits of b, the first one first.
GfMul(a, b) ==
  LET times[d \in 0..255] ==
        IF d = 0 THEN 0 ELSE ByteXor(Doubled(times[d \div 2]), IF d % 2 = 1 THEN a ELSE 0)
  IN times[b]

\* div, by its meaning, b not being zero.
GfDiv(a, b) == CHOOSE x \in 0..255 : GfMul(x, b) = a

\* compute_p, xor_into: the blocks of a row, each a byte here, one after the other.
XorUpTo(n, bytes) ==
  LET sum[c \in 0..n] == IF c = 0 THEN 0
                         ELSE IF c - 1 \in DOMAIN bytes THEN ByteXor(sum[c - 1], bytes[c - 1])
                         ELSE sum[c - 1]
  IN sum

XorOf(n, bytes) == XorUpTo(n, bytes)[n]

\* compute_q: the blocks weighed by the powers of the generator.
WeighedXorOf(n, bytes, index) ==
  XorOf(n, [c \in DOMAIN bytes |-> GfMul(GfPow(index[c]), bytes[c])])

(*------------------------------- Opening ---------------------------------*)
\* 2^64 modulo n: what an unsigned subtraction below zero starts from.
WordModulo(n) == LET quarter == 65536 % n IN (quarter * quarter * quarter * quarter) % n

Tolerates(level, lost) ==
  CASE level = "Raid5" -> lost <= 1
    [] level = "Raid6" -> lost <= 2
    [] level \in {"Raid0", "Jbod"} -> lost = 0
    [] OTHER -> TRUE

\* RaidSource::open refuses what it cannot read.  config.members is a sequence
\* of members, NoMember where one is missing.
Opens(config) ==
  /\ config.members # <<>>
  /\ config.stripe > 0
  /\ Tolerates(config.level, Cardinality({i \in DOMAIN config.members : config.members[i] = NoMember}))

\* Where the data of each member begins in a concatenation, and where the last ends.
Begins(n, sizes) ==
  LET before[i \in 0..n] == IF i = 0 THEN 0 ELSE before[i - 1] + sizes[i]
  IN before

\* The rest of RaidSource::open: a missing member takes the size of the largest
\* present one.
OpenSource(config) ==
  LET n == Len(config.members)
      present == {i \in 1..n : config.members[i] # NoMember}
      found == [i \in present |-> Max({0, Len(config.members[i]) - config.offset})]
      largest == Max(Range(found) \cup {0})
      sizes == [i \in 1..n |-> IF i \in present THEN found[i] ELSE largest]
      lowest == Min(Range(sizes))
      Times(parities) == lowest * Max({0, n - parities})
  IN [config |-> config, n |-> n, sizes |-> sizes,
      logical |-> CASE config.level = "Raid0" -> Times(0)
                    [] config.level = "Raid1" -> lowest
                    [] config.level = "Raid5" -> Times(1)
                    [] config.level = "Raid6" -> Times(2)
                    [] config.level = "Jbod" -> Begins(n, sizes)[n]]

(*------------------------------- Layout ----------------------------------*)
ParityColumn(n, row) == (n - 1 - (row % n)) % n

\* (n - 2 - row % n) % n on unsigned words: in the last row of a rotation the
\* subtraction goes below zero and the remainder is taken of 2^64 - 1.
SecondParityColumn(n, row) ==
  IF row % n <= n - 2 THEN n - 2 - (row % n) ELSE (WordModulo(n) + n - 1) % n

\* The bug of stepping over a parity column one too late.
SkipParityLate(column, parity) == IF column > parity THEN column + 1 ELSE column

\* Stepping over the parity columns, the lower one first.
SkipParity(column, parity) == IF column >= parity THEN column + 1 ELSE column

Raid6Column(n, column, row) ==
  LET parities == {ParityColumn(n, row), SecondParityColumn(n, row)}
  IN SkipParity(SkipParity(column, Min(parities)), Max(parities)) % n

NoPlace == <<>>

\* translate_offset: <<column, offset in the member>>.
Translate(source, at) ==
  LET n == source.n
      stripe == source.config.stripe
      level == source.config.level
      within == at % stripe
      Row(columns) == at \div (stripe * columns)
      Column(columns) == (at % (stripe * columns)) \div stripe
      Placed(column, row) == <<column, row * stripe + within + source.config.offset>>
      before == Begins(n, source.sizes)
      holders == {i \in 1..n : at < before[i]}
  IN CASE level = "Raid0" -> Placed((at \div stripe) % n, (at \div stripe) \div n)
       [] level = "Raid1" -> <<0, at + source.config.offset>>
       [] level = "Raid5" ->
            IF n < 3 THEN NoPlace
            ELSE Placed(SkipParity(Column(n - 1), ParityColumn(n, Row(n - 1))) % n, Row(n - 1))
       [] level = "Raid6" ->
            IF n < 4 THEN NoPlace
            ELSE Placed(Raid6Column(n, Column(n - 2), Row(n - 2)), Row(n - 2))
       [] level = "Jbod" ->
            IF holders = {} THEN NoPlace
            ELSE <<Min(holders) - 1, at - before[Min(holders) - 1] + source.config.offset>>

(*---------------------------- Reconstruction -----------------------------*)
MemberAt(source, column) == source.config.members[column + 1]

\* read_member_chunk: past the end of a member a zero is read.
ByteOrZero(source, column, offset) ==
  IF offset < Len(MemberAt(source, column)) THEN MemberAt(source, column)[offset + 1] ELSE 0

\* raid6_row_layout: the data columns of a row, numbered from the left.
DataIndex(n, p, q, column) == Cardinality({c \in 0..column - 1 : c \notin {p, q}})

\* The two unknowns of a RAID 6 row with parity in p and q that lost two members:
\* "left" is what the known data leaves of the first parity, "weighed" of the second.
SolvedFor(lost, other, p, q, left, weighed, x, y) ==
  CASE lost \in {p, q} -> RaidFailed
    [] other = p /\ p = q -> RaidFailed
    [] other = p /\ p # q -> GfDiv(weighed, x)
    [] other = q /\ p # q -> left
    [] OTHER -> IF x = y \/ p = q THEN RaidFailed
                ELSE GfDiv(ByteXor(weighed, GfMul(y, left)), ByteXor(x, y))

SolvedInRow(source, lost, other, offset, p, q) ==
  LET known == [c \in (0..source.n - 1) \ {lost, other, p, q} |-> ByteOrZero(source, c, offset)]
      index == [c \in 0..source.n - 1 |-> DataIndex(source.n, p, q, c)]
  IN SolvedFor(lost, other, p, q,
               ByteXor(ByteOrZero(source, p, offset), XorOf(source.n, known)),
               ByteXor(ByteOrZero(source, q, offset), WeighedXorOf(source.n, known, index)),
               GfPow(index[lost]), GfPow(index[other]))

\* reconstruct_block: with one loss every other member is xored together.
Reconstructed(source, lost, offset) ==
  LET others == (0..source.n - 1) \ {lost}
      gone == {c \in others : MemberAt(source, c) = NoMember}
  IN CASE gone = {} -> XorOf(source.n, [c \in others |-> ByteOrZero(source, c, offset)])
       [] Cardinality(gone) = 1 /\ source.config.level = "Raid6" ->
            LET row == (offset - source.config.offset) \div source.config.stripe
            IN SolvedInRow(source, lost, CHOOSE c \in gone : TRUE, offset,
                           ParityColumn(source.n, row), SecondParityColumn(source.n, row))
       [] OTHER -> RaidFailed

(*-------------------------------- Reading --------------------------------*)
ByteAtPlace(source, place) ==
  CASE place = NoPlace -> RaidFailed
    [] place # NoPlace ->
         IF MemberAt(source, place[1]) = NoMember THEN Reconstructed(source, place[1], place[2])
         ELSE IF place[2] >= Len(MemberAt(source, place[1])) THEN EndOfMember
         ELSE MemberAt(source, place[1])[place[2] + 1]

ByteAt(source, at) == ByteAtPlace(source, Translate(source, at))

\* What a read of these bytes gives: those before the first place where a member
\* ends early.
UpToTheEnd(bytes) ==
  LET last == Min({i - 1 : i \in {i \in DOMAIN bytes : bytes[i] = EndOfMember}} \cup {Len(bytes)})
  IN IF \E i \in 1..last : bytes[i] = RaidFailed THEN NoRaidImage ELSE RaidImage(SubSeq(bytes, 1, last))

\* Seek::seek to a position from the start, then Read::read: bytes up to the
\* logical end, or to the first place where a member ends early.
ReadFrom(source, position, length) ==
  LET start == Min({position, source.logical})
  IN UpToTheEnd([i \in 1..Min({length, source.logical - start}) |-> ByteAt(source, start + i - 1)])

\* materialize_raid_image: an image shorter than the array is an error.
Complete(copied, length) == IF copied.ok /\ Len(copied.bytes) = length THEN copied ELSE NoRaidImage

MaterializedSource(source) == Complete(ReadFrom(source, 0, source.logical), source.logical)

Materialized(config) == IF Opens(config) THEN MaterializedSource(OpenSource(config)) ELSE NoRaidImage

(*-------------------------------- Building -------------------------------*)
\* A disk is [md |-> its superblock, bytes |-> ...]; the superblock of one
\* member is [level, stripe, count, version].
NoSuperblock == [level |-> "none", stripe |-> 0, count |-> 0, version |-> "none"]

\* detect_raid_metadata: the data offset is a constant of the version.
DataOffset(md, headerCells) == IF md.version = "0.90" THEN 0 ELSE headerCells

\* scan_multi_disk_raid_candidates, the cluster that holds the selected disk: the
\* disks with the same superblock, in the order they were listed.  A cluster of
\* one disk is no candidate.
MembersAlike(disks, selected) ==
  LET md == disks[selected].md
      alike == {i \in DOMAIN disks : disks[i].md = md}
  IN IF md = NoSuperblock THEN <<>> ELSE Ranked(alike, {p \in alike \X alike : p[1] < p[2]})

\* validate_raid_build_configuration.  slots: the number of a disk, or EmptySlot.
Validated(level, expected, slots, stripe, unusualOffset) ==
  LET lost == {i \in DOMAIN slots : slots[i] = EmptySlot}
      twice == \E i, j \in DOMAIN slots \ lost : i # j /\ slots[i] = slots[j]
      sound == ~twice /\ stripe > 0 /\ Len(slots) = expected
      quiet == sound /\ Cardinality(lost) < Len(slots) /\ ~unusualOffset
      most == CASE level \in {"Raid0", "Jbod"} -> 0
                [] level = "Raid1" -> expected - 1
                [] level = "Raid5" -> 1
                [] level = "Raid6" -> 2
  IN IF Cardinality(lost) > most THEN "unsupported"
     ELSE IF lost = {} THEN (IF quiet THEN "supported" ELSE "refused")
     ELSE (IF sound THEN "degraded" ELSE "refused")

\* resolve_raid_build_config without a request: every member as it was listed.
ListedRequest(md, members, headerCells) ==
  [level |-> md.level, slots |-> members,
   stripe |-> md.stripe, offset |-> DataOffset(md, headerCells)]

\* resolve_raid_build_config: the members in the order of the slots.
ResolvedConfig(disks, request) ==
  [level |-> request.level, stripe |-> request.stripe, offset |-> request.offset,
   members |-> [i \in DOMAIN request.slots |->
                  IF request.slots[i] = EmptySlot THEN NoMember
                  ELSE disks[request.slots[i]].bytes]]

\* build_raid_analysis_image, with the request of the dialog.
BuiltImage(disks, selected, request) ==
  LET expected == disks[selected].md.count
  IN IF /\ Len(MembersAlike(disks, selected)) >= 2
        /\ Validated(request.level, expected, request.slots, request.stripe, FALSE)
             \in {"supported", "degraded"}
     THEN Materialized(ResolvedConfig(disks, request)) ELSE NoRaidImage

\* The same command without one: only a complete candidate is built.
BuiltAsListed(disks, selected, headerCells) ==
  LET members == MembersAlike(disks, selected)
      md == disks[selected].md
  IN IF Len(members) >= 2 /\ Len(members) = md.count
     THEN Materialized(ResolvedConfig(disks, ListedRequest(md, members, headerCells)))
     ELSE NoRaidImage

(*------------------------------ Its promise ------------------------------*)
\* What the exclusive-or is: bit by bit, of bytes and of what doubling makes of one.
Byte == 0..255

IsExclusiveOr ==
  \A a, b \in 0..511 :
    ByteXor(a, b) = IF a = 0 /\ b = 0 THEN 0 ELSE 2 * ByteXor(a \div 2, b \div 2) + ((a + b) % 2)

\* An array as the system that owned it wrote it: [level, n, stripe, offset,
\* data], the parity of row r in column n - 1 - r (mod n), the second parity to
\* its left, the data in the other columns from left to right.
ParityColumns(array, row) ==
  CASE array.level = "Raid5" -> {(array.n * (row + 1) - 1 - row) % array.n}
    [] array.level = "Raid6" -> {(array.n * (row + 2) - k - row) % array.n : k \in {1, 2}}
    [] OTHER -> {}

DataColumns(array, row) == (0..array.n - 1) \ ParityColumns(array, row)

\* The data columns to the left of one.
IndexIn(array, column, row) == Cardinality((0..column - 1) \ ParityColumns(array, row))

\* What a row holds besides parity, and what is in one piece on a member.
Width(array) ==
  CASE array.level = "Raid5" -> array.n - 1
    [] array.level = "Raid6" -> array.n - 2
    [] array.level = "Raid1" -> 1
    [] OTHER -> array.n

Unit(array) == IF array.level \in {"Raid1", "Jbod"} THEN 1 ELSE array.stripe

\* An array of whole rows.  The members of a RAID 6 array are as many as the code
\* finds the second parity of in every row, 4, 8, 16 and so on.
IsArray(array) ==
  /\ array.level \in {"Raid0", "Raid1", "Raid5", "Raid6", "Jbod"}
  /\ array.n \in Nat /\ array.n >= 2 /\ array.stripe \in Nat \ {0} /\ array.offset \in Nat
  /\ array.level = "Raid5" => array.n >= 3
  /\ array.level = "Raid6" => array.n \in 4..256 /\ WordModulo(array.n) = 0
  /\ array.data \in Seq(Byte) /\ array.data # <<>> /\ Len(array.data) % (Width(array) * Unit(array)) = 0

\* The cell of a data column at an offset, and of any column.
DataCell(array, column, at) ==
  LET row == at \div array.stripe
      width == array.n - Cardinality(ParityColumns(array, 0))
  IN array.data[(row * width + IndexIn(array, column, row)) * array.stripe + (at % array.stripe) + 1]

CellOf(array, column, at) ==
  LET row == at \div array.stripe
      block == [c \in DataColumns(array, row) |-> DataCell(array, c, at)]
  IN IF column \notin ParityColumns(array, row) THEN DataCell(array, column, at)
     ELSE IF column = (array.n * (row + 1) - 1 - row) % array.n THEN XorOf(array.n, block)
     ELSE WeighedXorOf(array.n, block, [c \in DOMAIN block |-> IndexIn(array, c, row)])

Written(array, column) ==
  LET size == Len(array.data) \div (array.n - Cardinality(ParityColumns(array, 0)))
  IN [i \in 1..array.offset |-> 0]
     \o (CASE array.level = "Raid1" -> array.data
           [] array.level = "Jbod" -> SubSeq(array.data, column * size + 1, (column + 1) * size)
           [] OTHER -> [i \in 1..size |-> CellOf(array, column, i - 1)])

\* The disks of an array, each with its superblock.
DisksOf(array, members) ==
  [i \in 1..array.n |->
     [md |-> [level |-> array.level, stripe |-> array.stripe, count |-> array.n, version |-> "1"],
      bytes |-> members[i]]]

\* An array whose members were lost as "lost" says builds back to what it held, a
\* complete one also without a request, and reading it two bytes at a time gives what one read gives.
ReadsInPieces(source, data) ==
  \A position \in 0..source.logical :
    ReadFrom(source, position, 2).bytes = SubSeq(data, position + 1, Min({position + 2, source.logical}))

BuildsBack(array, members, lost) ==
  LET request == [level |-> array.level, stripe |-> array.stripe, offset |-> array.offset,
                  slots |-> [i \in 1..array.n |-> IF i \in lost THEN EmptySlot ELSE i]]
      disks == DisksOf(array, members)
  IN /\ lost = {} => BuiltAsListed(disks, 1, array.offset) = RaidImage(array.data)
     /\ BuiltImage(disks, CHOOSE i \in 1..array.n : i \notin lost, request) = RaidImage(array.data)
     /\ ReadsInPieces(OpenSource(ResolvedConfig(disks, request)), array.data)

\* What the dialog calls a degraded build that works.
Degraded(array, lost) ==
  Validated(array.level, array.n, [i \in 1..array.n |-> IF i \in lost THEN EmptySlot ELSE i],
            array.stripe, FALSE) = "degraded"
=============================================================================
