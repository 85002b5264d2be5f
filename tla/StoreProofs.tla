---------------------------- MODULE StoreProofs -----------------------------
(***************************************************************************)
(* Theorems about what the program keeps and fetches, wherever those who   *)
(* write it fail: the archive of the sessions, for any sessions, threads   *)
(* and limit; the audit trail, for any number of records, runs of the      *)
(* process and kinds of event; the registry of remote agents, for any      *)
(* agents and any number of operations; the pull of a file from one, for   *)
(* any number of requests; imported containers, for any of them and any    *)
(* number of writes to them; and the filesystem memory, for any number of  *)
(* saves of its policy and any command, scheduler and target.              *)
(***************************************************************************)
EXTENDS HistoryArchive, AuditChain, RemoteRegistry, RemotePull, ImportedSources,
        MemoryScheduler, MemoryStore, ListLemmas

(* The archive of the sessions.                                            *)

ArchiveSpec == ArchiveInit /\ [][ArchiveNext]_archiveVars

Recs == [id : Nat, status : Statuses \cup {"none"}, logs : {"kept", "none"}]

Contents == [form : {"blank", "torn", "doc", "legacy"}, doc : Seq(Recs)]

Disks == [file : Inodes \cup {0}, tmp : Inodes \cup {0}, data : [Inodes -> Contents]]

Cycles == [pc : {"idle", "taken", "loaded", "opened", "filled", "counted"},
           rec : Recs, doc : Seq(Recs), inode : Inodes \cup {0}]

WellFormed(doc) ==
  /\ doc \in Seq(Recs)
  /\ Len(doc) <= MaxRecords
  /\ \A i, j \in 1..Len(doc) : i < j => doc[i].id > doc[j].id

-------------------------------------------------------------------------------
(* Sorting and truncating.                                                 *)

LEMMA SortedIsWellFormed ==
    ASSUME NEW doc \in Seq(Recs),
           \A i, j \in 1..Len(doc) : i # j => doc[i].id # doc[j].id
    PROVE  WellFormed(Truncated(NewestFirst(doc)))
<1> DEFINE n == Len(doc)
           key == [i \in 1..n |-> -doc[i].id]
           sorted == NewestFirst(doc)
           short == Min({MaxRecords, n})
<1>1. n \in Nat /\ DOMAIN doc = 1..n /\ MaxRecords \in Nat /\ MaxRecords > 0
  BY ArchiveAssumption
<1>2. \A i \in 1..n : doc[i].id \in Nat
  <2>1. \A i \in 1..n : doc[i] \in Recs
    OBVIOUS
  <2>2. \A rec \in Recs : rec.id \in Nat
    BY DEF Recs
  <2> QED
    BY <2>1, <2>2
<1>3. key \in [1..n -> Int] /\ \A i \in 1..n : key[i] = -doc[i].id
  BY <1>2
<1>4. sorted = SortedBy(doc, key)
  BY <1>1 DEF NewestFirst
<1> DEFINE p == Order(key)
<1> HIDE DEF key, sorted, p
<1>5. /\ sorted \in Seq(Recs) /\ Len(sorted) = n
      /\ p \in Bijection(1..n, 1..n) /\ InOrder(p, key)
      /\ \A i \in 1..n : sorted[i] = doc[p[i]]
  BY <1>3, <1>4, SortedIsOrdered DEF p
<1>6. p \in [1..n -> 1..n] /\ \A i, j \in 1..n : i # j => p[i] # p[j]
  BY <1>5 DEF Bijection, Injection, IsInjective
<1>7. \A i, j \in 1..n : i < j => key[p[i]] < key[p[j]] \/ key[p[i]] = key[p[j]]
  <2>1. DOMAIN key = 1..n
    BY <1>3
  <2> QED
    BY <1>5, <2>1, Zenon DEF InOrder
<1>8. \A i, j \in 1..n : i < j => sorted[i].id > sorted[j].id
  <2> SUFFICES ASSUME NEW i \in 1..n, NEW j \in 1..n, i < j PROVE sorted[i].id > sorted[j].id
    OBVIOUS
  <2>1. p[i] \in 1..n /\ p[j] \in 1..n /\ p[i] # p[j]
    BY <1>1, <1>6
  <2>2. key[p[i]] < key[p[j]] \/ key[p[i]] = key[p[j]]
    BY <1>7
  <2>3. doc[p[i]].id \in Nat /\ doc[p[j]].id \in Nat /\ doc[p[i]].id # doc[p[j]].id
    BY <1>2, <2>1
  <2>4. key[p[i]] = -doc[p[i]].id /\ key[p[j]] = -doc[p[j]].id
    BY <1>3, <2>1
  <2>5. doc[p[i]].id > doc[p[j]].id
    BY <2>2, <2>3, <2>4
  <2> QED
    BY <1>5, <2>5
<1>9. short \in Nat /\ short <= n /\ short <= MaxRecords
  <2>1. \E x \in {MaxRecords, n} : \A y \in {MaxRecords, n} : x <= y
    <3>1. MaxRecords <= n \/ n <= MaxRecords
      BY <1>1
    <3> QED
      BY <1>1, <3>1
  <2>2. short \in {MaxRecords, n} /\ \A y \in {MaxRecords, n} : short <= y
    BY <2>1 DEF Min
  <2> HIDE DEF short
  <2> QED
    BY <1>1, <2>2
<1>10. Truncated(sorted) = SubSeq(sorted, 1, short)
  BY <1>5 DEF Truncated
<1> HIDE DEF short, n
<1>11. /\ SubSeq(sorted, 1, short) \in Seq(Recs) /\ Len(SubSeq(sorted, 1, short)) = short
       /\ \A i \in 1..short : SubSeq(sorted, 1, short)[i] = sorted[i] /\ i \in 1..n
  BY <1>1, <1>5, <1>9
<1>12. WellFormed(SubSeq(sorted, 1, short))
  BY <1>8, <1>9, <1>11 DEF WellFormed
<1> QED
  BY <1>10, <1>12 DEF sorted

(* An upsert leaves each session once, newest first, within the limit.     *)
LEMMA UpsertIsWellFormed ==
    ASSUME NEW doc, WellFormed(doc), NEW rec \in Recs
    PROVE  WellFormed(Upserted(doc, rec))
<1> DEFINE n == Len(doc)
           same == {i \in DOMAIN doc : doc[i].id = rec.id}
           with == IF same = {} THEN Append(doc, rec) ELSE [doc EXCEPT ![Min(same)] = rec]
<1>1. n \in Nat /\ DOMAIN doc = 1..n /\ doc \in Seq(Recs)
  BY DEF WellFormed
<1>2. \A i \in 1..n : doc[i].id \in Nat
  <2>1. \A i \in 1..n : doc[i] \in Recs
    BY <1>1
  <2>2. \A r \in Recs : r.id \in Nat
    BY DEF Recs
  <2> QED
    BY <2>1, <2>2
<1>3. \A i, j \in 1..n : i # j => doc[i].id # doc[j].id
  <2> SUFFICES ASSUME NEW i \in 1..n, NEW j \in 1..n, i # j PROVE doc[i].id # doc[j].id
    OBVIOUS
  <2>1. i < j \/ j < i
    BY <1>1
  <2>2. doc[i].id > doc[j].id \/ doc[j].id > doc[i].id
    BY <2>1 DEF WellFormed
  <2> QED
    BY <1>2, <2>2
<1>4. with \in Seq(Recs) /\ \A i, j \in 1..Len(with) : i # j => with[i].id # with[j].id
  <2>1. CASE same = {}
    <3>1. with = Append(doc, rec) /\ \A i \in 1..n : doc[i].id # rec.id
      BY <1>1, <2>1
    <3> HIDE DEF with, same, n
    <3>2. /\ Append(doc, rec) \in Seq(Recs) /\ Len(Append(doc, rec)) = n + 1
          /\ Append(doc, rec)[n + 1] = rec
          /\ \A i \in 1..n : Append(doc, rec)[i] = doc[i]
      BY <1>1 DEF n
    <3>3. \A i \in 1..(n + 1) : i = n + 1 \/ i \in 1..n
      BY <1>1
    <3> QED
      BY <1>3, <3>1, <3>2, <3>3
  <2>2. CASE same # {}
    <3>1. same \in SUBSET Nat
      BY <1>1
    <3>2. \E x \in same : \A y \in same : x <= y
      <4> HIDE DEF same
      <4> QED
        BY <2>2, <3>1, LeastNumber
    <3>3. Min(same) \in same
      BY <3>2 DEF Min
    <3> DEFINE k == Min(same)
    <3>4. k \in 1..n /\ doc[k].id = rec.id
      BY <1>1, <3>3
    <3>5. with = [doc EXCEPT ![k] = rec]
      BY <2>2
    <3> HIDE DEF with, same, n, k
    <3>6. /\ [doc EXCEPT ![k] = rec] \in Seq(Recs) /\ Len([doc EXCEPT ![k] = rec]) = n
          /\ \A i \in 1..n : [doc EXCEPT ![k] = rec][i] = IF i = k THEN rec ELSE doc[i]
      BY <1>1, <3>4 DEF n
    <3> QED
      BY <1>3, <3>4, <3>5, <3>6
  <2> QED
    BY <2>1, <2>2
<1>5. Upserted(doc, rec) = Truncated(NewestFirst(with))
  BY DEF Upserted
<1> HIDE DEF with
<1> QED
  BY <1>4, <1>5, SortedIsWellFormed

LEMMA EmptyIsWellFormed == WellFormed(<<>>)
  BY ArchiveAssumption DEF WellFormed

(* Reading the archive, also in the format that has no logs.               *)
LEMMA LoadedIsWellFormed ==
    ASSUME NEW content \in Contents, WellFormed(content.doc), NEW kind
    PROVE  WellFormed(LoadedArchive(content, kind))
<1> DEFINE doc == content.doc
           bare == [i \in DOMAIN doc |-> [doc[i] EXCEPT !.logs = "none"]]
<1>1. doc \in Seq(Recs) /\ DOMAIN doc = 1..Len(doc) /\ Len(doc) \in Nat
  BY DEF WellFormed
<1>2. \A rec \in Recs : [rec EXCEPT !.logs = "none"] \in Recs /\ [rec EXCEPT !.logs = "none"].id = rec.id
  BY DEF Recs
<1>3. \A i \in 1..Len(doc) : doc[i] \in Recs
  BY <1>1
<1>4. WellFormed(doc)
  OBVIOUS
<1>5. LoadedArchive(content, kind) \in {doc, bare, <<>>}
  BY DEF LoadedArchive
<1> HIDE DEF doc
<1>6. bare \in Seq(Recs) /\ Len(bare) = Len(doc) /\ \A i \in 1..Len(doc) : bare[i].id = doc[i].id
  <2>1. bare = [i \in 1..Len(doc) |-> [doc[i] EXCEPT !.logs = "none"]]
    BY <1>1
  <2> HIDE DEF bare
  <2>2. /\ DOMAIN bare = 1..Len(doc)
        /\ \A i \in 1..Len(doc) : bare[i] = [doc[i] EXCEPT !.logs = "none"]
    BY <2>1
  <2>3. \A i \in 1..Len(doc) : bare[i] \in Recs /\ bare[i].id = doc[i].id
    BY <1>2, <1>3, <2>2
  <2>4. bare \in [1..Len(doc) -> Recs]
    <3> DEFINE bared(i) == [doc[i] EXCEPT !.logs = "none"]
    <3>1. bare = [i \in 1..Len(doc) |-> bared(i)] /\ \A i \in 1..Len(doc) : bared(i) \in Recs
      BY <1>2, <1>3, <2>1
    <3> HIDE DEF bared
    <3> QED
      BY <3>1
  <2> QED
    BY <1>1, <2>3, <2>4
<1> HIDE DEF bare
<1>7. WellFormed(bare)
  BY <1>4, <1>6 DEF WellFormed
<1> QED
  BY <1>4, <1>5, <1>7, EmptyIsWellFormed

-------------------------------------------------------------------------------
(* The disk.                                                               *)

LEMMA DiskParts ==
    ASSUME NEW fs \in Disks
    PROVE  /\ fs.file \in Inodes \cup {0} /\ fs.tmp \in Inodes \cup {0}
           /\ fs.data \in [Inodes -> Contents]
           /\ fs = [file |-> fs.file, tmp |-> fs.tmp, data |-> fs.data]
BY DEF Disks

LEMMA OpenMakes ==
    ASSUME NEW fs \in Disks, NEW i \in Inodes
    PROVE  /\ OpenedTmp(fs, i) \in Disks
           /\ OpenedTmp(fs, i).file = fs.file /\ OpenedTmp(fs, i).tmp = i
           /\ OpenedTmp(fs, i).data = [fs.data EXCEPT ![i] = Blank]
<1>1. Blank \in Contents
  BY DEF Blank, Contents
<1> QED
  BY <1>1 DEF OpenedTmp, Disks

LEMMA FillMakes ==
    ASSUME NEW fs \in Disks, NEW i \in Inodes, NEW c \in Contents
    PROVE  /\ [fs EXCEPT !.data[i] = c] \in Disks
           /\ [fs EXCEPT !.data[i] = c].file = fs.file
           /\ [fs EXCEPT !.data[i] = c].tmp = fs.tmp
           /\ [fs EXCEPT !.data[i] = c].data = [fs.data EXCEPT ![i] = c]
BY DEF Disks

LEMMA RenameMakes ==
    ASSUME NEW fs \in Disks
    PROVE  /\ RenamedTmp(fs) \in Disks /\ RenamedTmp(fs).file = fs.tmp /\ RenamedTmp(fs).tmp = 0
           /\ \A i \in Inodes : RenamedTmp(fs).data[i] = IF i = fs.file THEN Blank ELSE fs.data[i]
<1>1. Blank \in Contents
  BY DEF Blank, Contents
<1>2. [i \in Inodes |-> IF i = fs.file THEN Blank ELSE fs.data[i]] \in [Inodes -> Contents]
  BY <1>1 DEF Disks
<1> QED
  BY <1>2 DEF RenamedTmp, Disks

LEMMA DeleteMakes ==
    ASSUME NEW fs \in Disks
    PROVE  /\ Deleted(fs) \in Disks /\ Deleted(fs).file = 0 /\ Deleted(fs).tmp = fs.tmp
           /\ \A i \in Inodes : Deleted(fs).data[i] = IF i = fs.file THEN Blank ELSE fs.data[i]
<1> DEFINE data == [i \in Inodes |-> IF i = fs.file THEN Blank ELSE fs.data[i]]
<1>1. Blank \in Contents
  BY DEF Blank, Contents
<1>2. data \in [Inodes -> Contents]
  BY <1>1 DEF Disks
<1>3. \A i \in Inodes : data[i] = IF i = fs.file THEN Blank ELSE fs.data[i]
  OBVIOUS
<1>4. Deleted(fs) = [fs EXCEPT !.file = 0, !.data = data]
  BY DEF Deleted
<1> HIDE DEF data
<1> QED
  BY <1>2, <1>3, <1>4 DEF Disks

-------------------------------------------------------------------------------
(* The cycles of the threads.                                              *)

Pcs == {"idle", "taken", "loaded", "opened", "filled", "counted"}

(* Only the cycle of t is another one afterwards.                          *)
OnlyCycleOf(t) ==
  /\ cycle' \in [ArchiveThreads -> Cycles]
  /\ \A u \in ArchiveThreads \ {t} : cycle'[u] = cycle[u]

LEMMA CyclePcMoves ==
    ASSUME NEW c \in [ArchiveThreads -> Cycles], NEW t \in ArchiveThreads, NEW pc \in Pcs,
           NEW new, new = [c EXCEPT ![t].pc = pc]
    PROVE  /\ new \in [ArchiveThreads -> Cycles]
           /\ new[t].pc = pc /\ new[t].rec = c[t].rec /\ new[t].doc = c[t].doc
           /\ new[t].inode = c[t].inode
           /\ \A u \in ArchiveThreads \ {t} : new[u] = c[u]
<1>1. c[t] \in Cycles
  OBVIOUS
<1>2. new = [c EXCEPT ![t] = [c[t] EXCEPT !.pc = pc]]
  OBVIOUS
<1>3. [c[t] EXCEPT !.pc = pc] \in Cycles
  BY <1>1 DEF Cycles, Pcs
<1>4. /\ [c[t] EXCEPT !.pc = pc].pc = pc /\ [c[t] EXCEPT !.pc = pc].rec = c[t].rec
      /\ [c[t] EXCEPT !.pc = pc].doc = c[t].doc /\ [c[t] EXCEPT !.pc = pc].inode = c[t].inode
  BY <1>1 DEF Cycles
<1> DEFINE r == [c[t] EXCEPT !.pc = pc]
<1> HIDE DEF r
<1> QED
  BY <1>2, <1>3, <1>4 DEF r

LEMMA CycleDocMoves ==
    ASSUME cycle \in [ArchiveThreads -> Cycles], NEW t \in ArchiveThreads, NEW d \in Seq(Recs),
           cycle' = [cycle EXCEPT ![t].pc = "loaded", ![t].doc = d]
    PROVE  /\ OnlyCycleOf(t)
           /\ cycle'[t].pc = "loaded" /\ cycle'[t].rec = cycle[t].rec
           /\ cycle'[t].doc = d /\ cycle'[t].inode = cycle[t].inode
<1> DEFINE r == [cycle[t] EXCEPT !.pc = "loaded", !.doc = d]
<1>1. cycle[t] \in Cycles
  OBVIOUS
<1>2. r \in Cycles
  BY <1>1 DEF Cycles
<1>3. r.pc = "loaded" /\ r.rec = cycle[t].rec /\ r.doc = d /\ r.inode = cycle[t].inode
  BY <1>1 DEF Cycles
<1>4. cycle' = [cycle EXCEPT ![t] = r]
  OBVIOUS
<1> HIDE DEF r
<1> QED
  BY <1>2, <1>3, <1>4 DEF OnlyCycleOf

LEMMA CycleInodeMoves ==
    ASSUME cycle \in [ArchiveThreads -> Cycles], NEW t \in ArchiveThreads, NEW i \in Inodes,
           cycle' = [cycle EXCEPT ![t].pc = "opened", ![t].inode = i]
    PROVE  /\ OnlyCycleOf(t)
           /\ cycle'[t].pc = "opened" /\ cycle'[t].rec = cycle[t].rec
           /\ cycle'[t].inode = i /\ cycle'[t].doc = cycle[t].doc
<1> DEFINE r == [cycle[t] EXCEPT !.pc = "opened", !.inode = i]
<1>1. cycle[t] \in Cycles
  OBVIOUS
<1>2. r \in Cycles
  BY <1>1 DEF Cycles
<1>3. r.pc = "opened" /\ r.rec = cycle[t].rec /\ r.inode = i /\ r.doc = cycle[t].doc
  BY <1>1 DEF Cycles
<1>4. cycle' = [cycle EXCEPT ![t] = r]
  OBVIOUS
<1> HIDE DEF r
<1> QED
  BY <1>2, <1>3, <1>4 DEF OnlyCycleOf

LEMMA NoCycleParts ==
  /\ NoCycle \in Cycles /\ NoCycle.pc = "idle" /\ NoCycle.inode = 0
  /\ [NoCycle EXCEPT !.pc = "counted"] \in Cycles
  /\ [NoCycle EXCEPT !.pc = "counted"].pc = "counted"
  /\ [NoCycle EXCEPT !.pc = "counted"].inode = 0
  /\ \A rec \in Recs :
       /\ [NoCycle EXCEPT !.pc = "taken", !.rec = rec] \in Cycles
       /\ [NoCycle EXCEPT !.pc = "taken", !.rec = rec].pc = "taken"
       /\ [NoCycle EXCEPT !.pc = "taken", !.rec = rec].inode = 0
<1>1. Record(0, "none") \in Recs /\ <<>> \in Seq(Recs)
  BY DEF Record, Recs
<1>2. NoCycle \in Cycles /\ NoCycle.pc = "idle" /\ NoCycle.inode = 0
  BY <1>1 DEF NoCycle, Cycles
<1> QED
  BY <1>2 DEF Cycles

-------------------------------------------------------------------------------

ArchiveTypeOK ==
  /\ disk \in Disks
  /\ cycle \in [ArchiveThreads -> Cycles]
  /\ overlapped \in BOOLEAN

Writing(t) == cycle[t].pc \in {"loaded", "opened", "filled"}

(* Every document anywhere, on an inode or in a thread, is well formed; a  *)
(* thread holds an inode exactly while it has the temporary file open; and *)
(* the temporary name is never another name of the archive.                *)
ArchiveInv ==
  /\ ArchiveTypeOK
  /\ \A i \in Inodes : WellFormed(disk.data[i].doc)
  /\ \A t \in ArchiveThreads :
       /\ Writing(t) => WellFormed(cycle[t].doc)
       /\ cycle[t].inode # 0 <=> cycle[t].pc \in {"opened", "filled"}
  /\ disk.tmp # 0 => disk.tmp # disk.file

(* One cycle at a time: it works on what the completed ones made of the    *)
(* archive, and the temporary file is its own.                             *)
SerialInv ==
  ~overlapped =>
    /\ LoadedArchive(Readable(disk), archiveKind) = expected
    /\ \A t, u \in ArchiveThreads : Busy(t) /\ Busy(u) => t = u
    /\ \A t \in ArchiveThreads :
         /\ Writing(t) => cycle[t].doc = Upserted(expected, cycle[t].rec)
         /\ cycle[t].pc \in {"opened", "filled"} => cycle[t].inode = disk.tmp
         /\ cycle[t].pc = "opened" => disk.data[disk.tmp] = Blank
         /\ cycle[t].pc = "filled" => disk.data[disk.tmp] = Whole(cycle[t].doc)

(* There is an inode for the temporary file: the other threads and the     *)
(* archive do not have them all.                                           *)
LEMMA InodeIsFree ==
    ASSUME ArchiveInv, NEW t \in ArchiveThreads, cycle[t].inode = 0
    PROVE  /\ TmpInode(disk, Held) \in Inodes /\ TmpInode(disk, Held) # disk.file
           /\ disk.tmp # 0 => TmpInode(disk, Held) = disk.tmp
<1>1. /\ disk.file \in Inodes \cup {0} /\ disk.tmp \in Inodes \cup {0}
      /\ \A u \in ArchiveThreads : cycle[u].inode \in Inodes \cup {0}
      /\ disk.tmp # 0 => disk.tmp # disk.file
  BY DiskParts DEF ArchiveInv, ArchiveTypeOK, Cycles
<1>2. CASE disk.tmp # 0
  BY <1>1, <1>2 DEF TmpInode
<1>3. CASE disk.tmp = 0
  <2> DEFINE used == [u \in ArchiveThreads |-> IF u = t THEN disk.file ELSE cycle[u].inode]
             image == {used[u] : u \in ArchiveThreads}
  <2>1. used \in Surjection(ArchiveThreads, image)
    <3>1. used \in [ArchiveThreads -> image]
      OBVIOUS
    <3>2. \A v \in image : \E u \in ArchiveThreads : used[u] = v
      OBVIOUS
    <3> HIDE DEF used, image
    <3> QED
      BY <3>1, <3>2 DEF Surjection
  <2>2. Held \cup {disk.file} \subseteq image
    BY DEF Held
  <2> HIDE DEF used, image
  <2>3. IsFiniteSet(image) /\ Cardinality(image) <= Cardinality(ArchiveThreads)
    BY <2>1, ArchiveAssumption, FS_Surjection
  <2>4. ~(Inodes \subseteq image)
    <3> SUFFICES ASSUME Inodes \subseteq image PROVE FALSE
      OBVIOUS
    <3>1. Cardinality(Inodes) <= Cardinality(image)
      BY <2>3, FS_Subset
    <3>2. /\ Cardinality(Inodes) \in Nat /\ Cardinality(image) \in Nat
          /\ Cardinality(ArchiveThreads) \in Nat
      BY <2>3, InodesAssumption, ArchiveAssumption, FS_CardinalityType
    <3>3. Cardinality(ArchiveThreads) < Cardinality(Inodes)
      BY ArchiveAssumption
    <3> QED
      BY <2>3, <3>1, <3>2, <3>3
  <2>5. PICK i \in Inodes : i \notin Held \cup {disk.file}
    BY <2>2, <2>4
  <2>6. TmpInode(disk, Held) \in Inodes /\ TmpInode(disk, Held) \notin Held \cup {disk.file}
    BY <1>3, <2>5 DEF TmpInode
  <2> QED
    BY <1>3, <2>6
<1> QED
  BY <1>2, <1>3

-------------------------------------------------------------------------------
(* The first state.                                                        *)

LEMMA ArchiveStarts == ArchiveInit => ArchiveInv /\ SerialInv
<1> SUFFICES ASSUME ArchiveInit PROVE ArchiveInv /\ SerialInv
  OBVIOUS
<1>1. Min(ArchiveSessions) \in Nat
  <2>1. \E x \in ArchiveSessions : \A y \in ArchiveSessions : x <= y
    <3>1. ArchiveSessions \in SUBSET Nat /\ ArchiveSessions # {}
      BY ArchiveAssumption
    <3> QED
      BY <3>1, LeastNumber
  <2> QED
    BY <2>1, ArchiveAssumption DEF Min
<1>2. Earlier \in Seq(Recs) /\ WellFormed(Earlier)
  <2>1. Record(Min(ArchiveSessions), "running") \in Recs
    BY <1>1 DEF Record, Recs, Statuses
  <2> DEFINE rec == Record(Min(ArchiveSessions), "running")
  <2>2. Earlier = <<rec>>
    BY DEF Earlier
  <2> HIDE DEF rec
  <2>3. <<rec>> \in Seq(Recs) /\ Len(<<rec>>) = 1
    BY <2>1 DEF rec
  <2> QED
    BY <2>2, <2>3, ArchiveAssumption DEF WellFormed
<1>3. /\ Blank \in Contents /\ WellFormed(Blank.doc)
      /\ Torn \in Contents /\ WellFormed(Torn.doc)
      /\ Whole(Earlier) \in Contents /\ WellFormed(Whole(Earlier).doc)
      /\ [form |-> "legacy", doc |-> Earlier] \in Contents
  BY <1>2, EmptyIsWellFormed DEF Blank, Torn, Whole, Contents
<1>4. \A c \in Contents : WellFormed(c.doc) =>
         /\ DiskWith(c) \in Disks /\ DiskWith(c).tmp = 0
         /\ \A i \in Inodes : WellFormed(DiskWith(c).data[i].doc)
  <2> SUFFICES ASSUME NEW c \in Contents, WellFormed(c.doc)
               PROVE  /\ DiskWith(c) \in Disks /\ DiskWith(c).tmp = 0
                      /\ \A i \in Inodes : WellFormed(DiskWith(c).data[i].doc)
    OBVIOUS
  <2> DEFINE data == [i \in Inodes |-> IF i = 1 THEN c ELSE Blank]
  <2>1. DiskWith(c) = [file |-> 1, tmp |-> 0, data |-> data]
    BY DEF DiskWith
  <2>2. data \in [Inodes -> Contents] /\ \A i \in Inodes : WellFormed(data[i].doc)
    BY <1>3
  <2> HIDE DEF data
  <2> QED
    BY <2>1, <2>2, InodesAssumption DEF Disks
<1>5. /\ NoDisk \in Disks /\ NoDisk.tmp = 0
      /\ \A i \in Inodes : WellFormed(NoDisk.data[i].doc)
  <2> DEFINE data == [i \in Inodes |-> Blank]
  <2>1. NoDisk = [file |-> 0, tmp |-> 0, data |-> data]
    BY DEF NoDisk
  <2>2. data \in [Inodes -> Contents] /\ \A i \in Inodes : WellFormed(data[i].doc)
    BY <1>3
  <2> HIDE DEF data
  <2> QED
    BY <2>1, <2>2 DEF Disks
<1>6. disk \in Disks /\ disk.tmp = 0 /\ \A i \in Inodes : WellFormed(disk.data[i].doc)
  <2>1. disk = NoDisk \/ \E c \in {Torn, Whole(Earlier), [form |-> "legacy", doc |-> Earlier]} :
                            disk = DiskWith(c)
    BY DEF ArchiveInit
  <2>2. \A c \in {Torn, Whole(Earlier), [form |-> "legacy", doc |-> Earlier]} :
          c \in Contents /\ WellFormed(c.doc)
    BY <1>2, <1>3
  <2> QED
    BY <1>4, <1>5, <2>1, <2>2
<1>7. /\ cycle \in [ArchiveThreads -> Cycles]
      /\ \A t \in ArchiveThreads : cycle[t].pc = "idle" /\ cycle[t].inode = 0
      /\ overlapped = FALSE /\ expected = LoadedArchive(Readable(disk), archiveKind)
  BY NoCycleParts DEF ArchiveInit
<1> QED
  BY <1>6, <1>7 DEF ArchiveInv, ArchiveTypeOK, SerialInv, Writing, Busy

-------------------------------------------------------------------------------
(* What is read.                                                           *)

LEMMA ReadIsWellFormed ==
    ASSUME ArchiveInv
    PROVE  /\ Readable(disk) \in Contents /\ WellFormed(Readable(disk).doc)
           /\ WellFormed(LoadedArchive(Readable(disk), archiveKind))
<1>1. Readable(disk) \in Contents /\ WellFormed(Readable(disk).doc)
  <2>1. Blank \in Contents /\ WellFormed(Blank.doc)
    BY EmptyIsWellFormed DEF Blank, Contents
  <2>2. /\ disk.file \in Inodes \cup {0} /\ disk.data \in [Inodes -> Contents]
        /\ \A i \in Inodes : WellFormed(disk.data[i].doc)
    BY DiskParts DEF ArchiveInv, ArchiveTypeOK
  <2> QED
    BY <2>1, <2>2 DEF Readable
<1> QED
  BY <1>1, LoadedIsWellFormed

LEMMA SameFileIsRead ==
    ASSUME NEW a, NEW b, a.file = b.file, a.file # 0 => a.data[a.file] = b.data[b.file]
    PROVE  Readable(a) = Readable(b)
BY DEF Readable

-------------------------------------------------------------------------------
(* One step of one thread.                                                 *)

LEMMA EnterKeeps ==
    ASSUME ArchiveInv, SerialInv, NEW t \in ArchiveThreads, NEW state \in Cycles,
           state.pc \in {"taken", "counted"}, state.inode = 0,
           Enter(t, state), UNCHANGED <<archiveKind, disk, expected>>
    PROVE  ArchiveInv' /\ SerialInv'
<1>1. /\ cycle \in [ArchiveThreads -> Cycles] /\ cycle' = [cycle EXCEPT ![t] = state]
      /\ overlapped' = (overlapped \/ \E u \in ArchiveThreads : Busy(u))
      /\ disk \in Disks /\ overlapped \in BOOLEAN
  BY DEF ArchiveInv, ArchiveTypeOK, Enter
<1>2. OnlyCycleOf(t) /\ cycle'[t] = state
  BY <1>1 DEF OnlyCycleOf
<1>3. overlapped' \in BOOLEAN
  BY <1>1
<1>4. ArchiveInv'
  BY <1>1, <1>2, <1>3 DEF ArchiveInv, ArchiveTypeOK, Writing, OnlyCycleOf
<1>5. ASSUME ~overlapped'
      PROVE  ~overlapped /\ \A u \in ArchiveThreads : ~Busy(u)
  BY <1>1, <1>5
<1>6. SerialInv'
  BY <1>1, <1>2, <1>5 DEF SerialInv, Writing, OnlyCycleOf, Busy
<1> QED
  BY <1>4, <1>6

LEMMA LoadKeeps ==
    ASSUME ArchiveInv, SerialInv, NEW t \in ArchiveThreads, LoadArchive(t)
    PROVE  ArchiveInv' /\ SerialInv'
<1> DEFINE doc == Upserted(LoadedArchive(Readable(disk), archiveKind), cycle[t].rec)
<1>1. cycle \in [ArchiveThreads -> Cycles] /\ cycle[t].rec \in Recs /\ cycle[t].pc = "taken"
  BY DEF ArchiveInv, ArchiveTypeOK, LoadArchive, Cycles
<1>2. WellFormed(doc) /\ doc \in Seq(Recs)
  BY <1>1, ReadIsWellFormed, UpsertIsWellFormed DEF WellFormed
<1>3. cycle' = [cycle EXCEPT ![t].pc = "loaded", ![t].doc = doc]
  BY DEF LoadArchive
<1>4. UNCHANGED <<archiveKind, disk, expected, overlapped>>
  BY DEF LoadArchive
<1>5. SerialInv => (~overlapped => doc = Upserted(expected, cycle[t].rec))
  BY DEF SerialInv
<1> HIDE DEF doc
<1>6. /\ OnlyCycleOf(t) /\ cycle'[t].pc = "loaded" /\ cycle'[t].rec = cycle[t].rec
      /\ cycle'[t].doc = doc /\ cycle'[t].inode = cycle[t].inode
  BY <1>1, <1>2, <1>3, CycleDocMoves
<1>7. ArchiveInv'
  BY <1>1, <1>2, <1>4, <1>6 DEF ArchiveInv, ArchiveTypeOK, Writing, OnlyCycleOf
<1>8. SerialInv'
  BY <1>1, <1>4, <1>5, <1>6 DEF SerialInv, Writing, OnlyCycleOf, Busy
<1> QED
  BY <1>7, <1>8

LEMMA OpenKeeps ==
    ASSUME ArchiveInv, SerialInv, NEW t \in ArchiveThreads, OpenTemporary(t)
    PROVE  ArchiveInv' /\ SerialInv'
<1> DEFINE i == TmpInode(disk, Held)
<1>1. /\ cycle \in [ArchiveThreads -> Cycles] /\ disk \in Disks
      /\ cycle[t].pc = "loaded" /\ cycle[t].inode = 0
  BY DEF ArchiveInv, ArchiveTypeOK, OpenTemporary
<1>2. i \in Inodes /\ i # disk.file /\ (disk.tmp # 0 => i = disk.tmp)
  BY <1>1, InodeIsFree
<1>3. disk' = OpenedTmp(disk, i) /\ cycle' = [cycle EXCEPT ![t].pc = "opened", ![t].inode = i]
  BY DEF OpenTemporary
<1>4. UNCHANGED <<archiveKind, expected, overlapped>>
  BY DEF OpenTemporary
<1> HIDE DEF i
<1>5. /\ OnlyCycleOf(t) /\ cycle'[t].pc = "opened" /\ cycle'[t].rec = cycle[t].rec
      /\ cycle'[t].doc = cycle[t].doc /\ cycle'[t].inode = i
  BY <1>1, <1>2, <1>3, CycleInodeMoves
<1>6. /\ disk' \in Disks /\ disk'.file = disk.file /\ disk'.tmp = i
      /\ disk'.data = [disk.data EXCEPT ![i] = Blank]
  BY <1>1, <1>2, <1>3, OpenMakes
<1>7. disk.data \in [Inodes -> Contents]
  BY <1>1, DiskParts
<1>8. disk'.data[i] = Blank /\ \A j \in Inodes \ {i} : disk'.data[j] = disk.data[j]
  BY <1>2, <1>6, <1>7
<1>9. WellFormed(Blank.doc) /\ 0 \notin Inodes
  BY EmptyIsWellFormed, InodesAssumption DEF Blank
<1>10. ArchiveInv'
  BY <1>1, <1>2, <1>4, <1>5, <1>6, <1>8, <1>9
     DEF ArchiveInv, ArchiveTypeOK, Writing, OnlyCycleOf
<1>11. Readable(disk') = Readable(disk)
  <2>1. disk.file \in Inodes \cup {0}
    BY <1>1, DiskParts
  <2>2. disk'.file # 0 => disk'.data[disk'.file] = disk.data[disk.file]
    BY <1>2, <1>6, <1>8, <2>1
  <2> QED
    BY <1>6, <2>2, SameFileIsRead
<1>12. SerialInv'
  BY <1>1, <1>4, <1>5, <1>6, <1>8, <1>11 DEF SerialInv, Writing, OnlyCycleOf, Busy
<1> QED
  BY <1>10, <1>12

LEMMA FillKeeps ==
    ASSUME ArchiveInv, SerialInv, NEW t \in ArchiveThreads, FillTemporary(t)
    PROVE  ArchiveInv' /\ SerialInv'
<1> DEFINE i == cycle[t].inode
           doc == cycle[t].doc
<1>1. /\ cycle \in [ArchiveThreads -> Cycles] /\ disk \in Disks
      /\ cycle[t].pc = "opened" /\ i \in Inodes /\ WellFormed(doc)
  BY DEF ArchiveInv, ArchiveTypeOK, FillTemporary, Cycles, Writing
<1>2. PICK after \in AfterWriting(disk.data[i], doc) : disk' = [disk EXCEPT !.data[i] = after]
  BY DEF FillTemporary
<1>3. after \in {Whole(doc), Torn} /\ (disk.data[i] = Blank => after = Whole(doc))
  BY <1>2 DEF AfterWriting
<1>4. after \in Contents /\ WellFormed(after.doc)
  <2>1. Whole(doc).doc = doc /\ Torn.doc = <<>>
    BY DEF Whole, Torn
  <2>2. \A d \in Seq(Recs) : Whole(d) \in Contents
    BY DEF Whole, Contents
  <2>3. Torn \in Contents
    BY DEF Torn, Contents
  <2>4. doc \in Seq(Recs)
    BY <1>1 DEF WellFormed
  <2> HIDE DEF doc
  <2> QED
    BY <1>1, <1>3, <2>1, <2>2, <2>3, <2>4, EmptyIsWellFormed
<1>5. cycle' = [cycle EXCEPT ![t].pc = "filled"] /\ UNCHANGED <<archiveKind, expected, overlapped>>
  BY DEF FillTemporary
<1> HIDE DEF i, doc
<1>6. /\ OnlyCycleOf(t) /\ cycle'[t].pc = "filled" /\ cycle'[t].rec = cycle[t].rec
      /\ cycle'[t].doc = doc /\ cycle'[t].inode = i
  BY <1>1, <1>5, CyclePcMoves DEF OnlyCycleOf, Pcs, i, doc
<1>7. /\ disk' \in Disks /\ disk'.file = disk.file /\ disk'.tmp = disk.tmp
      /\ disk'.data = [disk.data EXCEPT ![i] = after]
  BY <1>1, <1>2, <1>4, FillMakes
<1>8. disk.data \in [Inodes -> Contents] /\ disk.file \in Inodes \cup {0}
  BY <1>1, DiskParts
<1>9. disk'.data[i] = after /\ \A j \in Inodes \ {i} : disk'.data[j] = disk.data[j]
  BY <1>1, <1>7, <1>8
<1>10. ArchiveInv'
  BY <1>1, <1>4, <1>5, <1>6, <1>7, <1>9
     DEF ArchiveInv, ArchiveTypeOK, Writing, OnlyCycleOf, i, doc
<1>11. ASSUME ~overlapped
       PROVE  i = disk.tmp /\ disk.data[i] = Blank /\ i # disk.file
  <2>1. i = disk.tmp /\ disk.data[disk.tmp] = Blank
    BY <1>1, <1>11 DEF SerialInv, i
  <2>2. disk.tmp # 0
    BY <1>1, <2>1, InodesAssumption
  <2> QED
    BY <2>1, <2>2 DEF ArchiveInv
<1>12. ~overlapped => Readable(disk') = Readable(disk)
  BY <1>7, <1>8, <1>9, <1>11, SameFileIsRead
<1>13. SerialInv'
  BY <1>1, <1>3, <1>5, <1>6, <1>7, <1>9, <1>11, <1>12
     DEF SerialInv, Writing, OnlyCycleOf, Busy, doc
<1> QED
  BY <1>10, <1>13

(* A thread that stops leaves the archive as it is.                        *)
LEMMA StopKeeps ==
    ASSUME ArchiveInv, SerialInv, NEW t \in ArchiveThreads,
           cycle' = [cycle EXCEPT ![t] = NoCycle],
           ArchiveTypeOK', UNCHANGED <<archiveKind, overlapped>>,
           \A i \in Inodes : WellFormed(disk'.data[i].doc),
           disk'.tmp # 0 => disk'.tmp # disk'.file,
           ~overlapped => LoadedArchive(Readable(disk'), archiveKind) = expected',
           ~overlapped => Busy(t)
    PROVE  ArchiveInv' /\ SerialInv'
<1>1. cycle \in [ArchiveThreads -> Cycles]
  BY DEF ArchiveInv, ArchiveTypeOK
<1>2. OnlyCycleOf(t) /\ cycle'[t].pc = "idle" /\ cycle'[t].inode = 0
  BY <1>1, NoCycleParts DEF OnlyCycleOf
<1>3. ArchiveInv'
  BY <1>2 DEF ArchiveInv, Writing, OnlyCycleOf
<1>4. ASSUME ~overlapped, NEW u \in ArchiveThreads
      PROVE  cycle'[u].pc = "idle"
  <2>1. u # t => cycle[u].pc = "idle"
    BY <1>4 DEF SerialInv, Busy
  <2> QED
    BY <1>2, <2>1 DEF OnlyCycleOf
<1>5. SerialInv'
  BY <1>4 DEF SerialInv, Writing, Busy
<1> QED
  BY <1>3, <1>5

LEMMA FailKeeps ==
    ASSUME ArchiveInv, SerialInv, NEW t \in ArchiveThreads, WriteFails(t)
    PROVE  ArchiveInv' /\ SerialInv'
<1> DEFINE i == cycle[t].inode
<1>1. /\ cycle \in [ArchiveThreads -> Cycles] /\ disk \in Disks
      /\ cycle' = [cycle EXCEPT ![t] = NoCycle]
      /\ UNCHANGED <<archiveKind, expected, overlapped>>
  BY DEF ArchiveInv, ArchiveTypeOK, WriteFails
<1>2. Torn \in Contents /\ WellFormed(Torn.doc)
  BY EmptyIsWellFormed DEF Torn, Contents
<1>3. cycle' \in [ArchiveThreads -> Cycles]
  BY <1>1, NoCycleParts
<1>4. disk.data \in [Inodes -> Contents] /\ disk.file \in Inodes \cup {0}
  BY <1>1, DiskParts
<1>5. Busy(t)
  BY DEF WriteFails, Busy
<1>6. /\ disk' \in Disks /\ disk'.file = disk.file /\ disk'.tmp = disk.tmp
      /\ \A j \in Inodes : WellFormed(disk'.data[j].doc)
      /\ ~overlapped => Readable(disk') = Readable(disk)
  <2>1. CASE disk' = disk
    BY <1>1, <2>1 DEF ArchiveInv
  <2>2. CASE cycle[t].pc = "opened" /\ disk' = [disk EXCEPT !.data[i] = Torn]
    <3>1. i \in Inodes
      BY <1>1, <2>2 DEF ArchiveInv, Cycles
    <3>2. ~overlapped => i # disk.file
      BY <2>2, <3>1, InodesAssumption DEF ArchiveInv, SerialInv
    <3> HIDE DEF i
    <3>3. /\ disk' \in Disks /\ disk'.file = disk.file /\ disk'.tmp = disk.tmp
          /\ disk'.data = [disk.data EXCEPT ![i] = Torn]
      BY <1>1, <1>2, <2>2, <3>1, FillMakes
    <3>4. disk'.data[i] = Torn /\ \A j \in Inodes \ {i} : disk'.data[j] = disk.data[j]
      BY <1>4, <3>1, <3>3
    <3>5. \A j \in Inodes : WellFormed(disk'.data[j].doc)
      BY <1>2, <3>4 DEF ArchiveInv
    <3>6. ASSUME ~overlapped PROVE Readable(disk') = Readable(disk)
      <4>1. disk'.file # 0 => disk'.data[disk'.file] = disk.data[disk.file]
        BY <1>4, <3>2, <3>3, <3>4, <3>6
      <4> QED
        BY <3>3, <4>1, SameFileIsRead
    <3> QED
      BY <3>3, <3>5, <3>6
  <2> QED
    BY <2>1, <2>2 DEF WriteFails
<1>7. ArchiveTypeOK'
  BY <1>1, <1>3, <1>6 DEF ArchiveInv, ArchiveTypeOK
<1>8. disk'.tmp # 0 => disk'.tmp # disk'.file
  BY <1>6 DEF ArchiveInv
<1>9. ~overlapped => LoadedArchive(Readable(disk'), archiveKind) = expected'
  BY <1>1, <1>6 DEF SerialInv
<1> QED
  BY <1>1, <1>5, <1>6, <1>7, <1>8, <1>9, StopKeeps

LEMMA RenameKeeps ==
    ASSUME ArchiveInv, SerialInv, NEW t \in ArchiveThreads, RenameTemporary(t)
    PROVE  ArchiveInv' /\ SerialInv'
<1>1. /\ cycle \in [ArchiveThreads -> Cycles] /\ disk \in Disks /\ cycle[t].pc = "filled"
      /\ cycle' = [cycle EXCEPT ![t] = NoCycle]
      /\ expected' = Upserted(expected, cycle[t].rec)
      /\ UNCHANGED <<archiveKind, overlapped>>
      /\ disk' = IF disk.tmp # 0 THEN RenamedTmp(disk) ELSE disk
  BY DEF ArchiveInv, ArchiveTypeOK, RenameTemporary
<1>2. cycle' \in [ArchiveThreads -> Cycles]
  BY <1>1, NoCycleParts
<1>3. Busy(t)
  BY <1>1 DEF Busy
<1>4. /\ disk' \in Disks /\ \A i \in Inodes : WellFormed(disk'.data[i].doc)
      /\ disk'.tmp # 0 => disk'.tmp # disk'.file
  <2>1. CASE disk.tmp = 0
    BY <1>1, <2>1 DEF ArchiveInv
  <2>2. CASE disk.tmp # 0
    <3>1. WellFormed(Blank.doc)
      BY EmptyIsWellFormed DEF Blank
    <3> QED
      BY <1>1, <2>2, <3>1, RenameMakes DEF ArchiveInv
  <2> QED
    BY <2>1, <2>2
<1>5. ASSUME ~overlapped
      PROVE  LoadedArchive(Readable(disk'), archiveKind) = expected'
  <2>1. /\ cycle[t].inode = disk.tmp /\ disk.data[disk.tmp] = Whole(cycle[t].doc)
        /\ cycle[t].doc = Upserted(expected, cycle[t].rec)
    BY <1>1, <1>5 DEF SerialInv, Writing
  <2>2. disk.tmp # 0 /\ disk.tmp # disk.file /\ disk.tmp \in Inodes
    BY <1>1, <2>1, DiskParts DEF ArchiveInv
  <2>3. disk'.file = disk.tmp /\ disk'.data[disk.tmp] = Whole(cycle[t].doc)
    BY <1>1, <2>1, <2>2, RenameMakes
  <2>4. Readable(disk') = Whole(cycle[t].doc)
    BY <2>2, <2>3 DEF Readable
  <2>5. LoadedArchive(Whole(cycle[t].doc), archiveKind) = cycle[t].doc
    BY DEF LoadedArchive, Whole
  <2> QED
    BY <1>1, <2>1, <2>4, <2>5
<1>6. ArchiveTypeOK'
  BY <1>1, <1>2, <1>4 DEF ArchiveInv, ArchiveTypeOK
<1> QED
  BY <1>1, <1>3, <1>4, <1>5, <1>6, StopKeeps

LEMMA DeleteKeeps ==
    ASSUME ArchiveInv, SerialInv, NEW t \in ArchiveThreads, DeleteArchive(t)
    PROVE  ArchiveInv' /\ SerialInv'
<1>1. /\ cycle \in [ArchiveThreads -> Cycles] /\ disk \in Disks /\ cycle[t].pc = "counted"
      /\ cycle' = [cycle EXCEPT ![t] = NoCycle]
      /\ expected' = <<>> /\ disk' = Deleted(disk)
      /\ UNCHANGED <<archiveKind, overlapped>>
  BY DEF ArchiveInv, ArchiveTypeOK, DeleteArchive
<1>2. cycle' \in [ArchiveThreads -> Cycles]
  BY <1>1, NoCycleParts
<1>3. Busy(t)
  BY <1>1 DEF Busy
<1>4. /\ disk' \in Disks /\ disk'.file = 0 /\ disk'.tmp = disk.tmp
      /\ \A i \in Inodes : disk'.data[i] = IF i = disk.file THEN Blank ELSE disk.data[i]
  BY <1>1, DeleteMakes
<1>5. \A i \in Inodes : WellFormed(disk'.data[i].doc)
  <2>1. WellFormed(Blank.doc)
    BY EmptyIsWellFormed DEF Blank
  <2> QED
    BY <1>4, <2>1 DEF ArchiveInv
<1>6. LoadedArchive(Readable(disk'), archiveKind) = expected'
  BY <1>1, <1>4 DEF Readable, LoadedArchive, Blank
<1>7. ArchiveTypeOK'
  BY <1>1, <1>2, <1>4 DEF ArchiveInv, ArchiveTypeOK
<1>8. disk'.tmp # 0 => disk'.tmp # disk'.file
  BY <1>4
<1> QED
  BY <1>1, <1>3, <1>5, <1>6, <1>7, <1>8, StopKeeps

LEMMA BeginKeeps ==
    ASSUME ArchiveInv, SerialInv, NEW t \in ArchiveThreads,
           \/ \E s \in ArchiveSessions : TakeRecord(t, s)
           \/ \E scope \in {"scan", "export", "all"} : BeginPurge(t, scope)
    PROVE  ArchiveInv' /\ SerialInv'
<1>1. CASE \E s \in ArchiveSessions : TakeRecord(t, s)
  <2>1. PICK s \in ArchiveSessions : TakeRecord(t, s)
    BY <1>1
  <2> DEFINE rec == Record(s, live[s])
             state == [NoCycle EXCEPT !.pc = "taken", !.rec = rec]
  <2>2. rec \in Recs
    BY <2>1, ArchiveAssumption DEF TakeRecord, Record, Recs
  <2>3. Enter(t, state) /\ UNCHANGED <<archiveKind, disk, expected>>
    BY <2>1 DEF TakeRecord
  <2> HIDE DEF rec
  <2>4. state \in Cycles /\ state.pc = "taken" /\ state.inode = 0
    BY <2>2, NoCycleParts
  <2> HIDE DEF state
  <2> QED
    BY <2>3, <2>4, EnterKeeps
<1>2. CASE \E scope \in {"scan", "export", "all"} : BeginPurge(t, scope)
  <2> DEFINE state == [NoCycle EXCEPT !.pc = "counted"]
  <2>1. Enter(t, state) /\ UNCHANGED <<archiveKind, disk, expected>>
    BY <1>2 DEF BeginPurge
  <2>2. state \in Cycles /\ state.pc = "counted" /\ state.inode = 0
    BY NoCycleParts
  <2> HIDE DEF state
  <2> QED
    BY <2>1, <2>2, EnterKeeps
<1> QED
  BY <1>1, <1>2

LEMMA ArchiveStepKeeps ==
    ASSUME ArchiveInv, SerialInv, [ArchiveNext]_archiveVars
    PROVE  ArchiveInv' /\ SerialInv'
<1>1. CASE UNCHANGED <<archiveKind, disk, cycle, expected, overlapped>>
  <2>1. ArchiveInv'
    BY <1>1 DEF ArchiveInv, ArchiveTypeOK, Writing
  <2>2. SerialInv'
    BY <1>1 DEF SerialInv, Writing, Busy
  <2> QED
    BY <2>1, <2>2
<1>2. CASE ArchiveCrash
  <2>1. /\ cycle' = [t \in ArchiveThreads |-> NoCycle]
        /\ UNCHANGED <<archiveKind, disk, expected, overlapped>>
    BY <1>2 DEF ArchiveCrash
  <2>2. /\ cycle' \in [ArchiveThreads -> Cycles]
        /\ \A t \in ArchiveThreads : cycle'[t].pc = "idle" /\ cycle'[t].inode = 0
    BY <2>1, NoCycleParts
  <2>3. ArchiveInv'
    BY <2>1, <2>2 DEF ArchiveInv, ArchiveTypeOK, Writing
  <2>4. SerialInv'
    BY <2>1, <2>2 DEF SerialInv, Writing, Busy
  <2> QED
    BY <2>3, <2>4
<1>3. CASE \E s \in ArchiveSessions : Advance(s)
  BY <1>1, <1>3 DEF Advance
<1>4. CASE UNCHANGED archiveVars
  BY <1>1, <1>4 DEF archiveVars
<1> QED
  BY <1>2, <1>3, <1>4, BeginKeeps, LoadKeeps, OpenKeeps, FillKeeps, FailKeeps, RenameKeeps,
     DeleteKeeps
     DEF ArchiveNext

(* As long as no cycle began inside another one, the archive is exactly    *)
(* what the completed upserts and purges make of it, one after the other,  *)
(* whatever crashes, full disks and stale temporary files came before: for *)
(* any sessions, any number of threads and any limit.                      *)
THEOREM HistoryIsSerial == ArchiveSpec => []SerialHistoryKept
<1>1. ArchiveInit => ArchiveInv /\ SerialInv
  BY ArchiveStarts
<1>2. ArchiveInv /\ SerialInv /\ [ArchiveNext]_archiveVars => ArchiveInv' /\ SerialInv'
  BY ArchiveStepKeeps
<1>3. SerialInv => SerialHistoryKept
  BY DEF SerialInv, SerialHistoryKept
<1> QED
  BY <1>1, <1>2, <1>3, PTL DEF ArchiveSpec

(* Whatever the threads do to one another, an archive that can be read has *)
(* each session once, newest first, within its limit: sorting, truncating  *)
(* and replacing by id preserve it, and every interleaving of the writers  *)
(* of the temporary file leaves a whole document or an unreadable one.     *)
THEOREM ArchiveIsWellFormed == ArchiveSpec => []ArchiveWellFormed
<1>1. ArchiveInit => ArchiveInv /\ SerialInv
  BY ArchiveStarts
<1>2. ArchiveInv /\ SerialInv /\ [ArchiveNext]_archiveVars => ArchiveInv' /\ SerialInv'
  BY ArchiveStepKeeps
<1>3. ArchiveInv => ArchiveWellFormed
  <2> SUFFICES ASSUME ArchiveInv PROVE ArchiveWellFormed
    OBVIOUS
  <2> DEFINE doc == LoadedArchive(Readable(disk), archiveKind)
  <2>1. WellFormed(doc)
    BY ReadIsWellFormed
  <2> HIDE DEF doc
  <2>2. DOMAIN doc = 1..Len(doc)
    BY <2>1 DEF WellFormed
  <2> QED
    BY <2>1, <2>2 DEF WellFormed, ArchiveWellFormed, doc
<1> QED
  BY <1>1, <1>2, <1>3, PTL DEF ArchiveSpec

-------------------------------------------------------------------------------
(* The audit trail names every edit and nothing else.                      *)


AuditSpec == AuditInit /\ [][AuditNext]_auditVars

(* Records whose hashes are taken from P: hashes nest as deep as the trail *)
(* is long, so there is one P for each state.                              *)
AuditRecords(P) == [id : Nat, event : AuditEvents \cup {"legacy", "forged"}, prev : P]

AuditTypeOK ==
  /\ \E P : trail \in Seq(AuditRecords(P)) /\ trailFile \in Seq(AuditRecords(P))
  /\ nextId \in Nat
  /\ trailReadable \in BOOLEAN

IdsGrow(records) == \A i, j \in 1..Len(records) : i < j => records[i].id < records[j].id

(* Record i commits to the one before it as that one reads now, or it was  *)
(* written before that one was edited, or it has no hash.                  *)
Commits(records, i, forged) ==
  \/ records[i].prev = NoHash
  \/ i = 1 /\ records[i].prev = GenesisHash
  \/ /\ i > 1 /\ i - 1 \notin forged
     /\ records[i].prev = RecordHash(records[i - 1])
  \/ /\ i > 1 /\ i - 1 \in forged
     /\ Len(records[i].prev) = 3 /\ records[i].prev[2] # "forged"

(* A chain edited at the positions "forged".                               *)
EditedChain(records, forged) ==
  /\ IdsGrow(records)
  /\ \A i \in forged : i \in 1..Len(records) /\ records[i].event = "forged"
  /\ \A i \in 1..Len(records) : Commits(records, i, forged)

(* The trail and its file are chains, and the last record of the trail is  *)
(* one the program wrote or took as it found it.                           *)
AuditInv ==
  /\ AuditTypeOK
  /\ EditedChain(trail, forgedTrail)
  /\ EditedChain(trailFile, forgedFile)
  /\ Len(trail) \notin forgedTrail
  /\ \A i \in 1..Len(trail) : trail[i].id < nextId

-------------------------------------------------------------------------------

LEMMA LongerTypes ==
    ASSUME NEW A, NEW B, A \subseteq B, NEW s \in Seq(A)
    PROVE  s \in Seq(B)
<1>1. s \in [1..Len(s) -> A] /\ Len(s) \in Nat
  OBVIOUS
<1>2. s \in [1..Len(s) -> B]
  BY <1>1
<1> QED
  BY <1>1, <1>2

(* The greatest of growing numbers is the last.                            *)
LEMMA LastIsGreatest ==
    ASSUME NEW n \in Nat, NEW f \in [1..n -> Nat],
           \A i, j \in 1..n : i < j => f[i] < f[j]
    PROVE  LET ids == {0} \cup {f[i] : i \in 1..n}
           IN  Max(ids) \in Nat /\ \A i \in 1..n : f[i] <= Max(ids)
<1> DEFINE ids == {0} \cup {f[i] : i \in 1..n}
<1>1. \E top \in ids : \A id \in ids : top >= id
  <2>1. CASE n = 0
    BY <2>1
  <2>2. CASE n > 0
    <3>1. n \in 1..n /\ \A i \in 1..n : i = n \/ i < n
      BY <2>2
    <3>2. \A i \in 1..n : f[n] >= f[i]
      BY <3>1
    <3> QED
      BY <3>1, <3>2
  <2> QED
    BY <2>1, <2>2
<1>2. Max(ids) \in ids /\ \A id \in ids : Max(ids) >= id
  BY <1>1 DEF Max
<1>3. ids \subseteq Nat /\ \A i \in 1..n : f[i] \in ids
  OBVIOUS
<1> HIDE DEF ids
<1>4. Max(ids) \in Nat /\ \A i \in 1..n : f[i] <= Max(ids)
  BY <1>2, <1>3
<1> QED
  BY <1>4 DEF ids

(* nextId, as read from a trail, is above every id of it.                  *)
LEMMA NextIdIsNew ==
    ASSUME NEW P, NEW records \in Seq(AuditRecords(P)), IdsGrow(records)
    PROVE  /\ NextIdOf(records) \in Nat
           /\ \A i \in 1..Len(records) : records[i].id < NextIdOf(records)
<1> DEFINE n == Len(records)
           f == [i \in 1..n |-> records[i].id]
           ids == {0} \cup {f[i] : i \in 1..n}
<1>1. n \in Nat /\ DOMAIN records = 1..n
  OBVIOUS
<1>2. \A i \in 1..n : records[i].id \in Nat
  <2>1. \A i \in 1..n : records[i] \in AuditRecords(P)
    OBVIOUS
  <2>2. \A record \in AuditRecords(P) : record.id \in Nat
    BY DEF AuditRecords
  <2> QED
    BY <2>1, <2>2
<1>3. \A i, j \in 1..n : i < j => f[i] < f[j]
  BY DEF IdsGrow
<1>4. NextIdOf(records) = Max(ids) + 1
  <2>1. {0} \cup {records[i].id : i \in DOMAIN records} = ids
    BY <1>1
  <2> QED
    BY <2>1 DEF NextIdOf
<1>5. f \in [1..n -> Nat]
  BY <1>2
<1>6. \A i \in 1..n : f[i] = records[i].id
  OBVIOUS
<1> HIDE DEF n, f
<1>7. Max(ids) \in Nat /\ \A i \in 1..n : f[i] <= Max(ids)
  BY <1>1, <1>3, <1>5, LastIsGreatest
<1>8. \A i \in 1..n : f[i] \in Nat
  BY <1>5
<1> HIDE DEF ids
<1>9. NextIdOf(records) \in Nat /\ \A i \in 1..n : records[i].id < NextIdOf(records)
  BY <1>4, <1>6, <1>7, <1>8
<1> QED
  BY <1>9 DEF n

LEMMA AuditStarts == AuditInit => AuditInv
<1> SUFFICES ASSUME AuditInit PROVE AuditInv
  OBVIOUS
<1> DEFINE P == {NoHash}
           legacy == [id |-> 1, event |-> "legacy", prev |-> NoHash]
<1>1. legacy \in AuditRecords(P)
  BY DEF AuditRecords
<1>2. trailFile = <<>> \/ trailFile = <<legacy>>
  BY DEF AuditInit, LegacyTrails
<1>3. trail = <<>> \/ trail = <<legacy>>
  BY <1>2 DEF AuditInit, Loaded
<1>4. trail \in Seq(AuditRecords(P)) /\ trailFile \in Seq(AuditRecords(P))
  <2>1. <<>> \in Seq(AuditRecords(P)) /\ <<legacy>> \in Seq(AuditRecords(P))
    BY <1>1
  <2> QED
    BY <1>2, <1>3, <2>1
<1>5. ASSUME NEW records, records = <<>> \/ records = <<legacy>>
      PROVE  EditedChain(records, {}) /\ IdsGrow(records)
  <2>1. Len(records) \in {0, 1} /\ (Len(records) = 1 => records[1].prev = NoHash)
    BY <1>5
  <2> QED
    BY <2>1 DEF EditedChain, IdsGrow, Commits
<1>6. IdsGrow(trail)
  BY <1>3, <1>5
<1>7. NextIdOf(trail) \in Nat /\ \A i \in 1..Len(trail) : trail[i].id < NextIdOf(trail)
  BY <1>4, <1>6, NextIdIsNew
<1> QED
  BY <1>2, <1>3, <1>4, <1>5, <1>7 DEF AuditInit, AuditInv, AuditTypeOK

(* Whatever the trail becomes, its file is what it was or what the trail   *)
(* now is.                                                                 *)
LEMMA PersistKeeps ==
    ASSUME NEW records, NEW forged, PersistTrail(records, forged),
           EditedChain(records, forged), EditedChain(trailFile, forgedFile)
    PROVE  EditedChain(trailFile', forgedFile')
BY DEF PersistTrail

LEMMA AuditRecordKeeps ==
    ASSUME AuditInv, NEW event \in AuditEvents, AuditRecord(event)
    PROVE  AuditInv'
<1> DEFINE n == Len(trail)
           prev == ExpectedPrevHash(trail)
           new == [id |-> nextId, event |-> event, prev |-> prev]
<1>1. PICK P : trail \in Seq(AuditRecords(P)) /\ trailFile \in Seq(AuditRecords(P))
  BY DEF AuditInv, AuditTypeOK
<1> DEFINE Q == P \cup {prev}
<1>2. AuditRecords(P) \subseteq AuditRecords(Q)
  BY DEF AuditRecords
<1>3. trail \in Seq(AuditRecords(Q)) /\ trailFile \in Seq(AuditRecords(Q)) /\ n \in Nat
  <2>1. n \in Nat
    BY <1>1
  <2> QED
    BY <1>1, <1>2, <2>1, LongerTypes
<1>4. nextId \in Nat /\ new \in AuditRecords(Q)
  BY DEF AuditInv, AuditTypeOK, AuditRecords
<1>5. trail' = Append(trail, new) /\ nextId' = nextId + 1 /\ forgedTrail' = forgedTrail
  BY DEF AuditRecord
<1>6. /\ trail' \in Seq(AuditRecords(Q)) /\ Len(trail') = n + 1
      /\ trail'[n + 1] = new /\ \A i \in 1..n : trail'[i] = trail[i]
  BY <1>3, <1>4, <1>5
<1>7. trail' = trail' /\ PersistTrail(trail', forgedTrail)
  BY DEF AuditRecord
<1>8. trailFile' \in Seq(AuditRecords(Q)) /\ trailReadable' \in BOOLEAN
  BY <1>3, <1>6, <1>7 DEF PersistTrail, AuditInv, AuditTypeOK
<1>9. AuditTypeOK'
  <2> HIDE DEF Q, new
  <2>1. trail' \in Seq(AuditRecords(Q)) /\ trailFile' \in Seq(AuditRecords(Q))
    BY <1>6, <1>8
  <2>2. nextId' \in Nat
    BY <1>4, <1>5
  <2> QED
    BY <1>8, <2>1, <2>2 DEF AuditTypeOK, AuditRecords
<1>10. \A i \in 1..(n + 1) : i = n + 1 \/ i \in 1..n
  BY <1>3
<1>11. \A i \in 1..n : trail[i].id < nextId
  BY DEF AuditInv
<1>12. IdsGrow(trail')
  BY <1>3, <1>4, <1>6, <1>10, <1>11 DEF AuditInv, EditedChain, IdsGrow
<1>13. \A i \in forgedTrail : i \in 1..n /\ i # n /\ trail[i].event = "forged"
  BY DEF AuditInv, EditedChain
<1>14. ASSUME NEW i \in 1..(n + 1) PROVE Commits(trail', i, forgedTrail)
  <2>1. CASE i \in 1..n
    <3>1. Commits(trail, i, forgedTrail)
      BY <2>1 DEF AuditInv, EditedChain
    <3>2. trail'[i] = trail[i] /\ (i > 1 => trail'[i - 1] = trail[i - 1])
      BY <1>3, <1>6, <2>1
    <3> QED
      BY <3>1, <3>2 DEF Commits
  <2>2. CASE i = n + 1
    <3>1. trail'[i].prev = prev
      BY <1>6, <2>2
    <3>2. CASE n = 0
      <4>1. trail = <<>>
        BY <1>3, <3>2
      <4> QED
        BY <2>2, <3>1, <3>2, <4>1 DEF Commits, ExpectedPrevHash
    <3>3. CASE n > 0
      <4>1. trail # <<>> /\ n \notin forgedTrail /\ n \in 1..n
        BY <1>3, <1>13, <3>3
      <4>2. prev = RecordHash(trail'[n])
        BY <1>6, <4>1 DEF ExpectedPrevHash
      <4> QED
        BY <1>3, <2>2, <3>1, <3>3, <4>1, <4>2 DEF Commits
    <3> QED
      BY <1>3, <3>2, <3>3
  <2> QED
    BY <1>10, <2>1, <2>2
<1>15. EditedChain(trail', forgedTrail)
  BY <1>3, <1>6, <1>12, <1>13, <1>14 DEF EditedChain
<1>16. EditedChain(trailFile', forgedFile')
  BY <1>7, <1>15, PersistKeeps DEF AuditInv
<1>17. \A i \in 1..Len(trail') : trail'[i].id < nextId'
  <2>1. \A i \in 1..n : trail[i].id \in Nat
    <3>1. \A record \in AuditRecords(Q) : record.id \in Nat
      BY DEF AuditRecords
    <3> HIDE DEF Q
    <3> QED
      BY <1>3, <3>1
  <2>2. new.id = nextId
    OBVIOUS
  <2> HIDE DEF new, n
  <2> QED
    BY <1>3, <1>4, <1>5, <1>6, <1>10, <1>11, <2>1, <2>2
<1>18. Len(trail') \notin forgedTrail'
  BY <1>3, <1>5, <1>6, <1>13
<1> QED
  BY <1>5, <1>9, <1>15, <1>16, <1>17, <1>18 DEF AuditInv

LEMMA ClearKeeps ==
    ASSUME AuditInv, ClearTrail
    PROVE  AuditInv'
<1>1. trail' = <<>> /\ forgedTrail' = {} /\ PersistTrail(<<>>, {}) /\ nextId' = nextId
  BY DEF ClearTrail
<1>2. EditedChain(<<>>, {})
  BY DEF EditedChain, IdsGrow
<1>3. EditedChain(trailFile', forgedFile')
  BY <1>1, <1>2, PersistKeeps DEF AuditInv
<1>4. AuditTypeOK'
  <2>1. PICK P : trail \in Seq(AuditRecords(P)) /\ trailFile \in Seq(AuditRecords(P))
    BY DEF AuditInv, AuditTypeOK
  <2>2. trail' \in Seq(AuditRecords(P)) /\ trailFile' \in Seq(AuditRecords(P))
    <3>1. <<>> \in Seq(AuditRecords(P))
      OBVIOUS
    <3> QED
      BY <1>1, <2>1, <3>1 DEF PersistTrail
  <2> QED
    BY <1>1, <2>2 DEF PersistTrail, AuditInv, AuditTypeOK, AuditRecords
<1> QED
  BY <1>1, <1>2, <1>3, <1>4 DEF AuditInv

(* An edit leaves the hashes as they are: the record behind it commits to  *)
(* what is no longer there.                                                *)
LEMMA EditKeeps ==
    ASSUME AuditInv, NEW k \in Nat, EditFile(k)
    PROVE  AuditInv'
<1> DEFINE n == Len(trailFile)
<1>1. PICK P : trail \in Seq(AuditRecords(P)) /\ trailFile \in Seq(AuditRecords(P))
  BY DEF AuditInv, AuditTypeOK
<1>2. n \in Nat /\ DOMAIN trailFile = 1..n /\ k \in 1..n /\ trailFile[k] \in AuditRecords(P)
  BY <1>1 DEF EditFile
<1>3. trailFile' = [trailFile EXCEPT ![k].event = "forged"] /\ forgedFile' = forgedFile \cup {k}
  BY DEF EditFile
<1>4. trailFile'[k] = [trailFile[k] EXCEPT !.event = "forged"]
  BY <1>1, <1>2, <1>3
<1>5. /\ trailFile'[k].event = "forged" /\ trailFile'[k] \in AuditRecords(P)
      /\ trailFile'[k].id = trailFile[k].id /\ trailFile'[k].prev = trailFile[k].prev
  BY <1>2, <1>4 DEF AuditRecords
<1>6. \A i \in 1..n : i # k => trailFile'[i] = trailFile[i]
  BY <1>1, <1>2, <1>3
<1>7. trailFile' \in Seq(AuditRecords(P)) /\ Len(trailFile') = n
  BY <1>1, <1>2, <1>3, <1>5
<1>8. UNCHANGED <<trail, nextId, trailReadable, auditRuns, forgedTrail>>
  BY DEF EditFile
<1>9. AuditTypeOK'
  BY <1>1, <1>7, <1>8 DEF AuditInv, AuditTypeOK, AuditRecords
<1>10. \A i \in 1..n : trailFile'[i].id = trailFile[i].id /\ trailFile'[i].prev = trailFile[i].prev
  BY <1>5, <1>6
<1>11. IdsGrow(trailFile')
  BY <1>7, <1>10 DEF AuditInv, EditedChain, IdsGrow
<1>12. \A i \in forgedFile' : i \in 1..n /\ trailFile'[i].event = "forged"
  BY <1>2, <1>3, <1>5, <1>6 DEF AuditInv, EditedChain
<1>13. trailFile[k].event # "forged" /\ k \notin forgedFile
  BY DEF EditFile, AuditInv, EditedChain
<1>14. ASSUME NEW i \in 1..n PROVE Commits(trailFile', i, forgedFile')
  <2>1. Commits(trailFile, i, forgedFile) /\ trailFile'[i].prev = trailFile[i].prev
    BY <1>10 DEF AuditInv, EditedChain
  <2>2. CASE i - 1 # k
    <3>1. i - 1 \in forgedFile' <=> i - 1 \in forgedFile
      BY <1>3, <2>2
    <3>2. i > 1 => trailFile'[i - 1] = trailFile[i - 1]
      BY <1>2, <1>6, <2>2
    <3> QED
      BY <2>1, <3>1, <3>2 DEF Commits
  <2>3. CASE i - 1 = k
    <3>1. i > 1 /\ i - 1 \in forgedFile'
      BY <1>2, <1>3, <2>3
    <3>2. CASE trailFile[i].prev = NoHash
      BY <2>1, <3>2 DEF Commits
    <3>3. CASE trailFile[i].prev = RecordHash(trailFile[k])
      <4>1. Len(trailFile[i].prev) = 3 /\ trailFile[i].prev[2] = trailFile[k].event
        BY <3>3 DEF RecordHash
      <4> QED
        BY <1>13, <2>1, <3>1, <4>1 DEF Commits
    <3> QED
      BY <1>13, <2>1, <2>3, <3>1, <3>2, <3>3 DEF Commits
  <2> QED
    BY <2>2, <2>3
<1>15. EditedChain(trailFile', forgedFile')
  BY <1>7, <1>11, <1>12, <1>14 DEF EditedChain
<1> QED
  BY <1>8, <1>9, <1>15 DEF AuditInv

(* A start reads the file back, or nothing: an edit of the last record is  *)
(* taken as it is found, the others stay visible.                          *)
LEMMA RestartKeeps ==
    ASSUME AuditInv, RestartAudit
    PROVE  AuditInv'
<1>1. PICK P : trail \in Seq(AuditRecords(P)) /\ trailFile \in Seq(AuditRecords(P))
  BY DEF AuditInv, AuditTypeOK
<1>2. UNCHANGED <<trailFile, trailReadable, forgedFile>> /\ nextId' = NextIdOf(trail')
  BY DEF RestartAudit
<1>3. CASE trail' = trailFile /\ forgedTrail' = forgedFile \ {Len(trailFile)}
  <2>1. trail' = trailFile /\ forgedTrail' = forgedFile \ {Len(trailFile)}
    BY <1>3
  <2>2. EditedChain(trail', forgedTrail')
    <3>1. \A i \in 1..Len(trailFile) : i - 1 \in forgedTrail' <=> i - 1 \in forgedFile
      BY <1>1, <2>1
    <3> QED
      BY <2>1, <3>1 DEF AuditInv, EditedChain, Commits
  <2>3. IdsGrow(trail') /\ trail' \in Seq(AuditRecords(P))
    BY <1>1, <2>1, <2>2 DEF EditedChain
  <2>4. nextId' \in Nat /\ \A i \in 1..Len(trail') : trail'[i].id < nextId'
    BY <1>2, <2>3, NextIdIsNew
  <2>5. AuditTypeOK'
    BY <1>1, <1>2, <2>3, <2>4 DEF AuditInv, AuditTypeOK, AuditRecords
  <2> QED
    BY <1>2, <2>1, <2>2, <2>4, <2>5 DEF AuditInv
<1>4. CASE trail' = <<>> /\ forgedTrail' = {}
  <2>1. trail' = <<>> /\ forgedTrail' = {}
    BY <1>4
  <2>2. EditedChain(trail', forgedTrail')
    BY <2>1 DEF EditedChain, IdsGrow
  <2>3. IdsGrow(trail') /\ trail' \in Seq(AuditRecords(P))
    BY <2>1, <2>2 DEF EditedChain
  <2>4. nextId' \in Nat /\ \A i \in 1..Len(trail') : trail'[i].id < nextId'
    BY <1>2, <2>3, NextIdIsNew
  <2>5. AuditTypeOK'
    BY <1>1, <1>2, <2>3, <2>4 DEF AuditInv, AuditTypeOK, AuditRecords
  <2> QED
    BY <1>2, <2>1, <2>2, <2>4, <2>5 DEF AuditInv
<1> QED
  BY <1>3, <1>4 DEF RestartAudit, Loaded

(* What the verifier says of a record of an edited chain.                  *)
LEMMA VerifierNamesEdits ==
    ASSUME AuditInv
    PROVE  EditsAreNamed
<1>1. PICK P : trail \in Seq(AuditRecords(P))
  BY DEF AuditInv, AuditTypeOK
<1>2. Len(trail) \in Nat /\ DOMAIN trail = 1..Len(trail)
  BY <1>1
<1>3. ASSUME NEW i \in 1..Len(trail)
      PROVE  ChainStatus(trail, i) = "broken" <=> i - 1 \in forgedTrail /\ trail[i].prev # NoHash
  <2> DEFINE before == SubSeq(trail, 1, i - 1)
  <2>1. i = 1 => before = <<>>
    BY <1>1, <1>2
  <2>2. i > 1 => before # <<>> /\ Len(before) = i - 1 /\ before[i - 1] = trail[i - 1]
    BY <1>1, <1>2
  <2>3. Commits(trail, i, forgedTrail)
    BY DEF AuditInv, EditedChain
  <2>4. \A j \in forgedTrail : j \in 1..Len(trail) /\ trail[j].event = "forged"
    BY DEF AuditInv, EditedChain
  <2> HIDE DEF before
  <2>5. ExpectedPrevHash(before) = IF i = 1 THEN GenesisHash ELSE RecordHash(trail[i - 1])
    BY <2>1, <2>2 DEF ExpectedPrevHash
  <2>6. ChainStatus(trail, i) = "broken" <=>
          trail[i].prev # NoHash /\ trail[i].prev # ExpectedPrevHash(before)
    BY DEF ChainStatus, before
  <2>7. CASE trail[i].prev = NoHash
    BY <2>6, <2>7
  <2>8. CASE i = 1 /\ trail[i].prev = GenesisHash
    BY <2>4, <2>5, <2>6, <2>8
  <2>9. CASE i > 1 /\ i - 1 \notin forgedTrail /\ trail[i].prev = RecordHash(trail[i - 1])
    BY <2>5, <2>6, <2>9
  <2>10. CASE /\ i > 1 /\ i - 1 \in forgedTrail
              /\ Len(trail[i].prev) = 3 /\ trail[i].prev[2] # "forged"
    <3>1. RecordHash(trail[i - 1])[2] = "forged"
      BY <2>4, <2>10 DEF RecordHash
    <3>2. trail[i].prev # NoHash
      BY <2>10 DEF NoHash
    <3> QED
      BY <2>5, <2>6, <2>10, <3>1, <3>2
  <2> QED
    BY <2>3, <2>7, <2>8, <2>9, <2>10 DEF Commits
<1>4. \A i, j \in DOMAIN trail : i < j => trail[i].id < trail[j].id
  BY <1>2 DEF AuditInv, EditedChain, IdsGrow
<1>5. VerifyRecords(trail).broken = {i \in DOMAIN trail : ChainStatus(trail, i) = "broken"}
  BY DEF VerifyRecords
<1> QED
  BY <1>2, <1>3, <1>4, <1>5 DEF EditsAreNamed

(* The verifier names the record behind each edited one and no other, and  *)
(* ids grow along the trail, whatever clears, failed writes, unreadable    *)
(* files, legacy records and restarts the trail went through, however long *)
(* it is and whichever records were edited.                                *)
THEOREM EditsAreAlwaysNamed == AuditSpec => []EditsAreNamed
<1>1. AuditInv /\ [AuditNext]_auditVars => AuditInv'
  <2> SUFFICES ASSUME AuditInv, [AuditNext]_auditVars PROVE AuditInv'
    OBVIOUS
  <2>1. CASE UNCHANGED auditVars
    BY <2>1 DEF auditVars, AuditInv, AuditTypeOK, EditedChain, IdsGrow, Commits, AuditRecords,
                RecordHash
  <2>2. CASE \E event \in AuditEvents : AuditRecord(event)
    BY <2>2, AuditRecordKeeps
  <2>3. CASE \E k \in 1..MaxAuditId : EditFile(k)
    BY <2>3, AuditAssumption, EditKeeps
  <2> QED
    BY <2>1, <2>2, <2>3, ClearKeeps, RestartKeeps DEF AuditNext
<1> QED
  BY <1>1, AuditStarts, VerifierNamesEdits, PTL DEF AuditSpec

-------------------------------------------------------------------------------
(* The registry of remote agents.                                          *)

RegistrySpec == RegistryInit /\ [][RegistryNext]_registryVars

(* What RegistryKept rests on: the file alone may still list a removed     *)
(* agent, and the keyring alone may still hold its token, but not both     *)
(* unless neither half of the removal succeeded, so that no start brings   *)
(* it back; an agent whose addition succeeded is in memory and, unless it  *)
(* is torn, in the file, if every start could read it.                     *)
RegistryInv ==
  /\ listed \cup agentsFile \subseteq Agents
  /\ torn => agentsFile = {}
  /\ listed \cap wasRemoved \subseteq clinging
  /\ agentsFile \cap keyring \cap wasRemoved \subseteq clinging
  /\ wanted \subseteq Agents \cap keyring
  /\ wanted \ hidden \subseteq listed
  /\ ~torn => wanted \ hidden \subseteq agentsFile

(* Every operation of the registry keeps the invariant.                    *)
LEMMA RegistryStepKeeps ==
    ASSUME RegistryInv, [RegistryNext]_registryVars
    PROVE  RegistryInv'
<1> USE DEF RegistryInv
<1>1. ASSUME NEW a \in Agents, NEW url \in Urls, AddAgent(a, url)
      PROVE  RegistryInv'
  <2>1. CASE SaveAgents(listed') /\ wanted' = wanted \cup {a}
    BY <1>1, <2>1 DEF AddAgent, SaveAgents
  <2>2. CASE OpenFails /\ UNCHANGED wanted
    BY <1>1, <2>2 DEF AddAgent, OpenFails
  <2>3. CASE WriteTears /\ UNCHANGED wanted
    BY <1>1, <2>3 DEF AddAgent, WriteTears
  <2> QED
    BY <1>1, <2>1, <2>2, <2>3 DEF AddAgent
<1>2. ASSUME NEW a \in Agents, RemoveAgent(a)
      PROVE  RegistryInv'
  <2>1. CASE SaveAgents(listed')
    BY <1>2, <2>1 DEF RemoveAgent, Forget, SaveAgents, OpenFails
  <2>2. CASE OpenFails
    BY <1>2, <2>2 DEF RemoveAgent, Forget, OpenFails, SaveAgents, WriteTears
  <2>3. CASE WriteTears
    BY <1>2, <2>3 DEF RemoveAgent, Forget, WriteTears, OpenFails
  <2> QED
    BY <1>2, <2>1, <2>2, <2>3 DEF RemoveAgent
<1>3. ASSUME NEW a \in Agents, WipeToken(a)
      PROVE  RegistryInv'
  BY <1>3 DEF WipeToken
<1>4. CASE RestartDesktop
  BY <1>4 DEF RestartDesktop
<1>5. CASE UNCHANGED registryVars
  BY <1>5 DEF registryVars
<1> QED
  BY <1>1, <1>2, <1>3, <1>4, <1>5 DEF RegistryNext

(* Whatever is added, removed, wiped, restarted, unreadable at a start or  *)
(* fails to be saved, and in whatever order, a removed agent comes back    *)
(* only if neither half of its removal succeeded, and one whose addition   *)
(* succeeded is missing only if some start could not read it.              *)
THEOREM RegistryIsKept == RegistrySpec => []RegistryKept
<1>1. RegistryInit => RegistryInv
  BY DEF RegistryInit, RegistryInv
<1>2. RegistryInv /\ [RegistryNext]_registryVars => RegistryInv'
  BY RegistryStepKeeps
<1>3. RegistryInv => RegistryKept
  BY DEF RegistryInv, RegistryKept
<1> QED
  BY <1>1, <1>2, <1>3, PTL DEF RegistrySpec
-------------------------------------------------------------------------------

PullSpec == PullInit /\ [][PullNext]_pullVars

(* The fields of a pull, and of the command. *)
JobOf(job) ==
  [request |-> job.request, export |-> job.export, writing |-> job.writing,
   todo |-> job.todo, file |-> job.file, reply |-> job.reply]

PullShape ==
  /\ jobs = [j \in Pulls |-> JobOf(jobs[j])]
  /\ artifacts = [d \in Pulls |-> artifacts[d]]
  /\ desktop = [pc |-> desktop.pc, job |-> desktop.job]

(* The command holds the reply from the moment it starts to download, and  *)
(* holds it still when it is done: nothing that an agent does late, for    *)
(* this request or another, changes a reply that was given.                *)
HoldsReply == desktop.pc \in {"download", "verify", "delete"} \/ outcome = "ok"

(* An export writes to the directory of its own pull only, so a reply is   *)
(* of its own export; what was compared with the reply equals it.          *)
PullInv ==
  /\ PullShape
  /\ \A d \in Pulls : \A a \in artifacts[d] : a.job = d
  /\ \A j \in Pulls : jobs[j].request = "replied" => jobs[j].reply.job = j
  /\ desktop.pc # "idle" => desktop.job \in Pulls /\ outcome # "ok"
  /\ HoldsReply => desktop.job \in Pulls /\ jobs[desktop.job].request = "replied"
  /\ desktop.pc = "delete" \/ outcome = "ok" => local = Copy(jobs[desktop.job].reply, TRUE)

(* A step of the agent that changes one pull and its directory keeps the   *)
(* invariant when it leaves a reply that was given as it is, gives one of  *)
(* its own export and writes nothing else's.                               *)
LEMMA JobChange ==
    ASSUME PullInv, NEW j \in Pulls, NEW job, job = JobOf(job), NEW found,
           jobs' = [jobs EXCEPT ![j] = job],
           artifacts' = [artifacts EXCEPT ![j] = found],
           \A a \in found : a.job = j,
           jobs[j].request = "replied" =>
             job.request = "replied" /\ job.reply = jobs[j].reply,
           job.request = "replied" => job.reply.job = j,
           UNCHANGED <<desktop, local, outcome>>
    PROVE  PullInv'
<1> USE DEF PullInv, PullShape
<1>1. /\ \A k \in Pulls : jobs'[k] = IF k = j THEN job ELSE jobs[k]
      /\ \A d \in Pulls : artifacts'[d] = IF d = j THEN found ELSE artifacts[d]
  OBVIOUS
<1>2. PullShape'
  <2>1. \A k \in Pulls : jobs'[k] = JobOf(jobs'[k])
    BY <1>1
  <2> QED
    BY <1>1, <2>1
<1>3. /\ \A k \in Pulls : jobs'[k].request = "replied" => jobs'[k].reply.job = k
      /\ \A d \in Pulls : \A a \in artifacts'[d] : a.job = d
  BY <1>1
<1>4. \A k \in Pulls : jobs[k].request = "replied" =>
                         jobs'[k].request = "replied" /\ jobs'[k].reply = jobs[k].reply
  BY <1>1
<1> QED
  BY <1>2, <1>3, <1>4 DEF HoldsReply, Copy

(* Every step of an export and of the handler that waits for it keeps the  *)
(* invariant.                                                              *)
LEMMA AgentKeeps ==
    ASSUME PullInv, NEW j \in Pulls,
           BeginPart(j) \/ EndPart(j) \/ FailPart(j) \/ AnswerPull(j) \/ RefusePull(j)
    PROVE  PullInv'
<1> DEFINE job == jobs'[j]
           found == artifacts'[j]
<1>1. /\ jobs = [k \in Pulls |-> JobOf(jobs[k])] /\ jobs[j] = JobOf(jobs[j])
      /\ artifacts = [d \in Pulls |-> artifacts[d]]
      /\ \A a \in artifacts[j] : a.job = j
      /\ jobs[j].request = "replied" => jobs[j].reply.job = j
  BY DEF PullInv, PullShape
<1>2. Temporary(j).job = j /\ \A part, whole : PartOf(j, part, whole).job = j
  BY DEF Temporary, PartOf, Artifact
<1> SUFFICES /\ job = JobOf(job)
             /\ jobs' = [jobs EXCEPT ![j] = job]
             /\ artifacts' = [artifacts EXCEPT ![j] = found]
             /\ \A a \in found : a.job = j
             /\ jobs[j].request = "replied" =>
                   job.request = "replied" /\ job.reply = jobs[j].reply
             /\ job.request = "replied" => job.reply.job = j
             /\ UNCHANGED <<desktop, local, outcome>>
  <2> HIDE DEF job, found
  <2> QED
    BY JobChange
<1>3. CASE BeginPart(j)
  BY <1>1, <1>2, <1>3 DEF BeginPart, PullDirectory, JobOf
<1>4. CASE EndPart(j)
  <2>1. PICK todo, export :
          jobs' = [jobs EXCEPT ![j].writing = FALSE, ![j].todo = todo, ![j].export = export]
    BY <1>4 DEF EndPart
  <2>2. PICK file : /\ file.job = j
                    /\ artifacts' = [artifacts EXCEPT ![j] = (@ \ {Temporary(j)}) \cup {file}]
    BY <1>2, <1>4 DEF EndPart, PullDirectory
  <2>3. found = (artifacts[j] \ {Temporary(j)}) \cup {file}
    BY <1>1, <2>2
  <2>4. \A a \in found : a.job = j
    BY <1>1, <2>2, <2>3
  <2>5. artifacts' = [artifacts EXCEPT ![j] = found]
    BY <2>2, <2>3
  <2>6. job = [request |-> jobs[j].request, export |-> export, writing |-> FALSE,
               todo |-> todo, file |-> jobs[j].file, reply |-> jobs[j].reply]
    BY <1>1, <2>1 DEF JobOf
  <2>7. jobs' = [jobs EXCEPT ![j] = job]
    BY <2>1, <2>6, <1>1
  <2> HIDE DEF job, found
  <2>8. job = JobOf(job) /\ job.request = jobs[j].request /\ job.reply = jobs[j].reply
    BY <2>6 DEF JobOf
  <2> QED
    BY <1>1, <1>4, <2>4, <2>5, <2>7, <2>8 DEF EndPart
<1>5. CASE FailPart(j)
  BY <1>1, <1>5 DEF FailPart, PullDirectory, JobOf
<1>6. CASE AnswerPull(j)
  <2>1. PICK f \in FirstRegularFiles(artifacts[j]) :
          jobs' = [jobs EXCEPT ![j].request = "replied", ![j].reply = f]
    BY <1>6 DEF AnswerPull, PullDirectory
  <2>2. f.job = j
    BY <1>1, <2>1 DEF FirstRegularFiles
  <2> QED
    BY <1>1, <1>6, <2>1, <2>2 DEF AnswerPull, JobOf
<1>7. CASE RefusePull(j)
  BY <1>1, <1>7 DEF RefusePull, JobOf
<1> QED
  BY <1>3, <1>4, <1>5, <1>6, <1>7

(* A request that reaches the agent takes a pull that nobody has begun.    *)
LEMMA RequestKeeps ==
    ASSUME PullInv, NEW file \in PulledFile, RequestPull(file)
    PROVE  PullInv'
<1> DEFINE job == [request |-> "polling", export |-> "running", writing |-> FALSE,
                   todo |-> ExportedParts(file), file |-> file, reply |-> NoArtifact]
<1>1. PICK j \in Pulls :
        /\ jobs[j].request = "none"
        /\ jobs' = [jobs EXCEPT ![j] = job]
        /\ desktop' = [pc |-> "waiting", job |-> j]
  BY DEF RequestPull
<1>2. job = JobOf(job) /\ job.request = "polling"
  BY DEF JobOf
<1> HIDE DEF job
<1>3. \A k \in Pulls : jobs'[k] = IF k = j THEN job ELSE jobs[k]
  BY <1>1 DEF PullInv, PullShape
<1>4. \A k \in Pulls : jobs'[k] = JobOf(jobs'[k])
  BY <1>2, <1>3 DEF PullInv, PullShape
<1>5. PullShape'
  BY <1>1, <1>3, <1>4 DEF RequestPull, PullInv, PullShape
<1> QED
  BY <1>1, <1>2, <1>3, <1>5 DEF RequestPull, PullInv, HoldsReply

(* Every step of the desktop and of the agent keeps the invariant.         *)
LEMMA PullStepKeeps ==
    ASSUME PullInv, [PullNext]_pullVars
    PROVE  PullInv'
<1> USE DEF PullInv, HoldsReply
<1>0. ASSUME UNCHANGED <<jobs, artifacts>>, desktop' = [pc |-> desktop'.pc, job |-> desktop'.job]
      PROVE  PullShape'
  BY <1>0 DEF PullShape
<1>1. CASE RequestRefused
  BY <1>1 DEF RequestRefused, PullShape
<1>2. CASE RequestTimesOut
  BY <1>0, <1>2 DEF RequestTimesOut, NoCommand
<1>3. CASE ReceiveReply
  <2>1. CASE jobs[desktop.job].request = "replied" /\ desktop' = [desktop EXCEPT !.pc = "download"]
    <3>1. desktop' = [pc |-> "download", job |-> desktop.job] /\ outcome' = outcome
      BY <1>3, <2>1 DEF ReceiveReply, PullShape, NoCommand
    <3> QED
      BY <1>0, <1>3, <2>1, <3>1 DEF ReceiveReply
  <2>2. CASE desktop' = NoCommand /\ outcome' = "error"
    BY <1>0, <1>3, <2>2 DEF ReceiveReply, NoCommand
  <2> QED
    BY <1>3, <2>1, <2>2 DEF ReceiveReply
<1>4. CASE Download
  <2>1. CASE desktop' = [desktop EXCEPT !.pc = "verify"] /\ UNCHANGED outcome
    <3>1. desktop' = [pc |-> "verify", job |-> desktop.job]
      BY <2>1 DEF PullShape
    <3> QED
      BY <1>0, <1>4, <2>1, <3>1 DEF Download
  <2>2. CASE desktop' = NoCommand /\ outcome' = "error"
    BY <1>0, <1>4, <2>2 DEF Download, NoCommand
  <2> QED
    BY <1>4, <2>1, <2>2 DEF Download
<1>5. CASE VerifyDownload
  <2>1. CASE local = Copy(jobs[desktop.job].reply, TRUE)
    <3>1. desktop' = [pc |-> "delete", job |-> desktop.job] /\ outcome' = outcome
      BY <1>5, <2>1 DEF VerifyDownload, PullShape
    <3> QED
      BY <1>0, <1>5, <2>1, <3>1 DEF VerifyDownload
  <2>2. CASE local # Copy(jobs[desktop.job].reply, TRUE)
    <3>1. /\ desktop' = [pc |-> "idle", job |-> 0] /\ outcome' = "error"
          /\ UNCHANGED <<jobs, artifacts, local>>
      BY <1>5, <2>2 DEF VerifyDownload, NoCommand
    <3>2. PullShape'
      BY <1>0, <3>1
    <3> QED
      BY <3>1, <3>2
  <2> QED
    BY <2>1, <2>2
<1>6. CASE DeleteArtifact
  <2>1. /\ desktop.job \in Pulls /\ desktop' = [pc |-> "idle", job |-> desktop.job]
        /\ outcome' = "ok" /\ UNCHANGED <<jobs, local>>
        /\ local = Copy(jobs[desktop.job].reply, TRUE)
        /\ jobs[desktop.job].request = "replied"
    BY <1>6 DEF DeleteArtifact
  <2>2. /\ artifacts' = [d \in Pulls |-> artifacts'[d]]
        /\ \A d \in Pulls : artifacts'[d] \subseteq artifacts[d]
    BY <1>6, <2>1 DEF DeleteArtifact, PullDirectory, PullShape
  <2>3. PullShape'
    BY <2>1, <2>2 DEF PullShape
  <2> QED
    BY <2>1, <2>2, <2>3
<1>7. CASE UNCHANGED pullVars
  BY <1>7 DEF pullVars, PullShape
<1> QED
  BY <1>1, <1>2, <1>3, <1>4, <1>5, <1>6, <1>7, RequestKeeps, AgentKeeps DEF PullNext

(* A pull that the command reports as done has left at the destination,    *)
(* complete, a file that its own request's export wrote, whichever earlier *)
(* requests timed out and whatever their exports still write meanwhile.    *)
THEOREM PullIsVerified == PullSpec => []PullVerified
<1>1. PullInit => PullInv
  BY DEF PullInit, PullInv, PullShape, HoldsReply, JobOf, NoJob
<1>2. PullInv /\ [PullNext]_pullVars => PullInv'
  BY PullStepKeeps
<1>3. PullInv => PullVerified
  BY DEF PullInv, PullVerified, HoldsReply, Copy
<1> QED
  BY <1>1, <1>2, <1>3, PTL DEF PullSpec

-------------------------------------------------------------------------------

ImportSpec == ImportInit /\ [][ImportNext]_importVars

Container == [there : BOOLEAN, cells : [1..2 -> Nat], time : Nat]

ImportTypeOK ==
  /\ sources \in [Containers -> Container] /\ caches \in [Containers -> Container]
  /\ partials \in [Containers -> Seq(Nat)]
  /\ \A c \in Containers : Len(partials[c]) <= 2
  /\ copying \in Containers \cup {"none"}
  /\ served \in Containers \cup {Unregistered}
  /\ writes \in Nat

(* No file is newer than the last write.  Of a container that nobody wrote *)
(* behind a copy's back, what was copied so far is what the container      *)
(* holds, and so does an image that is as new as the container.            *)
ImportInv ==
  /\ ImportTypeOK
  /\ \A c \in Containers : sources[c].time <= writes /\ caches[c].time <= writes
  /\ \A c \in Containers \ disturbed :
       /\ \A k \in 1..Len(partials[c]) : partials[c][k] = sources[c].cells[k]
       /\ caches[c].there /\ caches[c].time >= sources[c].time =>
            caches[c].cells = sources[c].cells
  /\ AnalysisSeesTheSource

LEMMA ImportStarts == ImportInit => ImportInv
<1> SUFFICES ASSUME ImportInit PROVE ImportInv
  OBVIOUS
<1>1. <<1, 1>> \in [1..2 -> Nat] /\ <<0, 0>> \in [1..2 -> Nat]
  OBVIOUS
<1> QED
  BY <1>1
     DEF ImportInit, ImportInv, ImportTypeOK, Container, NoFile, AnalysisSeesTheSource,
         Unregistered

(* What a write makes of its container, and of no other one.               *)
LEMMA WriteMakes ==
    ASSUME ImportInv, NEW c \in Containers, WriteSource(c) \/ RestoreSource(c)
    PROVE  /\ sources' \in [Containers -> Container]
           /\ \A d \in Containers : d # c => sources'[d] = sources[d]
           /\ sources'[c].time <= writes' /\ writes' = writes + 1
           /\ \/ c \in disturbed'
              \/ sources'[c].time = writes + 1 /\ partials[c] = <<>>
<1>1. sources \in [Containers -> Container] /\ writes \in Nat
  BY DEF ImportInv, ImportTypeOK
<1>2. CASE WriteSource(c)
  <2>1. PICK cell \in {1, 2} :
          sources' = [sources EXCEPT ![c].cells[cell] = writes + 1, ![c].time = writes + 1]
    BY <1>2 DEF WriteSource
  <2>2. sources'[c].time = writes + 1
    BY <1>1, <2>1 DEF Container
  <2>3. sources'[c].cells \in [1..2 -> Nat]
    BY <1>1, <2>1 DEF Container
  <2>4. sources'[c].there = sources[c].there
    BY <1>1, <2>1 DEF Container
  <2>5. sources'[c] \in Container
    <3>1. sources'[c] = [there |-> sources[c].there, cells |-> sources'[c].cells,
                         time |-> writes + 1]
      BY <1>1, <2>1 DEF Container
    <3>2. sources[c].there \in BOOLEAN /\ writes + 1 \in Nat
      BY <1>1 DEF Container
    <3> HIDE <2>1
    <3> QED
      BY <2>3, <3>1, <3>2 DEF Container
  <2>6. DOMAIN sources' = Containers /\ \A d \in Containers : d # c => sources'[d] = sources[d]
    BY <1>1, <2>1
  <2>7. sources' \in [Containers -> Container]
    BY <1>1, <2>1, <2>5, <2>6
  <2> QED
    BY <1>1, <1>2, <2>2, <2>6, <2>7 DEF WriteSource
<1>3. CASE RestoreSource(c)
  <2>1. [there |-> TRUE, cells |-> <<1, 1>>, time |-> 1] \in Container
    BY DEF Container
  <2> QED
    BY <1>1, <1>3, <2>1 DEF RestoreSource
<1> QED
  BY <1>2, <1>3

LEMMA WriteKeeps ==
    ASSUME ImportInv, NEW c \in Containers, WriteSource(c) \/ RestoreSource(c)
    PROVE  ImportInv'
<1>1. /\ sources' \in [Containers -> Container]
      /\ \A d \in Containers : d # c => sources'[d] = sources[d]
      /\ sources'[c].time <= writes' /\ writes' = writes + 1
      /\ \/ c \in disturbed'
         \/ sources'[c].time = writes + 1 /\ partials[c] = <<>>
  BY WriteMakes
<1>2. /\ UNCHANGED <<caches, partials, copying>>
      /\ served' = IF served = c THEN Unregistered ELSE served
      /\ disturbed \subseteq disturbed'
  BY DEF WriteSource, RestoreSource
<1>3. \A d \in Containers : /\ sources[d].time \in Nat /\ caches[d].time \in Nat
                            /\ sources'[d].time \in Nat
  BY <1>1 DEF ImportInv, ImportTypeOK, Container
<1>4. ImportTypeOK'
  BY <1>1, <1>2 DEF ImportInv, ImportTypeOK
<1>5. \A d \in Containers : sources'[d].time <= writes' /\ caches'[d].time <= writes'
  <2>1. writes \in Nat /\ \A d \in Containers : sources[d].time <= writes /\ caches[d].time <= writes
    BY DEF ImportInv, ImportTypeOK
  <2> QED
    BY <1>1, <1>2, <1>3, <2>1
<1>6. ASSUME NEW d \in Containers \ disturbed'
      PROVE  /\ \A k \in 1..Len(partials'[d]) : partials'[d][k] = sources'[d].cells[k]
             /\ caches'[d].there /\ caches'[d].time >= sources'[d].time =>
                  caches'[d].cells = sources'[d].cells
  <2>1. CASE d # c
    BY <1>1, <1>2, <2>1 DEF ImportInv
  <2>2. CASE d = c
    <3>1. sources'[c].time = writes + 1 /\ partials[c] = <<>> /\ caches[c].time <= writes
      BY <1>1, <2>2 DEF ImportInv
    <3> QED
      BY <1>1, <1>2, <1>3, <2>2, <3>1 DEF ImportInv, ImportTypeOK
  <2> QED
    BY <2>1, <2>2
<1>7. AnalysisSeesTheSource'
  <2>1. Unregistered = Unregistered'
    BY DEF Unregistered
  <2> QED
    BY <1>1, <1>2, <2>1 DEF ImportInv, ImportTypeOK, AnalysisSeesTheSource
<1> QED
  BY <1>4, <1>5, <1>6, <1>7 DEF ImportInv

(* Moving a container away changes nothing of what was read from it.       *)
LEMMA DropKeeps ==
    ASSUME ImportInv, NEW c \in Containers, DropSource(c)
    PROVE  ImportInv'
<1>1. sources \in [Containers -> Container]
  BY DEF ImportInv, ImportTypeOK
<1>2. \A d \in Containers : /\ sources'[d] \in Container
                            /\ sources'[d].cells = sources[d].cells
                            /\ sources'[d].time = sources[d].time
  BY <1>1 DEF DropSource, Container
<1>3. sources' \in [Containers -> Container]
  BY <1>1, <1>2 DEF DropSource
<1>4. served' \in {served, Unregistered}
  BY DEF DropSource
<1> QED
  BY <1>2, <1>3, <1>4
     DEF DropSource, ImportInv, ImportTypeOK, AnalysisSeesTheSource, Unregistered

(* One cell more is copied: it is what the container holds now, and every  *)
(* cell before it still is when nobody wrote in between.                   *)
LEMMA CopyCellKeeps ==
    ASSUME ImportInv, CopyCell
    PROVE  ImportInv'
<1> DEFINE n == Len(partials[copying])
<1>1. /\ copying \in Containers /\ sources \in [Containers -> Container]
      /\ partials \in [Containers -> Seq(Nat)] /\ n \in Nat /\ n < 2
  BY DEF CopyCell, Idle, ImportInv, ImportTypeOK
<1>2. sources[copying].cells[n + 1] \in Nat
  <2>1. sources[copying].cells \in [1..2 -> Nat]
    BY <1>1 DEF Container
  <2>2. n + 1 \in 1..2
    BY <1>1
  <2> HIDE DEF n
  <2> QED
    BY <2>1, <2>2
<1>3. partials' = [partials EXCEPT ![copying] = Append(partials[copying], sources[copying].cells[n + 1])]
  BY DEF CopyCell
<1>4. /\ partials' \in [Containers -> Seq(Nat)]
      /\ Len(partials'[copying]) = n + 1
      /\ \A k \in 1..(n + 1) : partials'[copying][k] =
            IF k = n + 1 THEN sources[copying].cells[n + 1] ELSE partials[copying][k]
      /\ \A c \in Containers : c # copying => partials'[c] = partials[c]
  BY <1>1, <1>2, <1>3
<1>5. UNCHANGED <<sources, caches, copying, served, writes, disturbed>>
  BY DEF CopyCell
<1>6. ImportTypeOK'
  <2>1. \A c \in Containers : Len(partials'[c]) <= 2
    <3>1. \A c \in Containers : Len(partials[c]) <= 2
      BY DEF ImportInv, ImportTypeOK
    <3>2. Len(partials'[copying]) = n + 1 /\ n + 1 <= 2
      BY <1>1, <1>4
    <3>3. \A c \in Containers : c # copying => partials'[c] = partials[c]
      BY <1>4
    <3> HIDE DEF n
    <3> QED
      BY <3>1, <3>2, <3>3
  <2> QED
    BY <1>4, <1>5, <2>1 DEF ImportInv, ImportTypeOK
<1>7. ASSUME NEW c \in Containers \ disturbed, NEW k \in 1..Len(partials'[c])
      PROVE  partials'[c][k] = sources[c].cells[k]
  <2>1. \A i \in 1..Len(partials[c]) : partials[c][i] = sources[c].cells[i]
    BY DEF ImportInv
  <2>2. CASE c # copying
    BY <1>4, <2>1, <2>2
  <2>3. CASE c = copying
    <3>1. k = n + 1 \/ k \in 1..n
      BY <1>1, <1>4, <2>3
    <3>2. n = Len(partials[c])
      BY <2>3
    <3> HIDE DEF n
    <3> QED
      BY <1>1, <1>4, <2>1, <2>3, <3>1, <3>2
  <2> QED
    BY <2>2, <2>3
<1> QED
  BY <1>5, <1>6, <1>7 DEF ImportInv, AnalysisSeesTheSource

(* A copy that ends well is whole: it is an image of the container, unless *)
(* somebody wrote the container while the copy was under way.              *)
LEMMA FinishCopyKeeps ==
    ASSUME ImportInv, FinishCopy
    PROVE  ImportInv'
<1> DEFINE image == [there |-> TRUE, cells |-> partials[copying], time |-> writes]
<1>1. /\ copying \in Containers /\ sources \in [Containers -> Container]
      /\ caches \in [Containers -> Container]
      /\ partials \in [Containers -> Seq(Nat)] /\ Len(partials[copying]) = 2
      /\ writes \in Nat
  BY DEF FinishCopy, Idle, ImportInv, ImportTypeOK
<1>2. partials[copying] \in [1..2 -> Nat]
  <2> DEFINE copied == partials[copying]
  <2>1. copied \in Seq(Nat) /\ Len(copied) = 2
    BY <1>1
  <2> HIDE DEF copied
  <2>2. copied \in [1..Len(copied) -> Nat]
    BY <2>1
  <2>3. copied \in [1..2 -> Nat]
    BY <2>1, <2>2
  <2> QED
    BY <2>3 DEF copied
<1>3. image \in Container
  BY <1>1, <1>2 DEF Container
<1>4. /\ caches' = [caches EXCEPT ![copying] = image]
      /\ partials' = [partials EXCEPT ![copying] = <<>>]
      /\ served' = copying /\ copying' = "none"
      /\ UNCHANGED <<register, sources, writes, disturbed>>
  BY DEF FinishCopy
<1>5. ImportTypeOK'
  BY <1>1, <1>3, <1>4 DEF ImportInv, ImportTypeOK
<1>6. ASSUME copying \notin disturbed
      PROVE  partials[copying] = sources[copying].cells
  <2>1. \A k \in 1..2 : partials[copying][k] = sources[copying].cells[k]
    BY <1>1, <1>6 DEF ImportInv
  <2>2. sources[copying].cells \in [1..2 -> Nat]
    BY <1>1 DEF Container
  <2> QED
    BY <1>2, <2>1, <2>2
<1>7. \A c \in Containers : sources'[c].time <= writes' /\ caches'[c].time <= writes'
  <2>1. \A c \in Containers : sources[c].time <= writes /\ caches[c].time <= writes
    BY DEF ImportInv
  <2> QED
    BY <1>1, <1>4, <2>1
<1>8. ASSUME NEW c \in Containers \ disturbed'
      PROVE  /\ \A k \in 1..Len(partials'[c]) : partials'[c][k] = sources'[c].cells[k]
             /\ caches'[c].there /\ caches'[c].time >= sources'[c].time =>
                  caches'[c].cells = sources'[c].cells
  BY <1>1, <1>4, <1>6 DEF ImportInv
<1>9. AnalysisSeesTheSource'
  BY <1>1, <1>4, <1>6 DEF AnalysisSeesTheSource
<1> QED
  BY <1>5, <1>7, <1>8, <1>9 DEF ImportInv

(* A command on one container leaves every file but its image alone, and   *)
(* serves only an image that is as new as the container.                   *)
LEMMA CommandKeeps ==
    ASSUME ImportInv, NEW c \in Containers,
           ImportSource(c) \/ RemoveSource(c) \/ ServeCache(c) \/ BeginCopy(c)
    PROVE  ImportInv'
<1>1. CASE ImportSource(c)
  BY <1>1 DEF ImportSource, ImportInv, ImportTypeOK, AnalysisSeesTheSource, Unregistered
<1>2. CASE RemoveSource(c)
  <2>1. NoFile \in Container
    <3>1. <<0, 0>> \in [1..2 -> Nat]
      OBVIOUS
    <3> QED
      BY <3>1 DEF NoFile, Container
  <2>2. ~NoFile.there /\ NoFile.time = 0
    BY DEF NoFile
  <2>3. /\ caches' \in [Containers -> Container]
        /\ \A d \in Containers : caches'[d] \in {caches[d], NoFile}
    BY <1>2, <2>1 DEF RemoveSource, ImportInv, ImportTypeOK
  <2>4. served' = Unregistered /\ UNCHANGED <<sources, partials, copying, writes, disturbed>>
    BY <1>2 DEF RemoveSource
  <2>5. ImportTypeOK'
    BY <2>3, <2>4 DEF ImportInv, ImportTypeOK
  <2>6. AnalysisSeesTheSource'
    BY <2>4 DEF AnalysisSeesTheSource, Unregistered
  <2>7. \A d \in Containers : sources'[d].time <= writes' /\ caches'[d].time <= writes'
    <3>1. writes \in Nat /\ \A d \in Containers : sources[d].time <= writes /\ caches[d].time <= writes
      BY DEF ImportInv, ImportTypeOK
    <3> QED
      BY <2>2, <2>3, <2>4, <3>1
  <2> QED
    BY <2>2, <2>3, <2>4, <2>5, <2>6, <2>7 DEF ImportInv
<1>3. CASE ServeCache(c)
  <2>1. /\ served' = c /\ caches[c].there /\ caches[c].time >= sources[c].time
        /\ UNCHANGED <<sources, caches, partials, copying, writes, disturbed>>
    BY <1>3 DEF ServeCache, CacheIsCurrent
  <2>2. ImportTypeOK'
    BY <2>1 DEF ImportInv, ImportTypeOK
  <2> QED
    BY <2>1, <2>2 DEF ImportInv, AnalysisSeesTheSource
<1>4. CASE BeginCopy(c)
  <2>1. /\ copying' = c /\ served' = Unregistered
        /\ disturbed' = IF partials[c] = <<>> THEN disturbed \ {c} ELSE disturbed
        /\ ~(caches[c].there /\ caches[c].time >= sources[c].time)
        /\ UNCHANGED <<sources, caches, partials, writes>>
    BY <1>4 DEF BeginCopy, CacheIsCurrent
  <2>2. ImportTypeOK'
    BY <2>1 DEF ImportInv, ImportTypeOK
  <2>3. AnalysisSeesTheSource'
    BY <2>1 DEF AnalysisSeesTheSource, Unregistered
  <2> QED
    BY <2>1, <2>2, <2>3 DEF ImportInv
<1> QED
  BY <1>1, <1>2, <1>3, <1>4

(* The image a command gives for a container holds what the container      *)
(* holds, whatever removals, failed deletions, interrupted copies, torn    *)
(* registers and restarts came before, for every set of containers and any *)
(* number of writes; except a container written behind a copy's back, or   *)
(* put back by an older file.                                              *)
THEOREM ImagesAreCurrent == ImportSpec => []AnalysisSeesTheSource
<1>1. ImportInv /\ [ImportNext]_importVars => ImportInv'
  <2> SUFFICES ASSUME ImportInv, [ImportNext]_importVars PROVE ImportInv'
    OBVIOUS
  <2>1. CASE TearRegister
    BY <2>1 DEF TearRegister, ImportInv, ImportTypeOK, AnalysisSeesTheSource, Unregistered
  <2>2. CASE CopyEnds
    BY <2>2 DEF CopyEnds, ImportInv, ImportTypeOK, AnalysisSeesTheSource
  <2>3. CASE UNCHANGED importVars
    BY <2>3 DEF importVars, ImportInv, ImportTypeOK, AnalysisSeesTheSource
  <2> QED
    BY <2>1, <2>2, <2>3, CommandKeeps, WriteKeeps, DropKeeps, CopyCellKeeps, FinishCopyKeeps
       DEF ImportNext
<1>2. ImportInv => AnalysisSeesTheSource
  BY DEF ImportInv
<1> QED
  BY <1>1, <1>2, ImportStarts, PTL DEF ImportSpec

-------------------------------------------------------------------------------
(* The filesystem memory.                                                  *)

SchedulerSpec == SchedulerInit /\ [][SchedulerNext]_schedulerVars

NormalPolicies == Policies \ {"below"}

SchedulerThread == [state : {"none", "waiting", "ticking", "done"}, policy : NormalPolicies,
                    waited : Nat, told : {"no", "stop", "dropped"}]

Save == [pc : {"idle", "saved", "joining", "starting", "spawned"}, policy : NormalPolicies,
         thread : Threads \cup {0}]

SchedulerTypeOK ==
  /\ policyFile \in NormalPolicies
  /\ slot \in Threads \cup {0}
  /\ schedulers \in [Threads -> SchedulerThread]
  /\ saver \in [Savers -> Save]
  /\ savesOverlapped \in BOOLEAN
  /\ \A c \in Savers : saver[c].pc = "spawned" => saver[c].thread # 0

(* The saves after one of them is at another place, and the threads after  *)
(* one of them was told something; nobody is thread 0.                     *)
SaverAt(c, place, thread) ==
  [d \in Savers |-> IF d = c THEN [pc |-> place, policy |-> saver[c].policy, thread |-> thread]
                   ELSE saver[d]]

ThreadTold(i, what) ==
  [j \in Threads |-> IF j = i THEN [state |-> schedulers[i].state, policy |-> schedulers[i].policy,
                                   waited |-> schedulers[i].waited, told |-> what]
                    ELSE schedulers[j]]

LEMMA SaverFields ==
    ASSUME SchedulerTypeOK, NEW c \in Savers, NEW place, NEW thread
    PROVE  [saver EXCEPT ![c].pc = place, ![c].thread = thread] = SaverAt(c, place, thread)
<1> DEFINE new == [saver EXCEPT ![c].pc = place, ![c].thread = thread]
<1>1. saver \in [Savers -> Save]
  BY DEF SchedulerTypeOK
<1>2. new[c] = [pc |-> place, policy |-> saver[c].policy, thread |-> thread]
  BY <1>1 DEF Save
<1>3. DOMAIN new = Savers /\ \A d \in Savers : d # c => new[d] = saver[d]
  BY <1>1
<1> QED
  BY <1>2, <1>3 DEF SaverAt

LEMMA SlotTold ==
    ASSUME SchedulerTypeOK, NEW what
    PROVE  (IF slot = 0 THEN schedulers ELSE [schedulers EXCEPT ![slot].told = what])
             = ThreadTold(slot, what)
<1>1. schedulers \in [Threads -> SchedulerThread] /\ slot \in Threads \cup {0} /\ 0 \notin Threads
  BY DEF SchedulerTypeOK, Threads
<1>2. CASE slot = 0
  BY <1>1, <1>2 DEF ThreadTold
<1>3. CASE slot \in Threads
  <2> DEFINE new == [schedulers EXCEPT ![slot].told = what]
  <2>1. new[slot] = [state |-> schedulers[slot].state, policy |-> schedulers[slot].policy,
                     waited |-> schedulers[slot].waited, told |-> what]
    BY <1>1, <1>3 DEF SchedulerThread
  <2>2. DOMAIN new = Threads /\ \A j \in Threads : j # slot => new[j] = schedulers[j]
    BY <1>1, <1>3
  <2> QED
    BY <1>1, <1>3, <2>1, <2>2 DEF ThreadTold
<1> QED
  BY <1>1, <1>2, <1>3

LEMMA TakeHandleMakes ==
    ASSUME SchedulerTypeOK, NEW c \in Savers, TakeHandle(c)
    PROVE  /\ saver[c].pc = "saved" /\ slot' = 0
           /\ saver' = SaverAt(c, "joining", slot)
           /\ schedulers' = ThreadTold(slot, "stop")
           /\ UNCHANGED <<policyFile, savesOverlapped>>
  BY SaverFields, SlotTold DEF TakeHandle

(* The record of a new thread, and of a save that begins.                  *)
LEMMA NewRecords ==
    ASSUME NEW policy
    PROVE  /\ [NoThread EXCEPT !.state = "waiting", !.policy = policy]
                = [state |-> "waiting", policy |-> policy, waited |-> 0, told |-> "no"]
           /\ [AtRest EXCEPT !.pc = "saved", !.policy = policy]
                = [pc |-> "saved", policy |-> policy, thread |-> 0]
<1>1. /\ [NoThread EXCEPT !.state = "waiting", !.policy = policy]
           \in [state : {"waiting"}, policy : {policy}, waited : {0}, told : {"no"}]
      /\ [AtRest EXCEPT !.pc = "saved", !.policy = policy]
           \in [pc : {"saved"}, policy : {policy}, thread : {0}]
  BY DEF NoThread, AtRest
<1>2. /\ \A r \in [state : {"waiting"}, policy : {policy}, waited : {0}, told : {"no"}] :
           r = [state |-> "waiting", policy |-> policy, waited |-> 0, told |-> "no"]
      /\ \A r \in [pc : {"saved"}, policy : {policy}, thread : {0}] :
           r = [pc |-> "saved", policy |-> policy, thread |-> 0]
  OBVIOUS
<1> QED
  BY <1>1, <1>2

LEMMA SpawnThreadMakes ==
    ASSUME SchedulerTypeOK, NEW c \in Savers, SpawnThread(c)
    PROVE  \E i \in Threads :
             /\ saver[c].pc = "starting" /\ schedulers[i].state = "none"
             /\ saver' = SaverAt(c, "spawned", i)
             /\ schedulers' = [schedulers EXCEPT ![i] =
                  [state |-> "waiting", policy |-> saver[c].policy, waited |-> 0, told |-> "no"]]
             /\ UNCHANGED <<policyFile, slot, savesOverlapped>>
<1>1. PICK i \in Threads :
        /\ schedulers[i].state = "none"
        /\ schedulers' = [schedulers EXCEPT ![i] =
             [NoThread EXCEPT !.state = "waiting", !.policy = saver[c].policy]]
        /\ saver' = [saver EXCEPT ![c].pc = "spawned", ![c].thread = i]
  BY DEF SpawnThread
<1>2. saver' = SaverAt(c, "spawned", i)
  BY <1>1, SaverFields
<1>3. schedulers' = [schedulers EXCEPT ![i] =
        [state |-> "waiting", policy |-> saver[c].policy, waited |-> 0, told |-> "no"]]
  BY <1>1, NewRecords
<1> QED
  BY <1>1, <1>2, <1>3 DEF SpawnThread

LEMMA JoinThreadMakes ==
    ASSUME SchedulerTypeOK, NEW c \in Savers, JoinThread(c)
    PROVE  /\ saver[c].pc = "joining"
           /\ saver[c].thread # 0 => schedulers[saver[c].thread].state = "done"
           /\ IF Scheduled(saver[c].policy) THEN saver' = SaverAt(c, "starting", 0)
                                           ELSE saver' = [saver EXCEPT ![c] = AtRest]
           /\ UNCHANGED <<policyFile, slot, schedulers, savesOverlapped>>
<1>1. ASSUME Scheduled(saver[c].policy) PROVE saver' = SaverAt(c, "starting", 0)
  <2>1. saver' = [saver EXCEPT ![c] = [@ EXCEPT !.pc = "starting", !.thread = 0]]
    BY <1>1 DEF JoinThread
  <2>2. saver \in [Savers -> Save]
    BY DEF SchedulerTypeOK
  <2>3. saver'[c] = [pc |-> "starting", policy |-> saver[c].policy, thread |-> 0]
    BY <2>1, <2>2 DEF Save
  <2> QED
    BY <2>1, <2>2, <2>3 DEF SaverAt
<1> QED
  BY <1>1 DEF JoinThread

LEMMA InstallHandleMakes ==
    ASSUME SchedulerTypeOK, NEW c \in Savers, InstallHandle(c)
    PROVE  /\ saver[c].pc = "spawned" /\ slot' = saver[c].thread
           /\ saver' = [saver EXCEPT ![c] = AtRest]
           /\ schedulers' = ThreadTold(slot, "dropped")
           /\ UNCHANGED <<policyFile, savesOverlapped>>
  BY SlotTold DEF InstallHandle

LEMMA SavePolicyMakes ==
    ASSUME SchedulerTypeOK, NEW c \in Savers, NEW policy \in Policies, SavePolicy(c, policy)
    PROVE  /\ saver[c].pc = "idle" /\ policyFile' = Normalize(policy)
           /\ policyFile' \in NormalPolicies
           /\ saver' = [saver EXCEPT ![c] = [pc |-> "saved", policy |-> policyFile', thread |-> 0]]
           /\ savesOverlapped' = (savesOverlapped \/ \E d \in Savers : saver[d].pc # "idle")
           /\ UNCHANGED <<slot, schedulers>>
<1>1. Normalize(policy) \in NormalPolicies
  BY DEF Normalize, NormalPolicies, Policies
<1> QED
  BY <1>1, NewRecords DEF SavePolicy

(* A scheduler that polls its channel or ends a tick keeps its policy and  *)
(* what it was told; it is over only when it was told something.           *)
Runs(old, new) ==
  /\ new \in SchedulerThread
  /\ new.policy = old.policy /\ new.told = old.told
  /\ old.state \in {"waiting", "ticking"}
  /\ \/ new.state \in {"waiting", "ticking"}
     \/ new.state = "done" /\ old.told # "no"

LEMMA LoopRecords ==
    ASSUME NEW thread \in SchedulerThread
    PROVE  /\ thread.told # "no" /\ thread.state = "waiting" =>
                Runs(thread, [thread EXCEPT !.state = "done"])
           /\ thread.state = "waiting" =>
                Runs(thread, [thread EXCEPT !.waited = thread.waited + 1])
           /\ thread.state = "waiting" =>
                Runs(thread, [thread EXCEPT !.state = "ticking", !.waited = 0])
           /\ thread.state = "ticking" =>
                Runs(thread, [thread EXCEPT !.state = "waiting"])
<1> DEFINE ended == [thread EXCEPT !.state = "done"]
           polled == [thread EXCEPT !.waited = thread.waited + 1]
           ticks == [thread EXCEPT !.state = "ticking", !.waited = 0]
           rests == [thread EXCEPT !.state = "waiting"]
<1>1. /\ ended \in SchedulerThread /\ ended.state = "done"
      /\ ended.policy = thread.policy /\ ended.told = thread.told
  BY DEF SchedulerThread
<1>2. /\ polled \in SchedulerThread /\ polled.state = thread.state
      /\ polled.policy = thread.policy /\ polled.told = thread.told
  BY DEF SchedulerThread
<1>3. /\ ticks \in SchedulerThread /\ ticks.state = "ticking"
      /\ ticks.policy = thread.policy /\ ticks.told = thread.told
  BY DEF SchedulerThread
<1>4. /\ rests \in SchedulerThread /\ rests.state = "waiting"
      /\ rests.policy = thread.policy /\ rests.told = thread.told
  BY DEF SchedulerThread
<1> HIDE DEF ended, polled, ticks, rests
<1>5. /\ thread.told # "no" /\ thread.state = "waiting" => Runs(thread, ended)
      /\ thread.state = "waiting" => Runs(thread, polled) /\ Runs(thread, ticks)
      /\ thread.state = "ticking" => Runs(thread, rests)
  BY <1>1, <1>2, <1>3, <1>4 DEF Runs
<1> QED
  BY <1>5 DEF ended, polled, ticks, rests

LEMMA LoopMakes ==
    ASSUME SchedulerTypeOK, NEW i \in Threads, PollChannel(i) \/ EndTick(i)
    PROVE  \E r : /\ Runs(schedulers[i], r)
                  /\ schedulers' = [schedulers EXCEPT ![i] = r]
                  /\ UNCHANGED <<policyFile, slot, saver, savesOverlapped>>
<1> DEFINE thread == schedulers[i]
           ended == [thread EXCEPT !.state = "done"]
           polled == [thread EXCEPT !.waited = thread.waited + 1]
           ticks == [thread EXCEPT !.state = "ticking", !.waited = 0]
           rests == [thread EXCEPT !.state = "waiting"]
<1>1. thread \in SchedulerThread
  BY DEF SchedulerTypeOK
<1>2. /\ thread.told # "no" /\ thread.state = "waiting" => Runs(thread, ended)
      /\ thread.state = "waiting" => Runs(thread, polled) /\ Runs(thread, ticks)
      /\ thread.state = "ticking" => Runs(thread, rests)
  BY <1>1, LoopRecords
<1>3. CASE PollChannel(i)
  <2>1. thread.state = "waiting" /\ UNCHANGED <<policyFile, slot, saver, savesOverlapped>>
    BY <1>3 DEF PollChannel
  <2>2. CASE thread.told # "no"
    <3>1. schedulers' = [schedulers EXCEPT ![i] = ended]
      BY <1>3, <2>2 DEF PollChannel
    <3> HIDE DEF ended
    <3> QED
      BY <1>2, <2>1, <2>2, <3>1
  <2>3. CASE thread.told = "no" /\ thread.waited + 1 < PollsPerTick
    <3>1. schedulers' = [schedulers EXCEPT ![i] = polled]
      BY <1>3, <2>3 DEF PollChannel
    <3> HIDE DEF polled
    <3> QED
      BY <1>2, <2>1, <3>1
  <2>4. CASE thread.told = "no" /\ ~(thread.waited + 1 < PollsPerTick)
    <3>1. schedulers' = [schedulers EXCEPT ![i] = ticks]
      BY <1>3, <2>4 DEF PollChannel
    <3> HIDE DEF ticks
    <3> QED
      BY <1>2, <2>1, <3>1
  <2> QED
    BY <2>2, <2>3, <2>4
<1>4. CASE EndTick(i)
  <2>1. /\ thread.state = "ticking" /\ UNCHANGED <<policyFile, slot, saver, savesOverlapped>>
        /\ schedulers' = [schedulers EXCEPT ![i] = rests]
    BY <1>4 DEF EndTick
  <2> HIDE DEF rests
  <2> QED
    BY <1>2, <2>1
<1> QED
  BY <1>3, <1>4

-------------------------------------------------------------------------------

(* Every step keeps the types.                                             *)
LEMMA SchedulerTypeKept ==
    ASSUME SchedulerTypeOK, [SchedulerNext]_schedulerVars
    PROVE  SchedulerTypeOK'
<1>1. ASSUME NEW c \in Savers, NEW policy \in Policies, SavePolicy(c, policy)
      PROVE  SchedulerTypeOK'
  <2> DEFINE begun == [pc |-> "saved", policy |-> policyFile', thread |-> 0]
  <2>1. /\ policyFile' \in NormalPolicies
        /\ saver' = [saver EXCEPT ![c] = begun]
        /\ savesOverlapped' \in BOOLEAN
        /\ UNCHANGED <<slot, schedulers>>
    BY <1>1, SavePolicyMakes DEF SchedulerTypeOK
  <2>2. begun \in Save /\ begun.pc = "saved"
    BY <2>1 DEF Save
  <2> HIDE DEF begun
  <2> QED
    BY <2>1, <2>2 DEF SchedulerTypeOK
<1>2. ASSUME NEW place \in {"joining", "starting", "spawned"}, NEW thread \in Threads \cup {0},
             NEW c \in Savers, place = "spawned" => thread # 0
      PROVE  /\ SaverAt(c, place, thread) \in [Savers -> Save]
             /\ \A d \in Savers : SaverAt(c, place, thread)[d].pc = "spawned" =>
                                   SaverAt(c, place, thread)[d].thread # 0
  BY <1>2 DEF SaverAt, SchedulerTypeOK, Save
<1>3. ASSUME NEW i \in Threads \cup {0}, NEW what \in {"no", "stop", "dropped"}
      PROVE  ThreadTold(i, what) \in [Threads -> SchedulerThread]
  BY DEF ThreadTold, SchedulerTypeOK, SchedulerThread
<1>4. ASSUME NEW c \in Savers, TakeHandle(c)
      PROVE  SchedulerTypeOK'
  <2>1. /\ slot' = 0 /\ saver' = SaverAt(c, "joining", slot)
        /\ schedulers' = ThreadTold(slot, "stop")
        /\ UNCHANGED <<policyFile, savesOverlapped>>
    BY <1>4, TakeHandleMakes
  <2>2. slot \in Threads \cup {0}
    BY DEF SchedulerTypeOK
  <2> QED
    BY <1>2, <1>3, <2>1, <2>2 DEF SchedulerTypeOK
<1>5. AtRest \in Save /\ AtRest.pc = "idle"
  BY DEF AtRest, Save, NormalPolicies, Policies
<1>6. ASSUME NEW c \in Savers, JoinThread(c)
      PROVE  SchedulerTypeOK'
  <2>1. /\ saver' = SaverAt(c, "starting", 0) \/ saver' = [saver EXCEPT ![c] = AtRest]
        /\ UNCHANGED <<policyFile, slot, schedulers, savesOverlapped>>
    BY <1>6, JoinThreadMakes
  <2>2. CASE saver' = SaverAt(c, "starting", 0)
    <3>1. /\ SaverAt(c, "starting", 0) \in [Savers -> Save]
          /\ \A d \in Savers : SaverAt(c, "starting", 0)[d].pc = "spawned" =>
                                SaverAt(c, "starting", 0)[d].thread # 0
      BY <1>2
    <3> QED
      BY <2>1, <2>2, <3>1 DEF SchedulerTypeOK
  <2>3. CASE saver' = [saver EXCEPT ![c] = AtRest]
    BY <1>5, <2>1, <2>3 DEF SchedulerTypeOK
  <2> QED
    BY <2>1, <2>2, <2>3
<1>7. ASSUME NEW c \in Savers, SpawnThread(c)
      PROVE  SchedulerTypeOK'
  <2>1. PICK i \in Threads :
          /\ saver' = SaverAt(c, "spawned", i)
          /\ schedulers' = [schedulers EXCEPT ![i] =
               [state |-> "waiting", policy |-> saver[c].policy, waited |-> 0, told |-> "no"]]
          /\ UNCHANGED <<policyFile, slot, savesOverlapped>>
    BY <1>7, SpawnThreadMakes
  <2>2. [state |-> "waiting", policy |-> saver[c].policy, waited |-> 0, told |-> "no"]
          \in SchedulerThread
    BY DEF SchedulerTypeOK, Save, SchedulerThread
  <2>3. i # 0
    BY DEF Threads
  <2> QED
    BY <1>2, <2>1, <2>2, <2>3 DEF SchedulerTypeOK
<1>8. ASSUME NEW c \in Savers, InstallHandle(c)
      PROVE  SchedulerTypeOK'
  <2>1. saver[c].thread \in Threads \cup {0}
    BY DEF SchedulerTypeOK, Save
  <2> QED
    BY <1>3, <1>5, <1>8, <2>1, InstallHandleMakes DEF SchedulerTypeOK
<1>9. ASSUME NEW i \in Threads, PollChannel(i) \/ EndTick(i)
      PROVE  SchedulerTypeOK'
  BY <1>9, LoopMakes DEF SchedulerTypeOK, Runs
<1>10. CASE UNCHANGED schedulerVars
  BY <1>10 DEF schedulerVars, SchedulerTypeOK
<1> QED
  BY <1>1, <1>4, <1>6, <1>7, <1>8, <1>9, <1>10 DEF SchedulerNext

(* Every thread that nobody told to leave stays in reach, whichever saves  *)
(* overlap: a handle leaves the slot only with a word to its thread, and a *)
(* thread is spawned by the very save that will put it in the slot.        *)
LEMMA ReachKept ==
    ASSUME SchedulerTypeOK, NoStrayScheduler, [SchedulerNext]_schedulerVars
    PROVE  NoStrayScheduler'
<1> USE DEF NoStrayScheduler, Alive
<1>1. ASSUME NEW c \in Savers, NEW policy \in Policies, SavePolicy(c, policy)
      PROVE  NoStrayScheduler'
  <2>1. /\ saver[c].pc = "idle" /\ \A d \in Savers : d # c => saver'[d] = saver[d]
        /\ UNCHANGED <<slot, schedulers>>
    BY <1>1, SavePolicyMakes DEF SchedulerTypeOK
  <2> QED
    BY <2>1
<1>2. ASSUME NEW c \in Savers, TakeHandle(c)
      PROVE  NoStrayScheduler'
  <2>1. saver[c].pc = "saved" /\ \A d \in Savers : d # c => saver'[d] = saver[d]
    BY <1>2, TakeHandleMakes DEF SaverAt
  <2>2. /\ slot \in Threads => schedulers'[slot].told = "stop"
        /\ \A i \in Threads : i # slot => schedulers'[i] = schedulers[i]
    BY <1>2, TakeHandleMakes DEF ThreadTold
  <2> QED
    BY <2>1, <2>2
<1>3. ASSUME NEW c \in Savers, JoinThread(c)
      PROVE  NoStrayScheduler'
  <2>1. /\ saver[c].pc = "joining" /\ \A d \in Savers : d # c => saver'[d] = saver[d]
        /\ UNCHANGED <<slot, schedulers>>
    BY <1>3, JoinThreadMakes DEF SaverAt, SchedulerTypeOK
  <2> QED
    BY <2>1
<1>4. ASSUME NEW c \in Savers, SpawnThread(c)
      PROVE  NoStrayScheduler'
  <2>1. PICK n \in Threads :
          /\ saver' = SaverAt(c, "spawned", n)
          /\ schedulers' = [schedulers EXCEPT ![n] =
               [state |-> "waiting", policy |-> saver[c].policy, waited |-> 0, told |-> "no"]]
          /\ saver[c].pc = "starting" /\ UNCHANGED slot
    BY <1>4, SpawnThreadMakes
  <2>2. /\ saver'[c].pc = "spawned" /\ saver'[c].thread = n
        /\ \A d \in Savers : d # c => saver'[d] = saver[d]
        /\ \A i \in Threads : i # n => schedulers'[i] = schedulers[i]
    BY <2>1 DEF SaverAt, SchedulerTypeOK
  <2> QED
    BY <2>1, <2>2
<1>5. ASSUME NEW c \in Savers, InstallHandle(c)
      PROVE  NoStrayScheduler'
  <2>1. /\ slot' = saver[c].thread
        /\ \A d \in Savers : d # c => saver'[d] = saver[d]
    BY <1>5, InstallHandleMakes DEF SchedulerTypeOK
  <2>2. /\ slot \in Threads => schedulers'[slot].told = "dropped"
        /\ \A i \in Threads : i # slot => schedulers'[i] = schedulers[i]
    BY <1>5, InstallHandleMakes DEF ThreadTold
  <2> QED
    BY <2>1, <2>2
<1>6. ASSUME NEW i \in Threads, PollChannel(i) \/ EndTick(i)
      PROVE  NoStrayScheduler'
  <2>1. /\ schedulers'[i].told = schedulers[i].told
        /\ schedulers[i].state \in {"waiting", "ticking"}
        /\ \A j \in Threads : j # i => schedulers'[j] = schedulers[j]
        /\ UNCHANGED <<slot, saver>>
    BY <1>6, LoopMakes DEF Runs, SchedulerTypeOK
  <2> QED
    BY <2>1
<1>7. CASE UNCHANGED schedulerVars
  BY <1>7 DEF schedulerVars
<1> QED
  BY <1>1, <1>2, <1>3, <1>4, <1>5, <1>6, <1>7 DEF SchedulerNext

LEMMA SchedulerStarts == SchedulerInit => SchedulerTypeOK /\ NoStrayScheduler
<1> SUFFICES ASSUME SchedulerInit PROVE SchedulerTypeOK /\ NoStrayScheduler
  OBVIOUS
<1>1. policyFile \in NormalPolicies
  BY DEF SchedulerInit, NormalPolicies, Policies, Normalize
<1>2. schedulers \in [Threads -> SchedulerThread] /\ \A i \in Threads : schedulers[i].state = "none"
  BY DEF SchedulerInit, NoThread, SchedulerThread, NormalPolicies, Policies
<1>3. PICK first \in Savers :
        saver = [c \in Savers |-> IF c = first
                  THEN [pc |-> "saved", policy |-> policyFile, thread |-> 0] ELSE AtRest]
  <2>1. [AtRest EXCEPT !.pc = "saved", !.policy = policyFile]
          = [pc |-> "saved", policy |-> policyFile, thread |-> 0]
    BY NewRecords
  <2> QED
    BY <2>1 DEF SchedulerInit
<1>4. saver \in [Savers -> Save] /\ \A c \in Savers : saver[c].pc # "spawned"
  BY <1>1, <1>3 DEF Save, AtRest, NormalPolicies, Policies
<1> QED
  BY <1>1, <1>2, <1>4 DEF SchedulerInit, SchedulerTypeOK, NoStrayScheduler, Alive

(* However saves overlap, no scheduler thread goes on out of reach of the  *)
(* next save.                                                              *)
THEOREM NoSchedulerStrays == SchedulerSpec => []NoStrayScheduler
<1>1. SchedulerTypeOK /\ NoStrayScheduler /\ [SchedulerNext]_schedulerVars
        => (SchedulerTypeOK /\ NoStrayScheduler)'
  BY SchedulerTypeKept, ReachKept
<1> QED
  BY <1>1, SchedulerStarts, PTL DEF SchedulerSpec

-------------------------------------------------------------------------------

(* The thread i, and no other, is alive, was told nothing and goes by the  *)
(* policy; nobody is alive when it is 0.                                   *)
OnlyRuns(i) == \A j \in Threads : /\ Alive(j) <=> j = i
                                  /\ j = i => schedulers[j].told = "no"

(* Where a save that nothing overlaps is, and what runs meanwhile.         *)
SaveInv ==
  /\ \A c, d \in Savers : c # d => saver[c].pc = "idle" \/ saver[d].pc = "idle"
  /\ \A c \in Savers :
       /\ saver[c].pc # "idle" => saver[c].policy = policyFile
       /\ saver[c].pc \in {"joining", "starting", "spawned"} => slot = 0
       /\ saver[c].pc \in {"starting", "spawned"} => Scheduled(policyFile)
       /\ saver[c].pc = "saved" => OnlyRuns(slot)
       /\ saver[c].pc = "joining" =>
            \A i \in Threads : Alive(i) => i = saver[c].thread
       /\ saver[c].pc = "starting" => OnlyRuns(0)
       /\ saver[c].pc = "spawned" => /\ OnlyRuns(saver[c].thread)
                                     /\ schedulers[saver[c].thread].policy = policyFile
  /\ (\A c \in Savers : saver[c].pc = "idle") =>
       /\ OnlyRuns(slot)
       /\ (slot # 0) = Scheduled(policyFile)
       /\ slot # 0 => schedulers[slot].policy = policyFile

(* A save begins, takes the handle, waits for the thread, spawns its own   *)
(* and installs it: each step hands over to the next what it relies on.    *)
LEMMA SaveKept ==
    ASSUME SchedulerTypeOK, ~savesOverlapped => SaveInv, [SchedulerNext]_schedulerVars,
           ~savesOverlapped'
    PROVE  SaveInv'
<1>0. SaveInv
  <2>1. savesOverlapped = FALSE
    <3>1. CASE UNCHANGED savesOverlapped
      BY <3>1 DEF SchedulerTypeOK
    <3>2. ASSUME NEW c \in Savers, NEW policy \in Policies, SavePolicy(c, policy)
          PROVE  savesOverlapped = FALSE
      BY <3>2 DEF SavePolicy, SchedulerTypeOK
    <3> QED
      BY <3>1, <3>2
         DEF SchedulerNext, schedulerVars, TakeHandle, JoinThread, SpawnThread, InstallHandle,
             PollChannel, EndTick
  <2> QED
    BY <2>1
<1>1. ASSUME NEW c \in Savers, NEW policy \in Policies, SavePolicy(c, policy)
      PROVE  SaveInv'
  <2>1. /\ \A d \in Savers : saver[d].pc = "idle"
        /\ UNCHANGED <<slot, schedulers>>
    BY <1>1, SavePolicyMakes
  <2>2. /\ saver'[c].pc = "saved" /\ saver'[c].policy = policyFile'
        /\ \A d \in Savers : d # c => saver'[d].pc = "idle"
    BY <1>1, <2>1, SavePolicyMakes DEF SchedulerTypeOK
  <2> QED
    BY <1>0, <2>1, <2>2 DEF SaveInv, OnlyRuns, Alive
<1>2. ASSUME NEW c \in Savers, TakeHandle(c)
      PROVE  SaveInv'
  <2>1. /\ saver[c].pc = "saved" /\ slot' = 0 /\ policyFile' = policyFile
        /\ \A d \in Savers : d # c => saver'[d] = saver[d]
        /\ saver'[c].pc = "joining" /\ saver'[c].policy = saver[c].policy
        /\ saver'[c].thread = slot
    BY <1>2, TakeHandleMakes DEF SaverAt
  <2>2. \A i \in Threads : schedulers'[i].state = schedulers[i].state
    BY <1>2, TakeHandleMakes DEF ThreadTold, SchedulerTypeOK
  <2> QED
    BY <1>0, <2>1, <2>2 DEF SaveInv, OnlyRuns, Alive
<1>3. ASSUME NEW c \in Savers, JoinThread(c)
      PROVE  SaveInv'
  <2>1. /\ saver[c].pc = "joining"
        /\ UNCHANGED <<policyFile, slot, schedulers>>
        /\ \A d \in Savers : d # c => saver'[d] = saver[d]
    BY <1>3, JoinThreadMakes DEF SaverAt, SchedulerTypeOK
  <2>2. slot = 0 /\ saver[c].policy = policyFile /\ \A d \in Savers : d # c => saver[d].pc = "idle"
    BY <1>0, <2>1 DEF SaveInv
  <2>3. OnlyRuns(0)
    BY <1>0, <1>3, <2>1, JoinThreadMakes DEF SaveInv, OnlyRuns, Alive, Threads
  <2>4. CASE Scheduled(saver[c].policy)
    <3>1. /\ saver'[c].pc = "starting" /\ saver'[c].policy = saver[c].policy
      BY <1>3, <2>4, JoinThreadMakes DEF SaverAt
    <3>2. OnlyRuns(0)' /\ Scheduled(policyFile')
      BY <2>1, <2>2, <2>3, <2>4 DEF OnlyRuns, Alive, Scheduled
    <3> QED
      BY <2>1, <2>2, <3>1, <3>2 DEF SaveInv
  <2>5. CASE ~Scheduled(saver[c].policy)
    <3>1. saver'[c].pc = "idle"
      BY <1>3, <2>5, JoinThreadMakes DEF SchedulerTypeOK, AtRest
    <3>2. OnlyRuns(slot)' /\ slot' = 0 /\ Scheduled(policyFile') = FALSE
      BY <2>1, <2>2, <2>3, <2>5 DEF OnlyRuns, Alive, Scheduled
    <3> QED
      BY <2>1, <2>2, <3>1, <3>2 DEF SaveInv
  <2> QED
    BY <2>4, <2>5
<1>4. ASSUME NEW c \in Savers, SpawnThread(c)
      PROVE  SaveInv'
  <2>1. PICK n \in Threads :
          /\ saver' = SaverAt(c, "spawned", n)
          /\ schedulers' = [schedulers EXCEPT ![n] =
               [state |-> "waiting", policy |-> saver[c].policy, waited |-> 0, told |-> "no"]]
          /\ saver[c].pc = "starting" /\ UNCHANGED <<policyFile, slot>>
    BY <1>4, SpawnThreadMakes
  <2>2. /\ saver'[c].pc = "spawned" /\ saver'[c].thread = n /\ saver'[c].policy = saver[c].policy
        /\ \A d \in Savers : d # c => saver'[d] = saver[d]
    BY <2>1 DEF SaverAt
  <2>3. /\ schedulers'[n].state = "waiting" /\ schedulers'[n].told = "no"
        /\ schedulers'[n].policy = saver[c].policy
        /\ \A i \in Threads : i # n => schedulers'[i] = schedulers[i]
    BY <2>1 DEF SchedulerTypeOK
  <2>4. 0 \notin Threads
    BY DEF Threads
  <2> QED
    BY <1>0, <2>1, <2>2, <2>3, <2>4 DEF SaveInv, OnlyRuns, Alive
<1>5. ASSUME NEW c \in Savers, InstallHandle(c)
      PROVE  SaveInv'
  <2>1. /\ saver[c].pc = "spawned" /\ slot' = saver[c].thread /\ policyFile' = policyFile
        /\ \A d \in Savers : d # c => saver'[d] = saver[d]
        /\ saver'[c].pc = "idle"
    BY <1>5, InstallHandleMakes DEF SchedulerTypeOK, AtRest
  <2>2. slot = 0 /\ saver[c].thread # 0
    BY <1>0, <2>1 DEF SaveInv, SchedulerTypeOK
  <2>3. schedulers' = schedulers
    BY <1>5, <2>2 DEF InstallHandle
  <2>4. /\ \A d \in Savers : saver'[d].pc = "idle"
        /\ schedulers'[slot'].policy = policyFile' /\ Scheduled(policyFile') = TRUE
    BY <1>0, <2>1, <2>3 DEF SaveInv, Scheduled
  <2>5. OnlyRuns(slot)'
    BY <1>0, <2>1, <2>3 DEF SaveInv, OnlyRuns, Alive
  <2> QED
    BY <2>1, <2>2, <2>4, <2>5 DEF SaveInv
<1>6. ASSUME NEW i \in Threads, PollChannel(i) \/ EndTick(i)
      PROVE  SaveInv'
  <2>1. /\ schedulers'[i].told = schedulers[i].told
        /\ schedulers'[i].policy = schedulers[i].policy
        /\ Alive(i) /\ (Alive(i)' \/ schedulers[i].told # "no")
        /\ \A j \in Threads : j # i => schedulers'[j] = schedulers[j]
        /\ UNCHANGED <<policyFile, slot, saver>>
    BY <1>6, LoopMakes DEF Runs, SchedulerTypeOK, Alive
  <2>2. \A j \in Threads \cup {0} : OnlyRuns(j) => OnlyRuns(j)'
    BY <2>1 DEF OnlyRuns, Alive
  <2> QED
    BY <1>0, <2>1, <2>2 DEF SaveInv, Alive, SchedulerTypeOK, Save
<1>7. CASE UNCHANGED schedulerVars
  BY <1>0, <1>7 DEF schedulerVars, SaveInv, OnlyRuns, Alive
<1> QED
  BY <1>1, <1>2, <1>3, <1>4, <1>5, <1>6, <1>7 DEF SchedulerNext

(* When saves follow one another, what runs after the last one is what the *)
(* policy file says.                                                       *)
THEOREM SchedulerIsWhatWasSaved == SchedulerSpec => []SchedulerFollowsPolicy
<1> DEFINE Inv == SchedulerTypeOK /\ (~savesOverlapped => SaveInv)
<1>1. SchedulerInit => Inv
  <2> SUFFICES ASSUME SchedulerInit PROVE SaveInv
    BY SchedulerStarts
  <2>1. PICK first \in Savers :
          saver = [c \in Savers |-> IF c = first
                    THEN [AtRest EXCEPT !.pc = "saved", !.policy = policyFile] ELSE AtRest]
    BY DEF SchedulerInit
  <2>2. /\ saver[first].pc = "saved" /\ saver[first].policy = policyFile
        /\ \A c \in Savers : c # first => saver[c].pc = "idle"
    <3>1. saver[first] = [pc |-> "saved", policy |-> policyFile, thread |-> 0]
      BY <2>1, NewRecords
    <3> QED
      BY <2>1, <3>1 DEF AtRest
  <2>3. slot = 0 /\ \A i \in Threads : ~Alive(i) /\ i # 0
    BY DEF SchedulerInit, NoThread, Alive, Threads
  <2> QED
    BY <2>2, <2>3 DEF SaveInv, OnlyRuns
<1>2. Inv /\ [SchedulerNext]_schedulerVars => Inv'
  BY SchedulerTypeKept, SaveKept
<1>3. Inv => SchedulerFollowsPolicy
  BY DEF SaveInv, SchedulerFollowsPolicy, OnlyRuns, SchedulerTypeOK, Threads
<1> QED
  BY <1>1, <1>2, <1>3, PTL DEF SchedulerSpec

-------------------------------------------------------------------------------
(* The store of snapshots, as long as its two writers do not overlap and   *)
(* no two snapshots are of one millisecond.                                *)

StoreSpec == MemoryInit /\ [][MemoryNext]_memoryVars

(* The shape of the state; what a snapshot is of is left open.             *)
Row(pc, phase, todo, snap, doc, inode) ==
  [pc |-> pc, phase |-> phase, todo |-> todo, snap |-> snap, doc |-> doc, inode |-> inode]

DiskShape ==
  /\ store = [file |-> store.file, tmp |-> store.tmp, data |-> store.data]
  /\ store.file \in Inodes \cup {0} /\ store.tmp \in Inodes \cup {0}
  /\ DOMAIN store.data = Inodes
  /\ store.tmp # 0 => store.tmp # store.file

WriterShape ==
  /\ writer = [w \in Writers |-> writer[w]]
  /\ \A w \in Writers :
       /\ writer[w] = Row(writer[w].pc, writer[w].phase, writer[w].todo, writer[w].snap,
                          writer[w].doc, writer[w].inode)
       /\ writer[w].pc \in {"idle", "capture", "load", "open", "fill", "rename"}
       /\ writer[w].phase \in {"none", "persist", "rotate"}
       /\ writer[w].inode \in Inodes \cup {0}

NoRepeats(list) == \A i, j \in DOMAIN list : list[i] = list[j] => i = j

(* A set of snapshots that were taken before a time, one at a time.        *)
TakenBefore(snaps, time) ==
  /\ IsFiniteSet(snaps)
  /\ \A s \in snaps : s.at \in Nat /\ s.at < time
  /\ \A s, t \in snaps : s.at = t.at => s = t

(* A list holds the newest finished snapshots of each target among those,  *)
(* and every unfinished one.                                               *)
PushedOut(snap, snaps) ==
  /\ ~snap.running
  /\ Cardinality({s \in snaps : s.target = snap.target /\ ~s.running /\ s.at > snap.at})
       >= MaxPerTarget

HoldsNewest(list, snaps) ==
  /\ list \in Seq(snaps) /\ NoRepeats(list)
  /\ \A snap \in snaps : snap \in Range(list) \/ PushedOut(snap, snaps)

(* What the one writer at work has in its hands.                           *)
AtWork(w) ==
  /\ writer[w].pc \in {"load", "open", "fill", "rename"} =>
       /\ writer[w].phase \in {"persist", "rotate"}
       /\ writer[w].phase = "persist" =>
            /\ TakenBefore(captured, writer[w].snap.at)
            /\ writer[w].snap.at \in Nat /\ writer[w].snap.at < clock
  /\ writer[w].pc \in {"open", "fill", "rename"} =>
       writer[w].doc = IF writer[w].phase = "persist"
                       THEN WithSnapshot(LoadedSnapshots, writer[w].snap)
                       ELSE Rotated(LoadedSnapshots, writer[w].snap.target)
  /\ writer[w].pc \in {"fill", "rename"} =>
       store.tmp = writer[w].inode /\ writer[w].inode \in Inodes
  /\ writer[w].pc = "fill" => store.data[writer[w].inode] = Blank
  /\ writer[w].pc = "rename" => store.data[writer[w].inode] = Whole(writer[w].doc)

StoreInv ==
  ~storeRaced =>
    /\ DiskShape /\ WriterShape /\ clock \in Nat
    /\ \A v, w \in Writers : v # w => writer[v].pc = "idle" \/ writer[w].pc = "idle"
    /\ \A w \in Writers : writer[w].pc = "idle" => writer[w] = Resting
    /\ TakenBefore(captured, clock)
    /\ HoldsNewest(LoadedSnapshots, captured)
    /\ \A w \in Writers : AtWork(w)

LEMMA FilteredUpToIs ==
    ASSUME NEW S, NEW list \in Seq(S), NEW places
    PROVE  /\ FilteredUpTo(list, places)[0] = <<>>
           /\ \A n \in 1..Len(list) :
                FilteredUpTo(list, places)[n] =
                  IF n \in places THEN Append(FilteredUpTo(list, places)[n - 1], list[n])
                  ELSE FilteredUpTo(list, places)[n - 1]
<1> DEFINE N == Len(list)
           Step(f) == [n \in 0..N |-> IF n = 0 THEN <<>>
                                      ELSE IF n \in places THEN Append(f[n - 1], list[n])
                                      ELSE f[n - 1]]
           next == [x \in (1..N) \X Seq(S) |->
                      IF x[1] \in places THEN Append(x[2], list[x[1]]) ELSE x[2]]
<1>1. N \in Nat /\ \A n \in 1..N : list[n] \in S
  OBVIOUS
<1>2. \E f : f = Step(f)
  <2>1. next \in [(1..N) \X Seq(S) -> Seq(S)]
    <3>1. \A n \in 1..N, l \in Seq(S) : Append(l, list[n]) \in Seq(S)
      BY <1>1
    <3> HIDE DEF N
    <3> QED
      BY <3>1
  <2>2. PICK f \in [0..N -> Seq(S)] : Iterated(f, <<>>, N, next)
    <3>1. N \in Nat /\ <<>> \in Seq(S)
      BY <1>1
    <3> HIDE DEF next, N
    <3> QED
      BY <3>1, <2>1, Iterates
  <2>3. \A n \in 1..N : f[n] = IF n \in places THEN Append(f[n - 1], list[n]) ELSE f[n - 1]
    <3> SUFFICES ASSUME NEW n \in 1..N
                 PROVE  f[n] = IF n \in places THEN Append(f[n - 1], list[n]) ELSE f[n - 1]
      OBVIOUS
    <3>1. n - 1 \in 0..N
      BY <1>1
    <3>2. f[n - 1] \in Seq(S)
      <4> HIDE DEF N
      <4> QED
        BY <3>1, <2>2
    <3>3. f[n] = next[<<n, f[n - 1]>>]
      BY <2>2 DEF Iterated
    <3> HIDE DEF N
    <3> QED
      BY <3>2, <3>3
  <2>4. f = Step(f)
    <3>1. f[0] = <<>>
      BY <2>2 DEF Iterated
    <3>2. DOMAIN f = 0..N /\ f = [n \in 0..N |-> f[n]]
      BY <2>2
    <3>3. \A n \in 0..N : n = 0 \/ n \in 1..N
      BY <1>1
    <3> HIDE DEF N
    <3>4. \A n \in 0..N : f[n] = IF n = 0 THEN <<>>
                                 ELSE IF n \in places THEN Append(f[n - 1], list[n])
                                 ELSE f[n - 1]
      BY <2>3, <3>1, <3>3
    <3> QED
      BY <3>2, <3>4
  <2> QED
    BY <2>4
<1>3. FilteredUpTo(list, places) = CHOOSE f : f = Step(f)
  BY DEF FilteredUpTo
<1>4. FilteredUpTo(list, places) = Step(FilteredUpTo(list, places))
  <2> HIDE DEF Step
  <2> QED
    BY <1>2, <1>3, Zenon
<1> DEFINE F == FilteredUpTo(list, places)
<1>5. \A n \in 0..N : F[n] = IF n = 0 THEN <<>>
                             ELSE IF n \in places THEN Append(F[n - 1], list[n])
                             ELSE F[n - 1]
  BY <1>4
<1> HIDE DEF F
<1>6. \A n \in 1..N : n \in 0..N /\ n # 0
  BY <1>1
<1>7. 0 \in 0..N
  BY <1>1
<1> HIDE DEF N
<1>8. F[0] = <<>> /\ \A n \in 1..N : F[n] = IF n \in places THEN Append(F[n - 1], list[n])
                                            ELSE F[n - 1]
  BY <1>5, <1>6, <1>7
<1> QED
  BY <1>8 DEF F, N

(* Filtering keeps what is at the places, in order.                        *)
LEMMA FilteredKeeps ==
    ASSUME NEW S, NEW list \in Seq(S), NEW places
    PROVE  /\ Filtered(list, places) \in Seq(S)
           /\ \A i \in DOMAIN list : i \in places => list[i] \in Range(Filtered(list, places))
           /\ NoRepeats(list) => NoRepeats(Filtered(list, places))
<1> DEFINE F == FilteredUpTo(list, places)
           N == Len(list)
           Good(n) == /\ F[n] \in Seq(S)
                      /\ \A i \in 1..n : i \in places => \E k \in DOMAIN F[n] : F[n][k] = list[i]
                      /\ \A k \in DOMAIN F[n] : \E i \in 1..n : F[n][k] = list[i]
                      /\ NoRepeats(list) => NoRepeats(F[n])
           failing == {n \in 0..N : ~Good(n)}
<1>1. N \in Nat /\ DOMAIN list = 1..N
  OBVIOUS
<1>2. /\ F[0] = <<>>
      /\ \A n \in 1..N : F[n] = IF n \in places THEN Append(F[n - 1], list[n]) ELSE F[n - 1]
  BY FilteredUpToIs
<1>3. ASSUME failing # {} PROVE FALSE
  <2>1. PICK n \in failing : \A k \in failing : n <= k
    <3>1. failing \in SUBSET Nat
      OBVIOUS
    <3> HIDE DEF failing
    <3> QED
      BY <1>3, <3>1, LeastNumber
  <2> HIDE DEF F
  <2>2. Good(0)
    BY <1>2 DEF NoRepeats
  <2>3. n \in 0..N /\ ~Good(n)
    BY <2>1
  <2>4. n # 0 /\ n \in 1..N /\ n - 1 \in 0..N
    <3>1. n # 0
      <4> HIDE DEF Good
      <4> QED
        BY <2>2, <2>3
    <3> QED
      BY <1>1, <2>3, <3>1
  <2>5. Good(n - 1)
    <3>1. n - 1 \notin failing
      <4> HIDE DEF failing
      <4>1. n \in Int
        BY <2>4
      <4> QED
        BY <2>1, <4>1
    <3> HIDE DEF Good
    <3> QED
      BY <2>4, <3>1
  <2>6. \A i \in 1..n : i = n \/ i \in 1..(n - 1)
    BY <2>4
  <2>7. CASE n \notin places
    <3>1. F[n] = F[n - 1]
      BY <1>2, <2>4, <2>7
    <3>2. \A i \in 1..(n - 1) : i \in 1..n
      BY <2>4
    <3> QED
      BY <2>3, <2>5, <2>6, <2>7, <3>1, <3>2
  <2>8. CASE n \in places
    <3> DEFINE before == F[n - 1]
               more == Append(before, list[n])
    <3>1. F[n] = more
      BY <1>2, <2>4, <2>8
    <3>2. before \in Seq(S) /\ list[n] \in S
      BY <1>1, <2>4, <2>5
    <3>3. /\ \A i \in 1..(n - 1) : i \in places => \E k \in DOMAIN before : before[k] = list[i]
          /\ \A k \in DOMAIN before : \E i \in 1..(n - 1) : before[k] = list[i]
          /\ NoRepeats(list) => NoRepeats(before)
      BY <2>5
    <3> HIDE DEF before
    <3>4. /\ more \in Seq(S) /\ DOMAIN more = DOMAIN before \cup {Len(before) + 1}
          /\ \A k \in DOMAIN before : more[k] = before[k] /\ k # Len(before) + 1
          /\ more[Len(before) + 1] = list[n]
      BY <3>2
    <3> HIDE DEF more
    <3>5. \A i \in 1..n : i \in places => \E k \in DOMAIN more : more[k] = list[i]
      BY <2>6, <3>3, <3>4
    <3>6. \A k \in DOMAIN more : \E i \in 1..n : more[k] = list[i]
      <4>1. n \in 1..n /\ \A i \in 1..(n - 1) : i \in 1..n
        BY <2>4
      <4> QED
        BY <3>3, <3>4, <4>1
    <3>7. ASSUME NoRepeats(list) PROVE NoRepeats(more)
      <4>1. \A k \in DOMAIN before : before[k] # list[n]
        <5> SUFFICES ASSUME NEW k \in DOMAIN before, before[k] = list[n] PROVE FALSE
          OBVIOUS
        <5>1. PICK i \in 1..(n - 1) : list[i] = list[n]
          BY <3>3
        <5>2. i \in DOMAIN list /\ n \in DOMAIN list /\ i # n
          BY <1>1, <2>4
        <5> QED
          BY <3>7, <5>1, <5>2 DEF NoRepeats
      <4> QED
        BY <3>3, <3>4, <3>7, <4>1 DEF NoRepeats
    <3> QED
      BY <2>3, <3>1, <3>4, <3>5, <3>6, <3>7
  <2> QED
    BY <2>7, <2>8
<1>4. Good(N)
  <2>1. N \in 0..N
    BY <1>1
  <2> HIDE DEF Good, N
  <2> QED
    BY <1>3, <2>1
<1>5. Filtered(list, places) = F[N]
  BY DEF Filtered
<1> HIDE DEF F
<1> QED
  BY <1>1, <1>4, <1>5 DEF Range

(* Sorting by time puts the snapshots of a list in strict order.           *)
LEMMA SortedByTime ==
    ASSUME NEW snaps, NEW time, TakenBefore(snaps, time),
           NEW doc \in Seq(snaps), NoRepeats(doc)
    PROVE  /\ ByTime(doc) \in Seq(snaps)
           /\ \A snap : snap \in Range(doc) <=> snap \in Range(ByTime(doc))
           /\ \A i, j \in DOMAIN ByTime(doc) : i < j => ByTime(doc)[i].at < ByTime(doc)[j].at
<1> DEFINE n == Len(doc)
           key == [i \in 1..n |-> doc[i].at]
           p == Order(key)
           sorted == ByTime(doc)
<1>1. n \in Nat /\ DOMAIN doc = 1..n /\ \A i \in 1..n : doc[i] \in snaps
  OBVIOUS
<1>2. /\ \A s \in snaps : s.at \in Nat
      /\ \A s, t \in snaps : s.at = t.at => s = t
  BY DEF TakenBefore
<1>3. key \in [1..n -> Int] /\ \A i \in 1..n : key[i] = doc[i].at /\ doc[i].at \in Nat
  <2>1. \A i \in 1..n : doc[i].at \in Nat
    BY <1>1, <1>2
  <2> QED
    BY <2>1
<1>4. sorted = SortedBy(doc, key)
  BY <1>1 DEF ByTime
<1> HIDE DEF key, sorted, p
<1>5. /\ sorted \in Seq(snaps) /\ Len(sorted) = n
      /\ p \in Bijection(1..n, 1..n) /\ InOrder(p, key)
      /\ \A i \in 1..n : sorted[i] = doc[p[i]]
  BY <1>3, <1>4, SortedIsOrdered DEF p
<1>6. /\ p \in [1..n -> 1..n] /\ \A i, j \in 1..n : i # j => p[i] # p[j]
      /\ \A v \in 1..n : \E i \in 1..n : p[i] = v
  BY <1>5 DEF Bijection, Injection, Surjection, IsInjective
<1>7. \A i, j \in 1..n : i < j => key[p[i]] < key[p[j]] \/ key[p[i]] = key[p[j]]
  <2>1. DOMAIN key = 1..n
    BY <1>3
  <2> QED
    BY <1>5, <2>1, Zenon DEF InOrder
<1>8. DOMAIN sorted = 1..n
  BY <1>5
<1>9. \A i, j \in 1..n : i < j => sorted[i].at < sorted[j].at
  <2> SUFFICES ASSUME NEW i \in 1..n, NEW j \in 1..n, i < j PROVE sorted[i].at < sorted[j].at
    OBVIOUS
  <2>1. p[i] \in 1..n /\ p[j] \in 1..n /\ p[i] # p[j]
    <3>1. i # j
      BY <1>1
    <3> HIDE DEF n
    <3> QED
      BY <1>6, <3>1
  <2>2. doc[p[i]] # doc[p[j]]
    BY <1>1, <2>1 DEF NoRepeats
  <2>3. doc[p[i]].at # doc[p[j]].at
    BY <1>1, <1>2, <2>1, <2>2
  <2>4. doc[p[i]].at \in Nat /\ doc[p[j]].at \in Nat
    BY <1>3, <2>1
  <2>5. doc[p[i]].at < doc[p[j]].at \/ doc[p[i]].at = doc[p[j]].at
    BY <1>3, <1>7, <2>1
  <2> QED
    BY <1>5, <2>3, <2>5
<1>10. \A snap : snap \in Range(doc) <=> snap \in Range(sorted)
  <2> HIDE DEF n
  <2>1. \A i \in 1..n : sorted[i] = doc[p[i]] /\ p[i] \in 1..n
    BY <1>5, <1>6
  <2>2. ASSUME NEW i \in 1..n PROVE \E j \in 1..n : sorted[j] = doc[i]
    <3>1. PICK j \in 1..n : p[j] = i
      BY <1>6
    <3> QED
      BY <2>1, <3>1
  <2>3. Range(doc) = {doc[i] : i \in 1..n} /\ Range(sorted) = {sorted[i] : i \in 1..n}
    BY <1>1, <1>8 DEF Range
  <2> DEFINE a == Range(doc)
             b == Range(sorted)
  <2>4. \A i \in 1..n : doc[i] \in b
    <3> SUFFICES ASSUME NEW i \in 1..n PROVE doc[i] \in b
      OBVIOUS
    <3>1. PICK j \in 1..n : sorted[j] = doc[i]
      BY <2>2
    <3> QED
      BY <2>3, <3>1
  <2>5. \A i \in 1..n : sorted[i] \in a
    <3> SUFFICES ASSUME NEW i \in 1..n PROVE sorted[i] \in a
      OBVIOUS
    <3>1. sorted[i] = doc[p[i]] /\ p[i] \in 1..n
      BY <2>1
    <3> QED
      BY <2>3, <3>1
  <2>6. a = {doc[i] : i \in 1..n} /\ b = {sorted[i] : i \in 1..n}
    BY <2>3
  <2> HIDE DEF a, b
  <2>7. a = b
    BY <2>4, <2>5, <2>6
  <2> QED
    BY <2>7 DEF a, b
<1> QED
  BY <1>5, <1>8, <1>9, <1>10 DEF sorted

(* Rotation removes a finished snapshot of its target only when as many    *)
(* newer ones stay as a target may have, and nothing else.                 *)
LEMMA RotatedKeeps ==
    ASSUME NEW snaps, NEW time, TakenBefore(snaps, time),
           NEW doc, HoldsNewest(doc, snaps), NEW target
    PROVE  HoldsNewest(Rotated(doc, target), snaps)
<1> DEFINE sorted == ByTime(doc)
           Finished(i) == sorted[i].target = target /\ ~sorted[i].running
           After(i) == {j \in (i + 1)..Len(sorted) : Finished(j)}
           newest == {i \in DOMAIN sorted : Finished(i) /\ Cardinality(After(i)) < MaxPerTarget}
           running == {i \in DOMAIN sorted : sorted[i].target = target /\ sorted[i].running}
           keepIds == {SnapshotId(sorted[i]) : i \in newest \cup running}
           places == {i \in DOMAIN sorted : \/ sorted[i].target # target
                                            \/ SnapshotId(sorted[i]) \in keepIds}
<1>1. Rotated(doc, target) = Filtered(sorted, places)
  BY DEF Rotated
<1>2. doc \in Seq(snaps) /\ NoRepeats(doc) /\ IsFiniteSet(snaps)
      /\ \A s \in snaps : s.at \in Nat
  BY DEF HoldsNewest, TakenBefore
<1>3. /\ sorted \in Seq(snaps)
      /\ \A snap : snap \in Range(doc) <=> snap \in Range(sorted)
      /\ \A i, j \in DOMAIN sorted : i < j => sorted[i].at < sorted[j].at
  BY <1>2, SortedByTime
<1> HIDE DEF sorted
<1>4. /\ DOMAIN sorted = 1..Len(sorted) /\ Len(sorted) \in Nat
      /\ \A i \in DOMAIN sorted : sorted[i] \in snaps /\ sorted[i].at \in Nat
  <2>1. DOMAIN sorted = 1..Len(sorted) /\ Len(sorted) \in Nat
        /\ \A i \in DOMAIN sorted : sorted[i] \in snaps
    BY <1>3
  <2> QED
    BY <1>2, <2>1
<1>5. NoRepeats(sorted)
  <2> SUFFICES ASSUME NEW i \in DOMAIN sorted, NEW j \in DOMAIN sorted, sorted[i] = sorted[j]
               PROVE  i = j
    BY DEF NoRepeats
  <2>1. ~(i < j) /\ ~(j < i)
    BY <1>3, <1>4
  <2> QED
    BY <1>4, <2>1
<1>6. /\ Filtered(sorted, places) \in Seq(snaps) /\ NoRepeats(Filtered(sorted, places))
      /\ \A i \in DOMAIN sorted : i \in places => sorted[i] \in Range(Filtered(sorted, places))
  <2> HIDE DEF places
  <2> QED
    BY <1>3, <1>5, FilteredKeeps
<1>7. ASSUME NEW i \in DOMAIN sorted, i \notin places
      PROVE  PushedOut(sorted[i], snaps)
  <2>1. sorted[i].target = target /\ SnapshotId(sorted[i]) \notin keepIds
    BY <1>7
  <2>2. i \notin newest /\ i \notin running
    <3> HIDE DEF newest, running
    <3> QED
      BY <2>1
  <2>3. ~sorted[i].running /\ ~(Cardinality(After(i)) < MaxPerTarget)
    BY <2>1, <2>2
  <2> DEFINE newer == {s \in snaps : s.target = sorted[i].target /\ ~s.running
                                     /\ s.at > sorted[i].at}
             f == [j \in After(i) |-> sorted[j]]
  <2>4. \A j \in After(i) : j \in DOMAIN sorted /\ i < j /\ sorted[j].target = target
                            /\ ~sorted[j].running
    BY <1>4
  <2>5. IsFiniteSet(newer)
    <3>1. newer \in SUBSET snaps
      OBVIOUS
    <3> HIDE DEF newer
    <3> QED
      BY <1>2, <3>1, FS_Subset
  <2>6. f \in Injection(After(i), newer)
    <3>1. \A j \in After(i) : sorted[j] \in newer
      <4> SUFFICES ASSUME NEW j \in After(i) PROVE sorted[j] \in newer
        OBVIOUS
      <4>1. j \in DOMAIN sorted /\ i < j /\ sorted[j].target = target /\ ~sorted[j].running
        BY <2>4
      <4>2. sorted[j] \in snaps /\ sorted[i].at < sorted[j].at
            /\ sorted[i].at \in Nat /\ sorted[j].at \in Nat
        BY <1>3, <1>4, <4>1
      <4> QED
        BY <2>1, <4>1, <4>2
    <3>2. \A j, k \in After(i) : sorted[j] = sorted[k] => j = k
      BY <1>5, <2>4 DEF NoRepeats
    <3> HIDE DEF After, newer
    <3> QED
      BY <3>1, <3>2 DEF Injection, IsInjective
  <2>7. /\ Cardinality(After(i)) <= Cardinality(newer)
        /\ Cardinality(After(i)) \in Nat /\ Cardinality(newer) \in Nat
    <3> HIDE DEF After, newer, f
    <3>1. IsFiniteSet(After(i)) /\ Cardinality(After(i)) <= Cardinality(newer)
      BY <2>5, <2>6, FS_Injection
    <3> QED
      BY <2>5, <3>1, FS_CardinalityType
  <2>8. Cardinality(newer) >= MaxPerTarget
    <3> HIDE DEF After, newer
    <3> QED
      BY <2>3, <2>7, StoreAssumption
  <2> QED
    BY <2>3, <2>8 DEF PushedOut
<1> HIDE DEF places
<1>8. ASSUME NEW snap \in snaps
      PROVE  snap \in Range(Filtered(sorted, places)) \/ PushedOut(snap, snaps)
  <2>1. CASE snap \in Range(doc)
    <3>1. PICK i \in DOMAIN sorted : sorted[i] = snap
      BY <1>3, <2>1 DEF Range
    <3> QED
      BY <1>6, <1>7, <3>1
  <2>2. CASE snap \notin Range(doc)
    BY <2>2 DEF HoldsNewest
  <2> QED
    BY <2>1, <2>2
<1> QED
  BY <1>1, <1>6, <1>8 DEF HoldsNewest

(* A new snapshot is added at the end of the list.                         *)
LEMMA AddedKeeps ==
    ASSUME NEW snaps, NEW snap, TakenBefore(snaps, snap.at), snap.at \in Nat,
           NEW doc, HoldsNewest(doc, snaps)
    PROVE  /\ HoldsNewest(WithSnapshot(doc, snap), snaps \cup {snap})
           /\ \A time \in Nat : snap.at < time => TakenBefore(snaps \cup {snap}, time)
<1> DEFINE more == snaps \cup {snap}
<1>1. /\ doc \in Seq(snaps) /\ NoRepeats(doc) /\ IsFiniteSet(snaps)
      /\ \A s \in snaps : s.at \in Nat /\ s.at < snap.at
      /\ \A s, t \in snaps : s.at = t.at => s = t
  BY DEF HoldsNewest, TakenBefore
<1>2. IsFiniteSet(more) /\ \A s \in snaps : s.at # snap.at /\ s # snap
  BY <1>1, FS_AddElement
<1>3. DOMAIN doc = 1..Len(doc) /\ Len(doc) \in Nat /\ \A i \in DOMAIN doc : doc[i] \in snaps
  BY <1>1
<1>4. WithSnapshot(doc, snap) = Append(doc, snap)
  <2>1. \A i \in DOMAIN doc : SnapshotId(doc[i]) # SnapshotId(snap)
    BY <1>2, <1>3 DEF SnapshotId
  <2> QED
    BY <2>1 DEF WithSnapshot
<1>5. /\ Append(doc, snap) \in Seq(more) /\ DOMAIN Append(doc, snap) = 1..(Len(doc) + 1)
      /\ \A i \in 1..Len(doc) : Append(doc, snap)[i] = doc[i]
      /\ Append(doc, snap)[Len(doc) + 1] = snap
  <2>1. doc \in Seq(more) /\ snap \in more
    BY <1>1
  <2> HIDE DEF more
  <2> QED
    BY <2>1
<1>6. \A i \in 1..(Len(doc) + 1) : i \in 1..Len(doc) \/ i = Len(doc) + 1
  BY <1>3
<1>7. NoRepeats(Append(doc, snap))
  <2>1. \A i \in 1..Len(doc) : doc[i] # snap
    BY <1>2, <1>3
  <2>2. \A i, j \in 1..Len(doc) : doc[i] = doc[j] => i = j
    BY <1>1, <1>3 DEF NoRepeats
  <2> QED
    BY <1>5, <1>6, <2>1, <2>2 DEF NoRepeats
<1>8. ASSUME NEW s \in snaps, PushedOut(s, snaps) PROVE PushedOut(s, more)
  <2> DEFINE Newer(S) == {r \in S : r.target = s.target /\ ~r.running /\ r.at > s.at}
  <2>1. Newer(snaps) \in SUBSET Newer(more) /\ Newer(more) \in SUBSET more
        /\ Newer(snaps) \in SUBSET snaps
    OBVIOUS
  <2>2. ~s.running /\ Cardinality(Newer(snaps)) >= MaxPerTarget
    BY <1>8 DEF PushedOut
  <2> HIDE DEF Newer, more
  <2>3. IsFiniteSet(Newer(more)) /\ IsFiniteSet(Newer(snaps))
        /\ Cardinality(Newer(snaps)) <= Cardinality(Newer(more))
    BY <1>1, <1>2, <2>1, FS_Subset
  <2>4. Cardinality(Newer(snaps)) \in Nat /\ Cardinality(Newer(more)) \in Nat
    BY <2>3, FS_CardinalityType
  <2>5. Cardinality(Newer(more)) >= MaxPerTarget
    BY <2>2, <2>3, <2>4, StoreAssumption
  <2> QED
    BY <2>2, <2>5 DEF PushedOut, Newer
<1>9. ASSUME NEW s \in more PROVE s \in Range(Append(doc, snap)) \/ PushedOut(s, more)
  <2>1. CASE s = snap
    <3>1. Len(doc) + 1 \in DOMAIN Append(doc, snap)
      BY <1>3, <1>5
    <3> QED
      BY <2>1, <1>5, <3>1 DEF Range
  <2>2. CASE s \in Range(doc)
    <3>1. PICK i \in 1..Len(doc) : doc[i] = s
      BY <1>3, <2>2 DEF Range
    <3>2. i \in DOMAIN Append(doc, snap)
      BY <1>3, <1>5
    <3> QED
      BY <1>5, <3>1, <3>2 DEF Range
  <2>3. CASE s # snap /\ s \notin Range(doc)
    BY <1>8, <2>3 DEF HoldsNewest
  <2> QED
    BY <2>1, <2>2, <2>3
<1>10. ASSUME NEW time \in Nat, snap.at < time PROVE TakenBefore(more, time)
  <2>1. \A s \in more : s.at \in Nat /\ s.at < time
    BY <1>1, <1>10
  <2>2. \A s, t \in more : s.at = t.at => s = t
    BY <1>1, <1>2
  <2> QED
    BY <1>2, <2>1, <2>2 DEF TakenBefore
<1> QED
  BY <1>4, <1>5, <1>7, <1>9, <1>10 DEF HoldsNewest

-------------------------------------------------------------------------------
(* The steps of the two writers.                                           *)

(* There is an inode for the temporary file beside the one in hand.        *)
LEMMA StoreInodeIsFree ==
    ASSUME DiskShape, NEW h \in Inodes \cup {0}, NEW held, held \subseteq {h}
    PROVE  /\ TmpInode(store, held) \in Inodes /\ TmpInode(store, held) # store.file
           /\ store.tmp # 0 => TmpInode(store, held) = store.tmp
<1>1. CASE store.tmp # 0
  BY <1>1 DEF TmpInode, DiskShape
<1>2. CASE store.tmp = 0
  <2>1. ~(Inodes \subseteq {h, store.file})
    <3> SUFFICES ASSUME Inodes \subseteq {h, store.file} PROVE FALSE
      OBVIOUS
    <3>1. IsFiniteSet({h}) /\ Cardinality({h}) = 1
      BY FS_Singleton
    <3>2. {h, store.file} = {h} \cup {store.file}
      OBVIOUS
    <3>3. IsFiniteSet({h, store.file}) /\ Cardinality({h, store.file}) <= 2
      BY <3>1, <3>2, FS_AddElement
    <3>4. Cardinality(Inodes) <= Cardinality({h, store.file})
      BY <3>3, FS_Subset
    <3>5. /\ Cardinality(Inodes) \in Nat /\ Cardinality({h, store.file}) \in Nat
          /\ Cardinality(Inodes) > 2
      BY <3>3, InodesAssumption, StoreAssumption, FS_CardinalityType
    <3> QED
      BY <3>3, <3>4, <3>5
  <2>2. PICK i \in Inodes : i \notin held \cup {store.file}
    BY <2>1
  <2>3. TmpInode(store, held) \in Inodes /\ TmpInode(store, held) \notin held \cup {store.file}
    BY <1>2, <2>2 DEF TmpInode
  <2> QED
    BY <1>2, <2>3
<1> QED
  BY <1>1, <1>2

(* Who is at work is alone, and only its row changes.                      *)
Alone(w) ==
  /\ ~storeRaced /\ DiskShape /\ WriterShape /\ clock \in Nat
  /\ \A v \in Writers : v # w => writer[v] = Resting
  /\ TakenBefore(captured, clock) /\ HoldsNewest(LoadedSnapshots, captured) /\ AtWork(w)

LEMMA WorkerIsAlone ==
    ASSUME StoreInv, ~storeRaced, NEW w \in Writers, writer[w].pc # "idle"
    PROVE  Alone(w)
BY DEF StoreInv, Alone

Becomes(w, row) == writer' = [v \in Writers |-> IF v = w THEN row ELSE writer[v]]

LEMMA AloneIsEnough ==
    ASSUME NEW w \in Writers, Alone(w), NEW row, Becomes(w, row),
           row = Row(row.pc, row.phase, row.todo, row.snap, row.doc, row.inode),
           row.pc \in {"idle", "capture", "load", "open", "fill", "rename"},
           row.phase \in {"none", "persist", "rotate"}, row.inode \in Inodes \cup {0},
           row.pc = "idle" => row = Resting,
           DiskShape', clock' \in Nat, TakenBefore(captured', clock'),
           HoldsNewest(LoadedSnapshots', captured'), AtWork(w)'
    PROVE  StoreInv'
<1>1. /\ writer' = [v \in Writers |-> writer'[v]] /\ writer'[w] = row
      /\ \A v \in Writers : v # w => writer'[v] = Resting
  BY DEF Becomes, Alone
<1>2. /\ Resting = Row(Resting.pc, Resting.phase, Resting.todo, Resting.snap, Resting.doc,
                       Resting.inode)
      /\ Resting.pc = "idle" /\ Resting.phase = "none" /\ Resting.inode = 0
  BY DEF Resting, Row
<1>3. WriterShape'
  <2> SUFFICES ASSUME NEW v \in Writers
               PROVE  /\ writer'[v] = Row(writer'[v].pc, writer'[v].phase, writer'[v].todo,
                                          writer'[v].snap, writer'[v].doc, writer'[v].inode)
                      /\ writer'[v].pc \in {"idle", "capture", "load", "open", "fill", "rename"}
                      /\ writer'[v].phase \in {"none", "persist", "rotate"}
                      /\ writer'[v].inode \in Inodes \cup {0}
    BY <1>1 DEF WriterShape
  <2> QED
    BY <1>1, <1>2
<1>4. \A v \in Writers : v # w => AtWork(v)'
  BY <1>1, <1>2 DEF AtWork
<1>5. \A u, v \in Writers : u # v => writer'[u].pc = "idle" \/ writer'[v].pc = "idle"
  BY <1>1, <1>2
<1>6. \A v \in Writers : writer'[v].pc = "idle" => writer'[v] = Resting
  BY <1>1
<1>7. \A v \in Writers : AtWork(v)'
  BY <1>4
<1> QED
  BY <1>3, <1>5, <1>6, <1>7 DEF StoreInv

(* What a row becomes when some of its fields change.                      *)
LEMMA RowChanges ==
    ASSUME NEW row, row = Row(row.pc, row.phase, row.todo, row.snap, row.doc, row.inode)
    PROVE  /\ \A tail, taken : [row EXCEPT !.pc = "load", !.phase = "persist", !.todo = tail,
                                           !.snap = taken]
                = Row("load", "persist", tail, taken, row.doc, row.inode)
           /\ \A new : [row EXCEPT !.pc = "open", !.doc = new]
                = Row("open", row.phase, row.todo, row.snap, new, row.inode)
           /\ \A i : [row EXCEPT !.pc = "fill", !.inode = i]
                = Row("fill", row.phase, row.todo, row.snap, row.doc, i)
           /\ [row EXCEPT !.pc = "rename"]
                = Row("rename", row.phase, row.todo, row.snap, row.doc, row.inode)
           /\ [row EXCEPT !.pc = "load", !.phase = "rotate", !.inode = 0]
                = Row("load", "rotate", row.todo, row.snap, row.doc, 0)
           /\ [row EXCEPT !.pc = "capture"]
                = Row("capture", row.phase, row.todo, row.snap, row.doc, row.inode)
<1> DEFINE pc == row.pc
           phase == row.phase
           todo == row.todo
           snap == row.snap
           doc == row.doc
           inode == row.inode
<1>0. row = Row(pc, phase, todo, snap, doc, inode)
  OBVIOUS
<1> HIDE DEF pc, phase, todo, snap, doc, inode
<1>1. ASSUME NEW tail, NEW taken
      PROVE  [row EXCEPT !.pc = "load", !.phase = "persist", !.todo = tail, !.snap = taken]
               = Row("load", "persist", tail, taken, doc, inode)
  <2> DEFINE r1 == [row EXCEPT !.pc = "load"]
             r2 == [r1 EXCEPT !.phase = "persist"]
             r3 == [r2 EXCEPT !.todo = tail]
             r4 == [r3 EXCEPT !.snap = taken]
  <2>1. [row EXCEPT !.pc = "load", !.phase = "persist", !.todo = tail, !.snap = taken] = r4
    BY <1>0 DEF Row
  <2>2. r1 = Row("load", phase, todo, snap, doc, inode)
    BY <1>0 DEF Row
  <2> HIDE DEF r1
  <2>3. r2 = Row("load", "persist", todo, snap, doc, inode)
    BY <2>2 DEF Row
  <2> HIDE DEF r2
  <2>4. r3 = Row("load", "persist", tail, snap, doc, inode)
    BY <2>3 DEF Row
  <2> HIDE DEF r3
  <2>5. r4 = Row("load", "persist", tail, taken, doc, inode)
    BY <2>4 DEF Row
  <2> HIDE DEF r4
  <2> QED
    BY <2>1, <2>5
<1>2. ASSUME NEW new
      PROVE  [row EXCEPT !.pc = "open", !.doc = new]
               = Row("open", phase, todo, snap, new, inode)
  <2> DEFINE r1 == [row EXCEPT !.pc = "open"]
             r2 == [r1 EXCEPT !.doc = new]
  <2>1. [row EXCEPT !.pc = "open", !.doc = new] = r2
    BY <1>0 DEF Row
  <2>2. r1 = Row("open", phase, todo, snap, doc, inode)
    BY <1>0 DEF Row
  <2> HIDE DEF r1
  <2>3. r2 = Row("open", phase, todo, snap, new, inode)
    BY <2>2 DEF Row
  <2> HIDE DEF r2
  <2> QED
    BY <2>1, <2>3
<1>3. ASSUME NEW i
      PROVE  [row EXCEPT !.pc = "fill", !.inode = i]
               = Row("fill", phase, todo, snap, doc, i)
  <2> DEFINE r1 == [row EXCEPT !.pc = "fill"]
             r2 == [r1 EXCEPT !.inode = i]
  <2>1. [row EXCEPT !.pc = "fill", !.inode = i] = r2
    BY <1>0 DEF Row
  <2>2. r1 = Row("fill", phase, todo, snap, doc, inode)
    BY <1>0 DEF Row
  <2> HIDE DEF r1
  <2>3. r2 = Row("fill", phase, todo, snap, doc, i)
    BY <2>2 DEF Row
  <2> HIDE DEF r2
  <2> QED
    BY <2>1, <2>3
<1>4. [row EXCEPT !.pc = "rename"]
        = Row("rename", phase, todo, snap, doc, inode)
  BY <1>0 DEF Row
<1>5. [row EXCEPT !.pc = "load", !.phase = "rotate", !.inode = 0]
        = Row("load", "rotate", todo, snap, doc, 0)
  <2> DEFINE r1 == [row EXCEPT !.pc = "load"]
             r2 == [r1 EXCEPT !.phase = "rotate"]
             r3 == [r2 EXCEPT !.inode = 0]
  <2>1. [row EXCEPT !.pc = "load", !.phase = "rotate", !.inode = 0] = r3
    BY <1>0 DEF Row
  <2>2. r1 = Row("load", phase, todo, snap, doc, inode)
    BY <1>0 DEF Row
  <2> HIDE DEF r1
  <2>3. r2 = Row("load", "rotate", todo, snap, doc, inode)
    BY <2>2 DEF Row
  <2> HIDE DEF r2
  <2>4. r3 = Row("load", "rotate", todo, snap, doc, 0)
    BY <2>3 DEF Row
  <2> HIDE DEF r3
  <2> QED
    BY <2>1, <2>4
<1>6. [row EXCEPT !.pc = "capture"]
        = Row("capture", phase, todo, snap, doc, inode)
  BY <1>0 DEF Row
<1> QED
  BY <1>1, <1>2, <1>3, <1>4, <1>5, <1>6 DEF pc, phase, todo, snap, doc, inode

LEMMA RowIsReplaced ==
    ASSUME WriterShape, NEW w \in Writers, NEW row, writer' = [writer EXCEPT ![w] = row]
    PROVE  Becomes(w, row)
BY DEF WriterShape, Becomes

(* The fields of a row.                                                    *)
LEMMA RowFields ==
    ASSUME NEW pc, NEW phase, NEW todo, NEW snap, NEW doc, NEW inode, NEW row,
           row = Row(pc, phase, todo, snap, doc, inode)
    PROVE  /\ row.pc = pc /\ row.phase = phase /\ row.todo = todo /\ row.snap = snap
           /\ row.doc = doc /\ row.inode = inode
           /\ row = Row(row.pc, row.phase, row.todo, row.snap, row.doc, row.inode)
BY DEF Row

(* A writer that stops, or goes on with its next target, has nothing in    *)
(* its hands.                                                              *)
LEMMA GoingOnKeeps ==
    ASSUME NEW w \in Writers, Alone(w), Becomes(w, NextTarget(w)),
           DiskShape', clock' \in Nat, TakenBefore(captured', clock'),
           HoldsNewest(LoadedSnapshots', captured')
    PROVE  StoreInv'
<1> DEFINE row == NextTarget(w)
           r == writer[w]
<1>1. /\ r = Row(r.pc, r.phase, r.todo, r.snap, r.doc, r.inode)
      /\ r.phase \in {"none", "persist", "rotate"} /\ r.inode \in Inodes \cup {0}
  BY DEF Alone, WriterShape
<1>2. CASE r.todo = <<>>
  <2>1. row = Resting
    BY <1>2 DEF NextTarget
  <2>2. row = Row("idle", "none", <<>>, NoSnapshot, <<>>, 0)
    BY <2>1 DEF Resting, Row
  <2> HIDE DEF row
  <2>3. /\ row.pc = "idle" /\ row.phase = "none" /\ row.inode = 0
        /\ row = Row(row.pc, row.phase, row.todo, row.snap, row.doc, row.inode)
    BY <2>2, RowFields
  <2>4. writer'[w].pc = "idle"
    BY <2>3 DEF Becomes, row
  <2>5. AtWork(w)'
    BY <2>4 DEF AtWork
  <2> QED
    BY <2>1, <2>3, <2>5, AloneIsEnough DEF row
<1>3. CASE r.todo # <<>>
  <2>1. row = [r EXCEPT !.pc = "capture"]
    BY <1>3 DEF NextTarget
  <2> HIDE DEF r
  <2>2. row = Row("capture", r.phase, r.todo, r.snap, r.doc, r.inode)
    BY <1>1, <2>1, RowChanges
  <2> HIDE DEF row
  <2>3. /\ row.pc = "capture" /\ row.phase = r.phase /\ row.inode = r.inode
        /\ row = Row(row.pc, row.phase, row.todo, row.snap, row.doc, row.inode)
    BY <2>2, RowFields
  <2>4. writer'[w].pc = "capture"
    BY <2>3 DEF Becomes, row
  <2>5. AtWork(w)'
    BY <2>4 DEF AtWork
  <2> QED
    BY <1>1, <2>3, <2>5, AloneIsEnough DEF row
<1> QED
  BY <1>2, <1>3

(* A writer at its start, a snapshot being taken.                          *)
LEMMA StartKeeps ==
    ASSUME StoreInv, ~storeRaced, ~storeRaced', NEW w \in Writers, NEW todo,
           writer[w].pc = "idle", storeRaced' = (storeRaced \/ OtherBusy(w)),
           writer' = [writer EXCEPT ![w] = [Resting EXCEPT !.pc = "capture", !.todo = todo]],
           UNCHANGED <<store, clock, captured>>
    PROVE  StoreInv'
<1> DEFINE row == [Resting EXCEPT !.pc = "capture", !.todo = todo]
<1>1. \A v \in Writers \ {w} : writer[v].pc = "idle"
  BY DEF OtherBusy
<1>2. Alone(w)
  BY <1>1 DEF StoreInv, Alone
<1>3. row = Row("capture", "none", todo, NoSnapshot, <<>>, 0)
  <2>1. Resting = Row("idle", "none", <<>>, NoSnapshot, <<>>, 0)
    BY DEF Resting, Row
  <2> DEFINE r1 == [Resting EXCEPT !.pc = "capture"]
             r2 == [r1 EXCEPT !.todo = todo]
  <2>2. row = r2
    BY DEF Resting
  <2> HIDE DEF row
  <2>3. r1 = Row("capture", "none", <<>>, NoSnapshot, <<>>, 0)
    BY <2>1 DEF Row
  <2> HIDE DEF r1
  <2>4. r2 = Row("capture", "none", todo, NoSnapshot, <<>>, 0)
    BY <2>3 DEF Row
  <2> HIDE DEF r2
  <2> QED
    BY <2>2, <2>4
<1>4. Becomes(w, row)
  BY <1>2, RowIsReplaced DEF Alone
<1> HIDE DEF row
<1>5. /\ row.pc = "capture" /\ row.phase = "none" /\ row.inode = 0
      /\ row = Row(row.pc, row.phase, row.todo, row.snap, row.doc, row.inode)
  BY <1>3, RowFields
<1>6. writer'[w].pc = "capture"
  BY <1>4, <1>5 DEF Becomes
<1>7. AtWork(w)'
  BY <1>6 DEF AtWork
<1>8. /\ DiskShape' /\ clock' \in Nat /\ TakenBefore(captured', clock')
      /\ HoldsNewest(LoadedSnapshots', captured')
  BY <1>2 DEF Alone, DiskShape, LoadedSnapshots, Readable
<1> QED
  BY <1>2, <1>4, <1>5, <1>7, <1>8, AloneIsEnough

LEMMA CaptureKeeps ==
    ASSUME StoreInv, ~storeRaced, ~storeRaced', NEW w \in Writers, Capture(w)
    PROVE  StoreInv'
<1> DEFINE r == writer[w]
           taken == [by |-> w, at |-> clock, target |-> Head(r.todo), running |-> FALSE]
           row == [r EXCEPT !.pc = "load", !.phase = "persist", !.todo = Tail(r.todo),
                            !.snap = taken]
<1>1. Alone(w)
  BY WorkerIsAlone DEF Capture
<1>2. /\ r = Row(r.pc, r.phase, r.todo, r.snap, r.doc, r.inode)
      /\ r.inode \in Inodes \cup {0}
  BY <1>1 DEF Alone, WriterShape
<1>3. writer' = [writer EXCEPT ![w] = row]
  BY DEF Capture
<1>4. clock' = clock + 1 /\ UNCHANGED <<store, captured>> /\ clock \in Nat
  BY <1>1 DEF Capture, Alone
<1>5. taken.at = clock
  OBVIOUS
<1> HIDE DEF taken
<1>6. row = Row("load", "persist", Tail(r.todo), taken, r.doc, r.inode)
  <2> HIDE DEF r
  <2>1. \A tail, snap : [r EXCEPT !.pc = "load", !.phase = "persist", !.todo = tail, !.snap = snap]
                          = Row("load", "persist", tail, snap, r.doc, r.inode)
    BY <1>2, RowChanges
  <2> QED
    BY <2>1, Zenon
<1>7. Becomes(w, row)
  <2> HIDE DEF row
  <2> QED
    BY <1>1, <1>3, RowIsReplaced DEF Alone
<1> HIDE DEF row, r
<1>8. /\ row.pc = "load" /\ row.phase = "persist" /\ row.inode = r.inode /\ row.snap = taken
      /\ row = Row(row.pc, row.phase, row.todo, row.snap, row.doc, row.inode)
  BY <1>6, RowFields
<1>9. writer'[w] = row
  BY <1>7 DEF Becomes
<1>10. TakenBefore(captured, clock)
  BY <1>1 DEF Alone
<1>11. AtWork(w)'
  BY <1>4, <1>5, <1>8, <1>9, <1>10 DEF AtWork
<1>12. TakenBefore(captured', clock')
  BY <1>4, <1>10 DEF TakenBefore
<1>13. DiskShape' /\ clock' \in Nat /\ HoldsNewest(LoadedSnapshots', captured')
  BY <1>1, <1>4 DEF Alone, DiskShape, LoadedSnapshots, Readable
<1> QED
  BY <1>1, <1>2, <1>7, <1>8, <1>11, <1>12, <1>13, AloneIsEnough

LEMMA StoreLoadKeeps ==
    ASSUME StoreInv, ~storeRaced, ~storeRaced', NEW w \in Writers, LoadStore(w)
    PROVE  StoreInv'
<1> DEFINE r == writer[w]
           new == IF r.phase = "persist" THEN WithSnapshot(LoadedSnapshots, r.snap)
                  ELSE Rotated(LoadedSnapshots, r.snap.target)
           row == [r EXCEPT !.pc = "open", !.doc = new]
<1>1. Alone(w) /\ r.pc = "load"
  BY WorkerIsAlone DEF LoadStore
<1>2. /\ r = Row(r.pc, r.phase, r.todo, r.snap, r.doc, r.inode)
      /\ r.phase \in {"none", "persist", "rotate"} /\ r.inode \in Inodes \cup {0}
  BY <1>1 DEF Alone, WriterShape
<1>3. UNCHANGED <<store, clock, captured>>
  BY DEF LoadStore
<1>4. LoadedSnapshots' = LoadedSnapshots
  BY <1>3 DEF LoadedSnapshots, Readable
<1>5. /\ DiskShape' /\ clock' \in Nat /\ TakenBefore(captured', clock')
      /\ HoldsNewest(LoadedSnapshots', captured')
  BY <1>1, <1>3, <1>4 DEF Alone, DiskShape
<1>6. CASE StoreUnreadable
  <2>1. writer' = [writer EXCEPT ![w] = NextTarget(w)]
    BY <1>6 DEF LoadStore
  <2>2. Becomes(w, NextTarget(w))
    BY <1>1, <2>1, RowIsReplaced DEF Alone
  <2> QED
    BY <1>1, <1>5, <2>2, GoingOnKeeps
<1>7. CASE ~StoreUnreadable
  <2>1. writer' = [writer EXCEPT ![w] = row]
    BY <1>7 DEF LoadStore
  <2>2. Becomes(w, row)
    <3> HIDE DEF row
    <3> QED
      BY <1>1, <2>1, RowIsReplaced DEF Alone
  <2>3. row = Row("open", r.phase, r.todo, r.snap, new, r.inode)
    <3> HIDE DEF r, new
    <3>1. \A doc : [r EXCEPT !.pc = "open", !.doc = doc]
                     = Row("open", r.phase, r.todo, r.snap, doc, r.inode)
      BY <1>2, RowChanges
    <3> QED
      BY <3>1, Zenon
  <2> HIDE DEF row
  <2>4. /\ row.pc = "open" /\ row.phase = r.phase /\ row.inode = r.inode /\ row.snap = r.snap
        /\ row.doc = new
        /\ row = Row(row.pc, row.phase, row.todo, row.snap, row.doc, row.inode)
    <3> HIDE DEF new, r
    <3> QED
      BY <2>3, RowFields
  <2>5. writer'[w] = row
    BY <2>2 DEF Becomes
  <2>6. /\ r.phase \in {"persist", "rotate"}
        /\ r.phase = "persist" => /\ TakenBefore(captured, r.snap.at)
                                  /\ r.snap.at \in Nat /\ r.snap.at < clock
    BY <1>1 DEF Alone, AtWork
  <2>7. AtWork(w)'
    BY <1>3, <1>4, <2>4, <2>5, <2>6 DEF AtWork
  <2> HIDE DEF r
  <2> QED
    BY <1>1, <1>2, <1>5, <2>2, <2>4, <2>7, AloneIsEnough
<1> QED
  BY <1>6, <1>7

LEMMA StoreOpenKeeps ==
    ASSUME StoreInv, ~storeRaced, ~storeRaced', NEW w \in Writers, OpenStoreTmp(w)
    PROVE  StoreInv'
<1> DEFINE r == writer[w]
           held == {writer[v].inode : v \in Writers} \ {0}
           i == TmpInode(store, held)
           row == [r EXCEPT !.pc = "fill", !.inode = i]
<1>1. Alone(w) /\ r.pc = "open"
  BY WorkerIsAlone DEF OpenStoreTmp
<1>2. /\ r = Row(r.pc, r.phase, r.todo, r.snap, r.doc, r.inode)
      /\ r.phase \in {"none", "persist", "rotate"} /\ r.inode \in Inodes \cup {0}
  BY <1>1 DEF Alone, WriterShape
<1>3. /\ store' = OpenedTmp(store, i) /\ writer' = [writer EXCEPT ![w] = row]
      /\ UNCHANGED <<clock, captured>>
  BY DEF OpenStoreTmp
<1>4. i \in Inodes /\ i # store.file
  <2>1. held \subseteq {r.inode}
    BY <1>1 DEF Alone, Resting
  <2> HIDE DEF held, r
  <2> QED
    BY <1>1, <1>2, <2>1, StoreInodeIsFree DEF Alone
<1> HIDE DEF i
<1>5. /\ store = [file |-> store.file, tmp |-> store.tmp, data |-> store.data]
      /\ store.file \in Inodes \cup {0} /\ DOMAIN store.data = Inodes
  BY <1>1 DEF Alone, DiskShape
<1>6. /\ store'.file = store.file /\ store'.tmp = i /\ store'.data = [store.data EXCEPT ![i] = Blank]
      /\ store' = [file |-> store'.file, tmp |-> store'.tmp, data |-> store'.data]
  BY <1>3, <1>5 DEF OpenedTmp
<1>7. /\ store'.data[i] = Blank /\ DOMAIN store'.data = Inodes
      /\ store.file # 0 => store'.data[store.file] = store.data[store.file]
  <2> HIDE DEF Blank
  <2> QED
    BY <1>4, <1>5, <1>6
<1>8. LoadedSnapshots' = LoadedSnapshots
  BY <1>6, <1>7 DEF LoadedSnapshots, Readable
<1>9. /\ DiskShape' /\ clock' \in Nat /\ TakenBefore(captured', clock')
      /\ HoldsNewest(LoadedSnapshots', captured')
  BY <1>1, <1>3, <1>4, <1>5, <1>6, <1>7, <1>8 DEF Alone, DiskShape
<1>10. row = Row("fill", r.phase, r.todo, r.snap, r.doc, i)
  <2> HIDE DEF r
  <2>1. \A inode : [r EXCEPT !.pc = "fill", !.inode = inode]
                     = Row("fill", r.phase, r.todo, r.snap, r.doc, inode)
    BY <1>2, RowChanges
  <2> QED
    BY <2>1, Zenon
<1>11. Becomes(w, row)
  <2> HIDE DEF row
  <2> QED
    BY <1>1, <1>3, RowIsReplaced DEF Alone
<1> HIDE DEF row
<1>12. /\ row.pc = "fill" /\ row.phase = r.phase /\ row.inode = i /\ row.snap = r.snap
       /\ row.doc = r.doc
       /\ row = Row(row.pc, row.phase, row.todo, row.snap, row.doc, row.inode)
  <2> HIDE DEF r
  <2> QED
    BY <1>10, RowFields
<1>13. writer'[w] = row
  BY <1>11 DEF Becomes
<1>14. AtWork(w)
  BY <1>1 DEF Alone
<1>15. AtWork(w)'
  BY <1>1, <1>3, <1>4, <1>6, <1>7, <1>8, <1>12, <1>13, <1>14 DEF AtWork
<1> HIDE DEF r
<1> QED
  BY <1>1, <1>2, <1>4, <1>9, <1>11, <1>12, <1>15, AloneIsEnough

(* The temporary file in hand is the one that has the name, and it was     *)
(* emptied when it was opened: what is written is what is in it.           *)
LEMMA StoreFillKeeps ==
    ASSUME StoreInv, ~storeRaced, ~storeRaced', NEW w \in Writers, FillStoreTmp(w)
    PROVE  StoreInv'
<1> DEFINE r == writer[w]
           row == [r EXCEPT !.pc = "rename"]
<1>1. Alone(w) /\ r.pc = "fill"
  BY WorkerIsAlone DEF FillStoreTmp
<1>2. /\ r = Row(r.pc, r.phase, r.todo, r.snap, r.doc, r.inode)
      /\ r.phase \in {"none", "persist", "rotate"} /\ r.inode \in Inodes \cup {0}
  BY <1>1 DEF Alone, WriterShape
<1>3. /\ store = [file |-> store.file, tmp |-> store.tmp, data |-> store.data]
      /\ store.file \in Inodes \cup {0} /\ DOMAIN store.data = Inodes
      /\ store.tmp # 0 => store.tmp # store.file
  BY <1>1 DEF Alone, DiskShape
<1>4. /\ store.tmp = r.inode /\ r.inode \in Inodes /\ store.data[r.inode] = Blank
  BY <1>1 DEF Alone, AtWork
<1>5. r.inode # 0 /\ r.inode # store.file
  BY <1>3, <1>4, InodesAssumption
<1>6. ASSUME NEW after, store' = [store EXCEPT !.data[r.inode] = after],
             UNCHANGED <<clock, captured>>
      PROVE  /\ DiskShape' /\ clock' \in Nat /\ TakenBefore(captured', clock')
             /\ HoldsNewest(LoadedSnapshots', captured') /\ LoadedSnapshots' = LoadedSnapshots
             /\ store'.tmp = store.tmp /\ store'.data[r.inode] = after
  <2>1. /\ store'.file = store.file /\ store'.tmp = store.tmp
        /\ store'.data = [store.data EXCEPT ![r.inode] = after]
        /\ store' = [file |-> store'.file, tmp |-> store'.tmp, data |-> store'.data]
    <3> HIDE DEF r
    <3> QED
      BY <1>3, <1>6
  <2>2. /\ store'.data[r.inode] = after /\ DOMAIN store'.data = Inodes
        /\ store.file # 0 => store'.data[store.file] = store.data[store.file]
    <3> HIDE DEF r
    <3> QED
      BY <1>3, <1>4, <1>5, <2>1
  <2>3. LoadedSnapshots' = LoadedSnapshots
    BY <2>1, <2>2 DEF LoadedSnapshots, Readable
  <2>4. DiskShape'
    BY <1>1, <1>3, <2>1, <2>2 DEF Alone, DiskShape
  <2> QED
    BY <1>1, <1>6, <2>1, <2>2, <2>3, <2>4 DEF Alone
<1>7. CASE /\ \E after \in AfterWriting(store.data[r.inode], r.doc) :
                store' = [store EXCEPT !.data[r.inode] = after]
           /\ writer' = [writer EXCEPT ![w] = row] /\ UNCHANGED <<clock, captured>>
  <2>1. AfterWriting(store.data[r.inode], r.doc) = {Whole(r.doc)}
    BY <1>4 DEF AfterWriting
  <2>2. store' = [store EXCEPT !.data[r.inode] = Whole(r.doc)]
    BY <1>7, <2>1
  <2>3. /\ DiskShape' /\ clock' \in Nat /\ TakenBefore(captured', clock')
        /\ HoldsNewest(LoadedSnapshots', captured') /\ LoadedSnapshots' = LoadedSnapshots
        /\ store'.tmp = store.tmp /\ store'.data[r.inode] = Whole(r.doc)
    <3> HIDE DEF r, row
    <3> QED
      BY <1>6, <1>7, <2>2, Zenon
  <2>4. row = Row("rename", r.phase, r.todo, r.snap, r.doc, r.inode)
    <3> HIDE DEF r
    <3> QED
      BY <1>2, RowChanges
  <2>5. Becomes(w, row)
    <3> HIDE DEF row
    <3> QED
      BY <1>1, <1>7, RowIsReplaced DEF Alone
  <2> HIDE DEF row
  <2>6. /\ row.pc = "rename" /\ row.phase = r.phase /\ row.inode = r.inode /\ row.snap = r.snap
        /\ row.doc = r.doc
        /\ row = Row(row.pc, row.phase, row.todo, row.snap, row.doc, row.inode)
    <3> HIDE DEF r
    <3> QED
      BY <2>4, RowFields
  <2>7. writer'[w] = row
    BY <2>5 DEF Becomes
  <2>8. AtWork(w)
    BY <1>1 DEF Alone
  <2>9. AtWork(w)'
    BY <1>1, <1>4, <1>7, <2>3, <2>6, <2>7, <2>8 DEF AtWork
  <2> HIDE DEF r
  <2> QED
    BY <1>1, <1>2, <2>3, <2>5, <2>6, <2>9, AloneIsEnough
<1>8. CASE /\ store' = [store EXCEPT !.data[r.inode] = Torn]
           /\ writer' = [writer EXCEPT ![w] = NextTarget(w)] /\ UNCHANGED <<clock, captured>>
  <2>1. /\ DiskShape' /\ clock' \in Nat /\ TakenBefore(captured', clock')
        /\ HoldsNewest(LoadedSnapshots', captured')
    <3> HIDE DEF r, row
    <3> QED
      BY <1>6, <1>8, Zenon
  <2>2. Becomes(w, NextTarget(w))
    BY <1>1, <1>8, RowIsReplaced DEF Alone
  <2> QED
    BY <1>1, <2>1, <2>2, GoingOnKeeps
<1> QED
  BY <1>7, <1>8, Zenon DEF FillStoreTmp

(* The file becomes what was written; the snapshot is in the store once    *)
(* the first of the two writes is in place.                                *)
LEMMA StoreRenameKeeps ==
    ASSUME StoreInv, ~storeRaced, ~storeRaced', NEW w \in Writers, RenameStoreTmp(w)
    PROVE  StoreInv'
<1> DEFINE r == writer[w]
           row == [r EXCEPT !.pc = "load", !.phase = "rotate", !.inode = 0]
<1>1. Alone(w) /\ r.pc = "rename"
  BY WorkerIsAlone DEF RenameStoreTmp
<1>2. /\ r = Row(r.pc, r.phase, r.todo, r.snap, r.doc, r.inode)
      /\ r.phase \in {"none", "persist", "rotate"} /\ r.inode \in Inodes \cup {0}
  BY <1>1 DEF Alone, WriterShape
<1>3. AtWork(w) /\ store.tmp = r.inode /\ r.inode \in Inodes /\ r.inode # 0
      /\ store.data[r.inode] = Whole(r.doc) /\ store.tmp # store.file
  BY <1>1, InodesAssumption DEF Alone, AtWork, DiskShape
<1>4. store' = RenamedTmp(store) /\ clock' = clock /\ clock \in Nat /\ clock' \in Nat
  BY <1>1, <1>3 DEF RenameStoreTmp, Alone
<1>5. /\ store'.file = r.inode /\ store'.tmp = 0 /\ DOMAIN store'.data = Inodes
      /\ store'.data[r.inode] = Whole(r.doc)
      /\ store' = [file |-> store'.file, tmp |-> store'.tmp, data |-> store'.data]
  BY <1>3, <1>4 DEF RenamedTmp
<1>6. DiskShape'
  BY <1>3, <1>5 DEF DiskShape
<1>7. LoadedSnapshots' = r.doc
  BY <1>3, <1>5 DEF LoadedSnapshots, Readable, Whole
<1>8. TakenBefore(captured, clock) /\ HoldsNewest(LoadedSnapshots, captured)
  BY <1>1 DEF Alone
<1>9. CASE r.phase = "persist"
  <2>1. /\ captured' = captured \cup {r.snap}
        /\ writer' = [writer EXCEPT ![w] = row]
    BY <1>3, <1>9 DEF RenameStoreTmp
  <2>2. /\ TakenBefore(captured, r.snap.at) /\ r.snap.at \in Nat /\ r.snap.at < clock
        /\ r.doc = WithSnapshot(LoadedSnapshots, r.snap)
    BY <1>1, <1>3, <1>9 DEF AtWork
  <2>3. /\ HoldsNewest(WithSnapshot(LoadedSnapshots, r.snap), captured \cup {r.snap})
        /\ \A time \in Nat : r.snap.at < time => TakenBefore(captured \cup {r.snap}, time)
    <3> HIDE DEF r
    <3> QED
      BY <1>8, <2>2, AddedKeeps
  <2>4. TakenBefore(captured', clock')
    BY <1>4, <2>1, <2>2, <2>3
  <2>5. HoldsNewest(LoadedSnapshots', captured')
    BY <1>7, <2>1, <2>2, <2>3
  <2>6. row = Row("load", "rotate", r.todo, r.snap, r.doc, 0)
    <3> HIDE DEF r
    <3> QED
      BY <1>2, RowChanges
  <2>7. Becomes(w, row)
    <3> HIDE DEF row
    <3> QED
      BY <1>1, <2>1, RowIsReplaced DEF Alone
  <2> HIDE DEF row
  <2>8. /\ row.pc = "load" /\ row.phase = "rotate" /\ row.inode = 0
        /\ row = Row(row.pc, row.phase, row.todo, row.snap, row.doc, row.inode)
    <3> HIDE DEF r
    <3> QED
      BY <2>6, RowFields
  <2>9. writer'[w] = row
    BY <2>7 DEF Becomes
  <2>10. AtWork(w)'
    BY <2>8, <2>9 DEF AtWork
  <2> HIDE DEF r
  <2> QED
    BY <1>1, <1>4, <1>6, <2>4, <2>5, <2>7, <2>8, <2>10, AloneIsEnough
<1>10. CASE r.phase # "persist"
  <2>1. captured' = captured /\ writer' = [writer EXCEPT ![w] = NextTarget(w)]
    BY <1>3, <1>10 DEF RenameStoreTmp
  <2>2. r.doc = Rotated(LoadedSnapshots, r.snap.target)
    BY <1>1, <1>3, <1>10 DEF AtWork
  <2>3. HoldsNewest(Rotated(LoadedSnapshots, r.snap.target), captured)
    <3> HIDE DEF r
    <3> QED
      BY <1>8, RotatedKeeps
  <2>4. HoldsNewest(LoadedSnapshots', captured') /\ TakenBefore(captured', clock')
    BY <1>4, <1>7, <1>8, <2>1, <2>2, <2>3
  <2>5. Becomes(w, NextTarget(w))
    BY <1>1, <2>1, RowIsReplaced DEF Alone
  <2> QED
    BY <1>1, <1>4, <1>6, <2>4, <2>5, GoingOnKeeps
<1> QED
  BY <1>9, <1>10

LEMMA CrashKeeps ==
    ASSUME StoreInv, ~storeRaced, MemoryCrash
    PROVE  StoreInv'
<1>1. PICK w \in Writers : writer[w].pc # "idle"
  BY DEF MemoryCrash
<1>2. Alone(w)
  BY <1>1, WorkerIsAlone
<1>3. /\ writer' = [v \in Writers |-> Resting] /\ UNCHANGED <<store, clock, captured, storeRaced>>
  BY DEF MemoryCrash
<1>4. Becomes(w, Resting)
  BY <1>2, <1>3 DEF Alone, Becomes
<1>5. /\ Resting.pc = "idle" /\ Resting.phase = "none" /\ Resting.inode = 0
      /\ Resting = Row(Resting.pc, Resting.phase, Resting.todo, Resting.snap, Resting.doc,
                       Resting.inode)
  BY DEF Resting, Row
<1>6. AtWork(w)'
  BY <1>3, <1>5 DEF AtWork
<1>7. /\ DiskShape' /\ clock' \in Nat /\ TakenBefore(captured', clock')
      /\ HoldsNewest(LoadedSnapshots', captured')
  BY <1>2, <1>3 DEF Alone, DiskShape, LoadedSnapshots, Readable
<1> QED
  BY <1>2, <1>4, <1>5, <1>6, <1>7, AloneIsEnough

(* The writers never forget that they have raced.                          *)
LEMMA RacesAreKept == MemoryNext /\ storeRaced => storeRaced'
<1>1. \A target \in Targets : StartCommand(target) /\ storeRaced => storeRaced'
  BY DEF StartCommand
<1>2. StartTick /\ storeRaced => storeRaced'
  BY DEF StartTick
<1>3. MemoryCrash /\ storeRaced => storeRaced'
  BY DEF MemoryCrash
<1>4. \A w \in Writers :
        (Capture(w) \/ LoadStore(w) \/ OpenStoreTmp(w) \/ FillStoreTmp(w) \/ RenameStoreTmp(w))
        /\ storeRaced => storeRaced'
  BY DEF Capture, LoadStore, OpenStoreTmp, FillStoreTmp, RenameStoreTmp
<1> QED
  BY <1>1, <1>2, <1>3, <1>4, Zenon DEF MemoryNext

LEMMA StoreSteps == StoreInv /\ [MemoryNext]_memoryVars => StoreInv'
<1> SUFFICES ASSUME StoreInv, [MemoryNext]_memoryVars, ~storeRaced' PROVE StoreInv'
  BY DEF StoreInv
<1>1. CASE UNCHANGED memoryVars
  BY <1>1 DEF memoryVars, StoreInv, DiskShape, WriterShape, AtWork, LoadedSnapshots, Readable
<1>2. CASE MemoryNext
  <2>1. ~storeRaced
    BY <1>2, RacesAreKept
  <2>2. ASSUME NEW target \in Targets, StartCommand(target) PROVE StoreInv'
    <3>1. "command" \in Writers
      BY DEF Writers
    <3> QED
      BY <2>1, <2>2, <3>1, StartKeeps DEF StartCommand
  <2>3. CASE StartTick
    <3>1. "tick" \in Writers
      BY DEF Writers
    <3> QED
      BY <2>1, <2>3, <3>1, StartKeeps DEF StartTick
  <2>4. CASE MemoryCrash
    BY <2>1, <2>4, CrashKeeps
  <2>5. ASSUME NEW w \in Writers,
               Capture(w) \/ LoadStore(w) \/ OpenStoreTmp(w) \/ FillStoreTmp(w) \/ RenameStoreTmp(w)
        PROVE  StoreInv'
    BY <2>1, <2>5, CaptureKeeps, StoreLoadKeeps, StoreOpenKeeps, StoreFillKeeps, StoreRenameKeeps
  <2> QED
    BY <1>2, <2>2, <2>3, <2>4, <2>5, Zenon DEF MemoryNext
<1> QED
  BY <1>1, <1>2

(* The store an earlier run left: none, one that cannot be read, or one    *)
(* with at most one snapshot, taken before this run's first.               *)
LEMMA StoreStarts == MemoryInit => StoreInv
<1> SUFFICES ASSUME MemoryInit PROVE StoreInv
  OBVIOUS
<1>1. /\ writer = [w \in Writers |-> Resting] /\ clock = 1
      /\ captured = Range(LoadedSnapshots)
  BY DEF MemoryInit
<1>2. PICK doc \in StartDocs \cup {<<>>} :
        /\ DiskShape /\ LoadedSnapshots = doc
  <2>1. CASE store = NoDisk
    BY <2>1 DEF NoDisk, DiskShape, LoadedSnapshots, Readable, Blank
  <2>2. ASSUME NEW content, store = DiskWith(content)
        PROVE  DiskShape /\ LoadedSnapshots = content.doc
    BY <2>2, InodesAssumption DEF DiskWith, DiskShape, LoadedSnapshots, Readable
  <2>3. Torn.doc = <<>> /\ \A doc : Whole(doc).doc = doc
    BY DEF Torn, Whole
  <2>4. store = NoDisk \/ store = DiskWith(Torn)
        \/ \E doc \in StartDocs : store = DiskWith(Whole(doc))
    BY DEF MemoryInit
  <2> QED
    BY <2>1, <2>2, <2>3, <2>4
<1>3. \/ doc = <<>>
      \/ \E snap : doc = <<snap>> /\ snap.at = 0
  BY DEF StartDocs
<1>4. TakenBefore(captured, clock) /\ HoldsNewest(LoadedSnapshots, captured)
  <2>1. CASE doc = <<>>
    <3>1. captured = {}
      BY <1>1, <1>2, <2>1 DEF Range
    <3>2. HoldsNewest(<<>>, {})
      BY DEF HoldsNewest, NoRepeats
    <3>3. TakenBefore({}, 1)
      BY FS_EmptySet DEF TakenBefore
    <3> QED
      BY <1>1, <1>2, <2>1, <3>1, <3>2, <3>3
  <2>2. CASE \E snap : doc = <<snap>> /\ snap.at = 0
    <3>1. PICK snap : doc = <<snap>> /\ snap.at = 0
      BY <2>2
    <3>2. captured = {snap}
      BY <1>1, <1>2, <3>1 DEF Range
    <3>3. HoldsNewest(<<snap>>, {snap})
      BY DEF HoldsNewest, NoRepeats, Range
    <3>4. TakenBefore({snap}, 1)
      BY <3>1, FS_Singleton DEF TakenBefore
    <3> QED
      BY <1>1, <1>2, <3>1, <3>2, <3>3, <3>4
  <2> QED
    BY <1>3, <2>1, <2>2
<1>5. /\ Resting.pc = "idle" /\ Resting.phase = "none" /\ Resting.inode = 0
      /\ Resting = Row(Resting.pc, Resting.phase, Resting.todo, Resting.snap, Resting.doc,
                       Resting.inode)
  BY DEF Resting, Row
<1>6. WriterShape
  BY <1>1, <1>5 DEF WriterShape
<1>7. \A w \in Writers : writer[w] = Resting /\ AtWork(w)
  BY <1>1, <1>5 DEF AtWork
<1> QED
  BY <1>1, <1>2, <1>4, <1>5, <1>6, <1>7 DEF StoreInv

(* As long as the command and the tick do not overlap and no two snapshots *)
(* are of one millisecond, every snapshot that was added is in the store,  *)
(* or it is a finished one and as many newer ones of its target were added *)
(* as the store keeps: rotation of one target takes nothing of another,    *)
(* and no failure or crash loses a snapshot (filesystem_memory/store.rs).  *)
THEOREM NewestAreKept == StoreSpec => []NewestSnapshotsKept
<1>1. StoreInv => NewestSnapshotsKept
  BY DEF StoreInv, HoldsNewest, PushedOut, NewestSnapshotsKept
<1> QED
  BY StoreStarts, StoreSteps, <1>1, PTL DEF StoreSpec
===============================================================================
