------------------------------- MODULE TempFile -------------------------------
(***************************************************************************)
(* What the operating system does for a file that is replaced through a    *)
(* temporary neighbour of ONE fixed name: fs::write(tmp) opens and         *)
(* truncates whatever inode that name has, fills it, and fs::rename gives  *)
(* that inode the name of the file.  Nothing here is code of the           *)
(* repository: the scan and export archives and the filesystem-memory      *)
(* store all write this way.                                               *)
(*                                                                         *)
(* fs.file and fs.tmp are the inodes the two names have, 0 for none;       *)
(* fs.data is what each inode holds: "blank" (just truncated), "doc" (a    *)
(* whole document), "legacy" (a document in the earlier format) or "torn". *)
(***************************************************************************)
EXTENDS Naturals, Sequences, FiniteSetsExt

CONSTANT Inodes      \* bound: the inodes of the directory, 1 the one of an earlier run

ASSUME InodesAssumption == Inodes \subseteq Nat \ {0} /\ 1 \in Inodes /\ IsFiniteSet(Inodes)

Blank == [form |-> "blank", doc |-> <<>>]
Torn == [form |-> "torn", doc |-> <<>>]
Whole(doc) == [form |-> "doc", doc |-> doc]

(* What a reader of the file finds. *)
Readable(fs) == IF fs.file = 0 THEN Blank ELSE fs.data[fs.file]

(* The disk as a run of the program finds it, with that content. *)
DiskWith(content) == [file |-> 1, tmp |-> 0,
                      data |-> [i \in Inodes |-> IF i = 1 THEN content ELSE Blank]]

NoDisk == [file |-> 0, tmp |-> 0, data |-> [i \in Inodes |-> Blank]]

(* The inode an open of the temporary name gets: its present one, else one *)
(* that has no name and that no thread holds.                              *)
TmpInode(fs, held) ==
  IF fs.tmp # 0 THEN fs.tmp ELSE CHOOSE i \in Inodes : i \notin held \cup {fs.file}

OpenedTmp(fs, i) == [fs EXCEPT !.tmp = i, !.data[i] = Blank]

(* What writing a document from offset 0 may leave: over a longer one of   *)
(* another writer the tail of that one stays.                              *)
AfterWriting(content, doc) ==
  IF content = Blank \/ content = Whole(doc) THEN {Whole(doc)} ELSE {Whole(doc), Torn}

(* The inode that loses its last name is forgotten. *)
RenamedTmp(fs) ==
  [file |-> fs.tmp, tmp |-> 0, data |-> [i \in Inodes |-> IF i = fs.file THEN Blank ELSE fs.data[i]]]

Deleted(fs) ==
  [fs EXCEPT !.file = 0, !.data = [i \in Inodes |-> IF i = fs.file THEN Blank ELSE fs.data[i]]]
=============================================================================
