---------------------------- MODULE HistoryArchive ----------------------------
(***************************************************************************)
(* The archive of the scan sessions, or of the export sessions             *)
(* (commands/state.rs): every session that changes loads the archive,      *)
(* replaces its own record, sorts, truncates and writes the whole file     *)
(* back through a temporary one.  No lock is held over the cycle and all   *)
(* writers share the temporary name.  A purge deletes the file.            *)
(*                                                                         *)
(* A record keeps the session's id (its creation time, by which the        *)
(* archive is sorted), the status that was current when the record was     *)
(* taken and whether it has its log.                                       *)
(***************************************************************************)
EXTENDS TempFile, StableSort

CONSTANTS
  ArchiveSessions,  \* sessions, as the milliseconds they were created in
  ArchiveThreads,   \* threads that persist sessions or purge
  MaxRecords,       \* MAX_PERSISTED_SCAN_RECORDS, MAX_PERSISTED_EXPORT_RECORDS
  MaxArchiveOps     \* bound: cycles and purges begun

ASSUME ArchiveAssumption == /\ ArchiveSessions \subseteq Nat \ {0} /\ ArchiveSessions # {}
                            /\ IsFiniteSet(ArchiveThreads)
                            /\ Cardinality(ArchiveThreads) < Cardinality(Inodes)
                            /\ MaxRecords \in Nat \ {0}
                            /\ MaxArchiveOps \in Nat

VARIABLES
  archiveKind,      \* "scan" or "export"
  live,             \* status of each session, "none" before it exists, "gone" with its process
  disk,             \* the archive and its temporary file
  cycle,            \* where each thread is
  archiveOps,       \* cycles and purges begun
  expected,         \* ghost: the archive as one cycle after the other makes it
  overlapped        \* ghost: some cycle began inside another one

archiveVars == <<archiveKind, live, disk, cycle, archiveOps, expected, overlapped>>

Statuses == {"running", "completed"}

Record(s, status) == [id |-> s, status |-> status, logs |-> "kept"]

NoCycle == [pc |-> "idle", rec |-> Record(0, "none"), doc |-> <<>>, inode |-> 0]

(* load_persisted_export_archive_from falls back to the legacy format, in  *)
(* which a record had no log; the scan archive never had one.  A missing   *)
(* and an unreadable file are both an empty archive.                       *)
LoadedArchive(content, kind) ==
  CASE content.form = "doc" -> content.doc
    [] content.form = "legacy" /\ kind = "export" ->
         [i \in DOMAIN content.doc |-> [content.doc[i] EXCEPT !.logs = "none"]]
    [] OTHER -> <<>>

NewestFirst(doc) == SortedBy(doc, [i \in DOMAIN doc |-> -doc[i].id])

Truncated(doc) == SubSeq(doc, 1, Min({MaxRecords, Len(doc)}))

(* The bug of an upsert that appends without looking for the record. *)
AppendOnly(doc, rec) == Truncated(NewestFirst(Append(doc, rec)))

(* upsert_persisted_scan_record_at, upsert_persisted_export_record_at *)
Upserted(doc, rec) ==
  LET same == {i \in DOMAIN doc : doc[i].id = rec.id}
  IN  Truncated(NewestFirst(IF same = {} THEN Append(doc, rec)
                                         ELSE [doc EXCEPT ![Min(same)] = rec]))

Held == {cycle[t].inode : t \in ArchiveThreads} \ {0}

Busy(t) == cycle[t].pc # "idle"

(* The first session is one of an earlier run. *)
Earlier == << Record(Min(ArchiveSessions), "running") >>

ArchiveInit ==
  /\ archiveKind \in {"scan", "export"}
  /\ live = [s \in ArchiveSessions |-> IF s = Min(ArchiveSessions) THEN "gone" ELSE "none"]
  /\ disk \in {NoDisk} \cup {DiskWith(c) : c \in
       IF archiveKind = "export" THEN {[form |-> "legacy", doc |-> Earlier]}
                                 ELSE {Torn, Whole(Earlier)}}
  /\ cycle = [t \in ArchiveThreads |-> NoCycle]
  /\ archiveOps = 0
  /\ expected = LoadedArchive(Readable(disk), archiveKind)
  /\ overlapped = FALSE

(* A session is created, or ends. *)
Advance(s) ==
  /\ \/ live[s] = "none" /\ live' = [live EXCEPT ![s] = "running"]
     \/ live[s] = "running" /\ live' = [live EXCEPT ![s] = "completed"]
  /\ UNCHANGED <<archiveKind, disk, cycle, archiveOps, expected, overlapped>>

Enter(t, state) ==
  /\ ~Busy(t) /\ archiveOps < MaxArchiveOps
  /\ archiveOps' = archiveOps + 1
  /\ cycle' = [cycle EXCEPT ![t] = state]
  /\ overlapped' = (overlapped \/ \E u \in ArchiveThreads : Busy(u))

(* snapshot_scan_record: the record is taken under the session's lock. *)
TakeRecord(t, s) ==
  /\ live[s] \in Statuses
  /\ Enter(t, [NoCycle EXCEPT !.pc = "taken", !.rec = Record(s, live[s])])
  /\ UNCHANGED <<archiveKind, live, disk, expected>>

LoadArchive(t) ==
  /\ cycle[t].pc = "taken"
  /\ cycle' = [cycle EXCEPT ![t].pc = "loaded",
       ![t].doc = Upserted(LoadedArchive(Readable(disk), archiveKind), cycle[t].rec)]
  /\ UNCHANGED <<archiveKind, live, disk, archiveOps, expected, overlapped>>

(* The bug of an archive that is written in place. *)
OpenInPlace(t) ==
  /\ cycle[t].pc = "loaded"
  /\ LET i == IF disk.file # 0 THEN disk.file ELSE TmpInode(disk, Held)
     IN  /\ disk' = [OpenedTmp(disk, i) EXCEPT !.file = i]
         /\ cycle' = [cycle EXCEPT ![t].pc = "opened", ![t].inode = i]
  /\ UNCHANGED <<archiveKind, live, archiveOps, expected, overlapped>>

OpenTemporary(t) ==
  /\ cycle[t].pc = "loaded"
  /\ LET i == TmpInode(disk, Held)
     IN  /\ disk' = OpenedTmp(disk, i)
         /\ cycle' = [cycle EXCEPT ![t].pc = "opened", ![t].inode = i]
  /\ UNCHANGED <<archiveKind, live, archiveOps, expected, overlapped>>

FillTemporary(t) ==
  /\ cycle[t].pc = "opened"
  /\ \E after \in AfterWriting(disk.data[cycle[t].inode], cycle[t].doc) :
       disk' = [disk EXCEPT !.data[cycle[t].inode] = after]
  /\ cycle' = [cycle EXCEPT ![t].pc = "filled"]
  /\ UNCHANGED <<archiveKind, live, archiveOps, expected, overlapped>>

(* fs::write fails: the disk is full or the directory is not writable. *)
WriteFails(t) ==
  /\ \/ cycle[t].pc = "loaded" /\ UNCHANGED disk
     \/ cycle[t].pc = "opened" /\ disk' = [disk EXCEPT !.data[cycle[t].inode] = Torn]
  /\ cycle' = [cycle EXCEPT ![t] = NoCycle]
  /\ UNCHANGED <<archiveKind, live, archiveOps, expected, overlapped>>

(* fs::rename moves whatever the temporary name now is: it fails when      *)
(* another writer has renamed it already.                                  *)
RenameTemporary(t) ==
  /\ cycle[t].pc = "filled"
  /\ IF disk.tmp # 0 THEN disk' = RenamedTmp(disk) ELSE UNCHANGED disk
  /\ expected' = Upserted(expected, cycle[t].rec)
  /\ cycle' = [cycle EXCEPT ![t] = NoCycle]
  /\ UNCHANGED <<archiveKind, live, archiveOps, overlapped>>

(* clear_local_history_at, with the scopes normalize_history_scope takes:  *)
(* the records are counted, then the file is deleted; the sessions that    *)
(* are still live are only counted.                                        *)
BeginPurge(t, scope) ==
  /\ scope \in {archiveKind, "all"}
  /\ Enter(t, [NoCycle EXCEPT !.pc = "counted"])
  /\ UNCHANGED <<archiveKind, live, disk, expected>>

DeleteArchive(t) ==
  /\ cycle[t].pc = "counted"
  /\ disk' = Deleted(disk)
  /\ expected' = <<>>
  /\ cycle' = [cycle EXCEPT ![t] = NoCycle]
  /\ UNCHANGED <<archiveKind, live, archiveOps, overlapped>>

(* The process dies: its sessions and its half-done cycles are gone. *)
ArchiveCrash ==
  /\ archiveOps > 0
  /\ live' = [s \in ArchiveSessions |-> IF live[s] = "none" THEN "none" ELSE "gone"]
  /\ cycle' = [t \in ArchiveThreads |-> NoCycle]
  /\ UNCHANGED <<archiveKind, disk, archiveOps, expected, overlapped>>

ArchiveNext ==
  \/ ArchiveCrash
  \/ \E s \in ArchiveSessions : Advance(s)
  \/ \E t \in ArchiveThreads :
       \/ \E s \in ArchiveSessions : TakeRecord(t, s)
       \/ LoadArchive(t) \/ OpenTemporary(t) \/ FillTemporary(t) \/ WriteFails(t)
       \/ RenameTemporary(t)
       \/ \E scope \in {"scan", "export", "all"} : BeginPurge(t, scope)
       \/ DeleteArchive(t)

(* As long as no cycle began inside another one, the file is exactly what  *)
(* the completed upserts and purges make of it, one after the other: a     *)
(* crash, a full disk or the temporary file an earlier run left behind     *)
(* neither loses nor invents a record.                                     *)
SerialHistoryKept ==
  ~overlapped => LoadedArchive(Readable(disk), archiveKind) = expected

(* Whatever the threads do to one another, an archive that can be read has *)
(* each session once, newest first, and keeps to its limit.                *)
ArchiveWellFormed ==
  LET doc == LoadedArchive(Readable(disk), archiveKind)
  IN  /\ Len(doc) <= MaxRecords
      /\ \A i, j \in DOMAIN doc : i < j => doc[i].id > doc[j].id
=============================================================================
