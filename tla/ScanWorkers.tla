----------------------------- MODULE ScanWorkers -----------------------------
(***************************************************************************)
(* The scan worker threads of commands/scan.rs and commands/imaging_cmd,   *)
(* each as the sequence of its steps that touch the scan session, the      *)
(* control block or the archive.  ScanSession interprets these programs.   *)
(*                                                                         *)
(*   "log"      append_scan_log: one persisted snapshot                    *)
(*   "log?"     a log line some runs write and others do not               *)
(*   "begin"    update_progress storing status "scanning"                  *)
(*   "copy"     an image copy whose progress callback ignores the control  *)
(*   "polled"   an image copy whose callback waits for permission at       *)
(*              every chunk and stops with the cancellation sentinel       *)
(*   "gate"     wait_for_scan_permission                                   *)
(*   "check"    a fallible step that finds no file                         *)
(*   "analyse"  an analyser that returns files or an error                 *)
(*   "fallback" optional second sources and correlation: the list of files *)
(*              changes, an error is only logged                           *)
(*   "catalog"  the directory walk of run_inventory_scan                   *)
(*   "publish"  results, status "completed" and completion time in one     *)
(*              critical section, then persisted                           *)
(*                                                                         *)
(* A run of consecutive append_scan_log calls is one step, and updates of  *)
(* stage, percentage and byte counters are left out.                       *)
(***************************************************************************)
EXTENDS Sequences

Steps == {"log", "log?", "begin", "copy", "polled", "gate", "check",
          "analyse", "fallback", "catalog", "publish"}

(* Every deleted-entry worker images the whole source, then analyses the   *)
(* image ...                                                               *)
ImageFirst == <<"log", "begin", "log", "copy", "log", "gate", "analyse">>

(* ... and scores what it found; the last gate is before the publication.  *)
ScoreAndPublish == <<"log", "gate", "publish">>

RunDeletedFat32Scan == ImageFirst \o ScoreAndPublish

RunDeletedExfatScan == ImageFirst \o ScoreAndPublish

RunDeletedApfsScan == ImageFirst \o ScoreAndPublish

(* Deleted entries replayed from the journal of the file system.           *)
JournalReplay == <<"fallback">>

RunDeletedHfsPlusScan == ImageFirst \o JournalReplay \o ScoreAndPublish

(* NTFS and ext4 consult the MFT mirror, respectively a backup superblock, *)
(* after the last gate: neither pause nor cancel is noticed from there on. *)
MftMirrorFallback == <<"log?", "fallback", "log">>

BackupSuperblockFallback == <<"log?", "fallback", "log">>

RunDeletedNtfsScan ==
    ImageFirst \o JournalReplay \o <<"log", "gate">> \o MftMirrorFallback \o <<"publish">>

RunDeletedExt4Scan ==
    ImageFirst \o JournalReplay \o <<"log", "gate">> \o BackupSuperblockFallback
    \o <<"publish">>

(* The lost-volume worker images the source, slices the volume out of the  *)
(* image, and lists visible then deleted files.                            *)
ImageSource == <<"log", "begin", "log", "polled", "log">>

SliceVolume == <<"check", "log", "polled", "log">>

ListVolume == <<"gate", "analyse", "log", "gate", "analyse">>

RunPotentialVolumeScan == ImageSource \o SliceVolume \o ListVolume \o ScoreAndPublish

RunSignatureCarvingScan ==
    <<"log", "begin", "log", "polled", "log", "gate", "analyse">> \o ScoreAndPublish

(* Standalone imaging publishes no file.  It may first import an external  *)
(* rescue map, and fails when the map cannot be used.                      *)
AcquireImage == <<"polled", "log?", "gate", "publish">>

RunImageAcquisition == <<"log", "begin", "log">> \o AcquireImage

RunImageAcquisitionWithMap == <<"log", "begin", "log", "check", "log">> \o AcquireImage

RunInventoryScan == <<"log", "begin", "log", "catalog", "gate", "publish">>
=============================================================================
