------------------------------ MODULE MemoryStore ------------------------------
(***************************************************************************)
(* The snapshots of the filesystem memory on disk                          *)
(* (filesystem_memory/store.rs) and the two that write them: the command   *)
(* that snapshots one target and the scheduler's tick, which snapshots     *)
(* every target the store knows.  Storing is two read-modify-write cycles  *)
(* over the whole file, one that adds the snapshot and one that keeps the  *)
(* newest of its target; neither writer holds a lock.  A store that cannot *)
(* be parsed is an error for every reader, and is never overwritten.       *)
(***************************************************************************)
EXTENDS TempFile, StableSort, SequencesExt

CONSTANTS
  Targets,         \* paths that can be snapshot
  MaxPerTarget,    \* MAX_SNAPSHOTS_PER_TARGET
  MaxSnapshots     \* bound: snapshots captured, and the clock

ASSUME StoreAssumption == /\ MaxPerTarget \in Nat \ {0} /\ MaxSnapshots \in Nat
                          /\ Cardinality(Inodes) > 2

VARIABLES
  store,           \* the file and its temporary neighbour
  writer,          \* where the command and the tick are
  clock,           \* milliseconds, the id of a snapshot
  captured,        \* ghost: every snapshot added to the store
  storeRaced       \* ghost: the two writers overlapped, or two ids were one

memoryVars == <<store, writer, clock, captured, storeRaced>>

Writers == {"command", "tick"}

NoSnapshot == [by |-> "command", at |-> 0, target |-> "none", running |-> FALSE]

Resting == [pc |-> "idle", phase |-> "none", todo |-> <<>>, snap |-> NoSnapshot,
            doc |-> <<>>, inode |-> 0]

(* load_all_snapshots_from: an empty file is an empty list, a line that    *)
(* cannot be parsed an error.                                              *)
StoreUnreadable == Readable(store).form = "torn"

LoadedSnapshots == Readable(store).doc

(* The id a snapshot gets: who took it, and the millisecond. *)
SnapshotId(snap) == <<snap.by, snap.at>>

(* collect_distinct_targets: those of finished snapshots, in order. *)
DistinctTargets(doc) ==
  LET finished == SelectSeq(doc, LAMBDA snap : ~snap.running)
      First(i) == \A j \in 1..(i - 1) : finished[j].target # finished[i].target
  IN  [k \in 1..Cardinality({i \in DOMAIN finished : First(i)}) |->
        finished[CHOOSE i \in DOMAIN finished :
                   First(i) /\ Cardinality({j \in 1..i : First(j)}) = k].target]

(* persist_snapshot_in *)
WithSnapshot(doc, snap) ==
  LET same == {i \in DOMAIN doc : SnapshotId(doc[i]) = SnapshotId(snap)}
  IN  IF same = {} THEN Append(doc, snap) ELSE [doc EXCEPT ![Min(same)] = snap]

ByTime(doc) == SortedBy(doc, [i \in DOMAIN doc |-> doc[i].at])

(* The bug of a rotation that counts the snapshots of every target. *)
RotatedTogether(doc, target) ==
  LET sorted == ByTime(doc)
  IN  SubSeq(sorted, Max({1, Len(sorted) + 1 - MaxPerTarget}), Len(sorted))

(* The members of a list at the first n places, and of those at the places *)
(* that are kept: Iterator::filter.                                        *)
FilteredUpTo(list, places) ==
  LET kept[n \in 0..Len(list)] == IF n = 0 THEN <<>>
                                  ELSE IF n \in places THEN Append(kept[n - 1], list[n])
                                  ELSE kept[n - 1]
  IN  kept

Filtered(list, places) == FilteredUpTo(list, places)[Len(list)]

(* rotate_snapshots_in: sorted by time, the newest finished snapshots of   *)
(* the target and all unfinished ones stay, and those of other targets.    *)
Rotated(doc, target) ==
  LET sorted == ByTime(doc)
      Finished(i) == sorted[i].target = target /\ ~sorted[i].running
      newest == {i \in DOMAIN sorted : Finished(i) /\
                   Cardinality({j \in (i + 1)..Len(sorted) : Finished(j)}) < MaxPerTarget}
      running == {i \in DOMAIN sorted : sorted[i].target = target /\ sorted[i].running}
      keepIds == {SnapshotId(sorted[i]) : i \in newest \cup running}
  IN  Filtered(sorted, {i \in DOMAIN sorted : \/ sorted[i].target # target
                                             \/ SnapshotId(sorted[i]) \in keepIds})

StartDocs == {<<>>} \cup {<<[by |-> "command", at |-> 0, target |-> t, running |-> r]>> :
                            t \in Targets, r \in BOOLEAN}

MemoryInit ==
  /\ store \in {NoDisk, DiskWith(Torn)} \cup {DiskWith(Whole(doc)) : doc \in StartDocs}
  /\ writer = [w \in Writers |-> Resting]
  /\ clock = 1
  /\ captured = Range(LoadedSnapshots)
  /\ storeRaced = FALSE

OtherBusy(w) == \E v \in Writers \ {w} : writer[v].pc # "idle"

(* create_filesystem_memory_snapshot, of a target that does not hold the   *)
(* store itself.  Bound: neither writer starts again after a race.         *)
StartCommand(target) ==
  /\ writer["command"].pc = "idle" /\ clock < MaxSnapshots /\ ~storeRaced
  /\ writer' = [writer EXCEPT !["command"] = [Resting EXCEPT !.pc = "capture", !.todo = <<target>>]]
  /\ storeRaced' = (storeRaced \/ OtherBusy("command"))
  /\ UNCHANGED <<store, clock, captured>>

(* run_scheduled_tick: a store that cannot be read ends the tick. *)
StartTick ==
  /\ writer["tick"].pc = "idle" /\ clock < MaxSnapshots /\ ~storeRaced
  /\ ~StoreUnreadable /\ DistinctTargets(LoadedSnapshots) # <<>>
  /\ writer' = [writer EXCEPT !["tick"] =
       [Resting EXCEPT !.pc = "capture", !.todo = DistinctTargets(LoadedSnapshots)]]
  /\ storeRaced' = (storeRaced \/ OtherBusy("tick"))
  /\ UNCHANGED <<store, clock, captured>>

(* capture_snapshot, named after the clock, which may not have moved. *)
Capture(w) ==
  /\ writer[w].pc = "capture" /\ clock < MaxSnapshots
  /\ writer' = [writer EXCEPT ![w] = [writer[w] EXCEPT
       !.pc = "load", !.phase = "persist", !.todo = Tail(writer[w].todo),
       !.snap = [by |-> w, at |-> clock, target |-> Head(writer[w].todo), running |-> FALSE]]]
  /\ \/ clock' = clock + 1 /\ UNCHANGED storeRaced
     \/ UNCHANGED clock /\ storeRaced' = TRUE
  /\ UNCHANGED <<store, captured>>

(* The next target of the tick, after one is done or has failed. *)
NextTarget(w) == IF writer[w].todo = <<>> THEN Resting ELSE [writer[w] EXCEPT !.pc = "capture"]

LoadStore(w) ==
  /\ writer[w].pc = "load"
  /\ writer' = [writer EXCEPT ![w] =
       IF StoreUnreadable THEN NextTarget(w)
       ELSE [writer[w] EXCEPT !.pc = "open",
              !.doc = IF writer[w].phase = "persist" THEN WithSnapshot(LoadedSnapshots, writer[w].snap)
                      ELSE Rotated(LoadedSnapshots, writer[w].snap.target)]]
  /\ UNCHANGED <<store, clock, captured, storeRaced>>

OpenStoreTmp(w) ==
  /\ writer[w].pc = "open"
  /\ LET i == TmpInode(store, {writer[v].inode : v \in Writers} \ {0})
     IN  /\ store' = OpenedTmp(store, i)
         /\ writer' = [writer EXCEPT ![w] = [writer[w] EXCEPT !.pc = "fill", !.inode = i]]
  /\ UNCHANGED <<clock, captured, storeRaced>>

FillStoreTmp(w) ==
  /\ writer[w].pc = "fill"
  /\ \/ /\ \E after \in AfterWriting(store.data[writer[w].inode], writer[w].doc) :
             store' = [store EXCEPT !.data[writer[w].inode] = after]
        /\ writer' = [writer EXCEPT ![w] = [writer[w] EXCEPT !.pc = "rename"]]
     \/ /\ store' = [store EXCEPT !.data[writer[w].inode] = Torn]
        /\ writer' = [writer EXCEPT ![w] = NextTarget(w)]
  /\ UNCHANGED <<clock, captured, storeRaced>>

(* After the snapshot is in, the store is loaded again to be rotated. *)
RenameStoreTmp(w) ==
  /\ writer[w].pc = "rename"
  /\ IF store.tmp = 0
     THEN /\ writer' = [writer EXCEPT ![w] = NextTarget(w)]
          /\ UNCHANGED <<store, captured>>
     ELSE /\ store' = RenamedTmp(store)
          /\ IF writer[w].phase = "persist"
             THEN /\ captured' = captured \cup {writer[w].snap}
                  /\ writer' = [writer EXCEPT ![w] = [writer[w] EXCEPT
                                  !.pc = "load", !.phase = "rotate", !.inode = 0]]
             ELSE /\ writer' = [writer EXCEPT ![w] = NextTarget(w)]
                  /\ UNCHANGED captured
  /\ UNCHANGED <<clock, storeRaced>>

MemoryCrash ==
  /\ \E w \in Writers : writer[w].pc # "idle"
  /\ writer' = [w \in Writers |-> Resting]
  /\ UNCHANGED <<store, clock, captured, storeRaced>>

MemoryNext ==
  \/ \E target \in Targets : StartCommand(target)
  \/ StartTick \/ MemoryCrash
  \/ \E w \in Writers :
       Capture(w) \/ LoadStore(w) \/ OpenStoreTmp(w) \/ FillStoreTmp(w) \/ RenameStoreTmp(w)

(* As long as the command and the tick do not overlap and no two snapshots *)
(* are taken in one millisecond, no snapshot of a target pushes out one of *)
(* another, the newest of each target are in the store after any failure   *)
(* or crash, and an unfinished one is never rotated away.                  *)
NewestSnapshotsKept ==
  ~storeRaced =>
    \A snap \in captured :
      \/ snap \in Range(LoadedSnapshots)
      \/ /\ ~snap.running
         /\ Cardinality({s \in captured : s.target = snap.target /\ ~s.running /\ s.at > snap.at})
              >= MaxPerTarget
=============================================================================
