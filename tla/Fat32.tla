-------------------------------- MODULE Fat32 --------------------------------
(***************************************************************************)
(* The FAT32 analyser: the walk of the directories, the chains of the      *)
(* file allocation table, and what is recovered of a deleted file, whose   *)
(* chain the system has erased.                                            *)
(*                                                                         *)
(* A cell is [data] of a file or one directory entry [entry, ...].         *)
(***************************************************************************)
EXTENDS ClusterChains

\* build_conservative_free_clusters: one after the other while the table calls them
\* free.
FreeClusters(volume, start, count) ==
  LET used == {i \in 0..(count - 1) : ValidCluster(volume, start + i) /\ volume.fat[start + i] # Free}
  IN [i \in 1..Min(used \cup {count}) |-> start + i - 1]

\* It fails at a cluster outside the volume it comes to.
FreeFails(volume, start, count) ==
  \E i \in 0..(count - 1) : /\ ~ValidCluster(volume, start + i)
                            /\ \A j \in 0..(i - 1) : volume.fat[start + j] = Free

(*-------------------------------- Candidates -----------------------------*)
Recovered(entry, path, clusters, size, integrity, score) ==
  Done(<<[name |-> entry.name, path |-> path, runs |-> ClusterRuns(clusters), size |-> size,
          expected |-> entry.size, integrity |-> integrity, score |-> score]>>)

\* build_deleted_candidate, of a file whose chain is gone: an empty guess fails it.
Guessed(entry, path, clusters, need) ==
  LET size == Min({Len(clusters) * ClusterSize, entry.size})
  IN IF clusters = <<>> THEN Failed
     ELSE IF Len(clusters) < need THEN Recovered(entry, path, clusters, size, "partial", 34)
     ELSE IF need = 1 THEN Recovered(entry, path, clusters, size, "intact", 84)
     ELSE Recovered(entry, path, clusters, size, "fragmented", 61)

FromChain(volume, entry, path, need, chain) ==
  IF chain.ok /\ Len(chain.value) = need
  THEN Recovered(entry, path, chain.value, entry.size, "intact", 88)
  ELSE IF FreeFails(volume, entry.start, need) THEN Failed
  ELSE Guessed(entry, path, FreeClusters(volume, entry.start, need), need)

\* build_deleted_candidate.
DeletedCandidate(volume, entry, path) ==
  LET need == ClustersFor(entry.size)
  IN IF need = 0 THEN Recovered(entry, path, <<>>, 0, "intact", 100)
     ELSE FromChain(volume, entry, path, need, FollowChain(volume, entry.start, need))

\* build_visible_candidate: a chain shorter than the size is an error.
FromVisibleChain(entry, path, need, chain) ==
  IF ~chain.ok THEN Failed
  ELSE IF Len(chain.value) # need THEN Failed
  ELSE IF Len(ClusterRuns(chain.value)) > 1
  THEN Recovered(entry, path, chain.value, entry.size, "fragmented", 90)
  ELSE Recovered(entry, path, chain.value, entry.size, "intact", 98)

VisibleCandidate(volume, entry, path) ==
  LET need == ClustersFor(entry.size)
  IN IF need = 0 THEN Recovered(entry, path, <<>>, entry.size, "intact", 98)
     ELSE FromVisibleChain(entry, path, need, FollowChain(volume, entry.start, need))

(*-------------------------------- Directories ----------------------------*)
\* build_long_name, display_name_from_entries: the fragments before an entry, last
\* first; without one the short name, whose first letter a deletion takes.
DisplayName(pending, cell) ==
  IF pending # <<>> THEN Reverse(pending)
  ELSE IF cell.deleted THEN <<"_", Tail(cell.short)>> ELSE <<cell.short[1], Tail(cell.short)>>

\* parse_directory_entry: a volume label and "." and ".." are no entries.
ParsedEntry(pending, cell) ==
  [name |-> DisplayName(pending, cell), deleted |-> cell.deleted, directory |-> cell.directory,
   start |-> cell.start, size |-> cell.size]

\* The loop over the entries of a directory: they end at the first empty one, a
\* long name is kept for the next entry that is not one.
TakeCell(state, cell) ==
  CASE state.ended \/ cell.entry = "end" -> [state EXCEPT !.ended = TRUE]
    [] ~state.ended /\ cell.entry = "long" -> [state EXCEPT !.pending = Append(@, cell.fragment)]
    [] ~state.ended /\ cell.entry \in {"label", "dot"} -> [state EXCEPT !.pending = <<>>]
    [] ~state.ended /\ cell.entry = "file" ->
         [state EXCEPT !.pending = <<>>, !.entries = Append(@, ParsedEntry(state.pending, cell))]

EntriesOf(cells) ==
  FoldLeft(TakeCell, [ended |-> FALSE, pending |-> <<>>, entries |-> <<>>], cells).entries

\* scan_directory and scan_visible_directory: a directory is read once, whatever
\* fails ends the scan.  "lost" tells which of the two it is.
ScanState(ok, visited, files) == [ok |-> ok, visited |-> visited, files |-> files]

Listed(state, built) ==
  IF built.ok THEN [state EXCEPT !.files = @ \o built.value] ELSE [state EXCEPT !.ok = FALSE]

Wanted(entry, lost) ==
  /\ entry.deleted = lost /\ ~entry.directory
  /\ lost => entry.size = 0 \/ entry.start >= FirstCluster

RECURSIVE ScanDirectory(_, _, _, _, _)
ScanDirectory(volume, lost, state, start, path) ==
  LET Visit(s, entry) ==
        IF ~s.ok THEN s
        ELSE IF Wanted(entry, lost)
        THEN Listed(s, IF lost THEN DeletedCandidate(volume, entry, path)
                       ELSE VisibleCandidate(volume, entry, path))
        ELSE IF ~entry.deleted /\ entry.directory /\ entry.start >= FirstCluster
        THEN ScanDirectory(volume, lost, s, entry.start, Append(path, entry.name))
        ELSE s
      Scan(chain) ==
        IF chain.ok
        THEN FoldLeft(Visit, [state EXCEPT !.visited = @ \cup {start}],
                      EntriesOf(RunCells(volume.image, ClusterRuns(chain.value))))
        ELSE [state EXCEPT !.ok = FALSE]
  IN IF start \in state.visited THEN state ELSE Scan(FollowChain(volume, start, NoLimit))

\* read_from: the signature, and a layout that can be walked.
UsableLayout(volume) == volume.valid /\ volume.root >= FirstCluster

\* recover_deleted_files, list_visible_files.
FilesOf(volume, lost) ==
  IF UsableLayout(volume)
  THEN ScanDirectory(volume, lost, ScanState(TRUE, {}, <<>>), volume.root, <<>>)
  ELSE ScanState(FALSE, {}, <<>>)

(*------------------------------ Its promise ------------------------------*)
EntryCells(file) ==
  (IF file.long THEN <<[entry |-> "long", fragment |-> "tail"], [entry |-> "long", fragment |-> file.name]>>
   ELSE <<>>)
  \o <<[entry |-> "file", short |-> <<"f", file.name>>, deleted |-> ~file.live, directory |-> FALSE,
        size |-> file.size, start |-> IF file.clusters = <<>> THEN 0 ELSE file.clusters[1]]>>

DirectoryEntry(name, start) ==
  [entry |-> "file", short |-> <<name, "dir">>, deleted |-> FALSE, directory |-> TRUE, size |-> 0,
   start |-> start]

\* Clusters 2 to 5 hold the root, 6 to 9 the folder, which has an entry that leads
\* back to the root.
Formatted(files, taken, last) ==
  LET InFolder(folder) == FlattenSeq([i \in DOMAIN files |->
                            IF files[i].folder = folder THEN EntryCells(files[i]) ELSE <<>>])
      takenFile == [name |-> "new", live |-> TRUE, folder |-> FALSE, long |-> FALSE,
                    size |-> ClusterSize * Len(taken), clusters |-> taken]
      root == <<[entry |-> "label"]>> \o <<DirectoryEntry("sub", 6)>> \o InFolder(FALSE)
              \o (IF taken = <<>> THEN <<>> ELSE EntryCells(takenFile))
      folder == <<[entry |-> "dot", start |-> 6], [entry |-> "dot", start |-> 2]>>
                \o <<DirectoryEntry("loop", 2)>> \o InFolder(TRUE)
      live == {files[i].clusters : i \in {i \in DOMAIN files : files[i].live}}
      chains == {<<2, 3, 4, 5>>, <<6, 7, 8, 9>>, taken} \cup live
  IN [valid |-> TRUE, root |-> 2,
      fat |-> [c \in FirstCluster..last |->
                 IF \E s \in chains : c \in Range(s)
                 THEN Chain(CHOOSE s \in chains : c \in Range(s))[c] ELSE Free],
      image |-> Padded(root, 4 * ClusterSize) \o Padded(folder, 4 * ClusterSize)
                \o FlattenSeq([k \in 1..(last - 9) |-> OwnedCells(files, taken, k + 9)])]

NameShown(file) ==
  IF file.long THEN <<file.name, "tail">>
  ELSE <<IF file.live THEN "f" ELSE "_", <<file.name>>>>

\* What is found of a file: its name and folder, and of its content all, or what
\* lies before the first cluster another file got.
FoundRight(volume, file, number, taken, found) ==
  /\ found.name = NameShown(file)
  /\ found.path = IF file.folder THEN <<<<"sub", <<"dir">>>>>> ELSE <<>>
  /\ found.expected = file.size
  /\ file.live \/ Contiguous(file.clusters) =>
       HoldsBeginning(volume, number, found, SizeBefore(file, taken), file.size)
  /\ ~file.live => KeepsOff(found, {c \in DOMAIN volume.fat : volume.fat[c] # Free})

\* Every file of every directory is listed once with its name, its folder and its
\* content, however the directories refer to each other; of a deleted one whose
\* clusters lay together all that no other file took is recovered, and no cluster
\* of another file ever is.  This is said of volumes on which the first cluster of
\* every deleted file is still free.
FoundAll(volume, files, taken, gone, there) ==
  LET WithName(list, file) == SelectSeq(list, LAMBDA f : f.name = NameShown(file))
      Right(list, i) == /\ Len(WithName(list, files[i])) = 1
                        /\ FoundRight(volume, files[i], i, taken, WithName(list, files[i])[1])
  IN /\ gone.ok /\ there.ok
     /\ Len(gone.files) = Cardinality({i \in DOMAIN files : ~files[i].live})
     /\ \A i \in DOMAIN files : Right(IF files[i].live THEN there.files ELSE gone.files, i)

Fat32VolumeIsRecovered(files, taken, last) ==
  \A volume \in {Formatted(files, taken, last)} :
    (\A i \in DOMAIN files : files[i].clusters # <<>> => files[i].clusters[1] \notin Range(taken))
      => FoundAll(volume, files, taken, FilesOf(volume, TRUE), FilesOf(volume, FALSE))
=============================================================================
