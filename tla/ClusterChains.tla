---------------------------- MODULE ClusterChains ----------------------------
(***************************************************************************)
(* What the analysers of FAT32 and exFAT share: the clusters of a volume   *)
(* and the chains of its file allocation table.                            *)
(*                                                                         *)
(* A volume is [valid, root, fat, image]: the table maps a cluster to its  *)
(* next, the image has ClusterSize cells to a cluster from cluster 2 on.   *)
(***************************************************************************)
EXTENDS ByteRuns

CONSTANT ClusterSize

Failed == [ok |-> FALSE]
Done(value) == [ok |-> TRUE, value |-> value]

FirstCluster == 2
EndOfChain == 1000000
Free == 0

ClustersFor(cells) == (cells + ClusterSize - 1) \div ClusterSize

\* validate_cluster, cluster_offset.
ValidCluster(volume, cluster) == cluster \in DOMAIN volume.fat
Offset(cluster) == (cluster - FirstCluster) * ClusterSize

(*---------------------------------- Chains -------------------------------*)
NoLimit == 0

\* follow_cluster_chain, from the clusters already walked: up to the limit or the
\* end; a loop or a cluster outside the volume is an error.
RECURSIVE FollowFrom(_, _, _)
FollowFrom(volume, clusters, limit) ==
  LET next == volume.fat[Last(clusters)]
  IN IF Len(clusters) = limit \/ next = EndOfChain THEN Done(clusters)
     ELSE IF ~ValidCluster(volume, next) \/ next \in Range(clusters) THEN Failed
     ELSE FollowFrom(volume, Append(clusters, next), limit)

FollowChain(volume, start, limit) ==
  IF ValidCluster(volume, start) THEN FollowFrom(volume, <<start>>, limit) ELSE Failed

\* byte_runs_from_clusters: whole clusters.
ClusterRuns(clusters) ==
  MergedRuns([i \in DOMAIN clusters |-> Physical(Offset(clusters[i]), ClusterSize)])

(*--------------------------- As a system writes --------------------------*)
\* What a file with a number holds at its k-th cell.
FileCell(number, k) == [data |-> 100 * number + k]

\* The links of a chain.
Chain(clusters) ==
  [c \in Range(clusters) |->
     LET i == CHOOSE i \in DOMAIN clusters : clusters[i] = c
     IN IF i = Len(clusters) THEN EndOfChain ELSE clusters[i + 1]]

Contiguous(clusters) == \A i \in DOMAIN clusters : clusters[i] = clusters[1] + i - 1

\* The cells of a cluster of one of some files, unless another file has it now.
OwnedCells(files, taken, cluster) ==
  LET owners == {i \in DOMAIN files : cluster \in Range(files[i].clusters)}
      Cells(i, n) == [k \in 1..ClusterSize |-> FileCell(i, (n - 1) * ClusterSize + k)]
  IN IF cluster \in Range(taken) \/ owners = {} THEN [k \in 1..ClusterSize |-> [data |-> 99]]
     ELSE LET i == CHOOSE i \in owners : TRUE
          IN Cells(i, CHOOSE n \in DOMAIN files[i].clusters : files[i].clusters[n] = cluster)

Padded(cells, size) == cells \o [k \in 1..(size - Len(cells)) |-> [entry |-> "end"]]

\* How much of a file lies before its first cluster another file got.
SizeBefore(file, taken) ==
  LET lost == {i \in DOMAIN file.clusters : file.clusters[i] \in Range(taken)}
  IN Min({file.size, (Min(lost \cup {Len(file.clusters) + 1}) - 1) * ClusterSize})

\* The runs found of a file hold its beginning, in that length.
HoldsBeginning(volume, number, found, size, whole) ==
  /\ found.size = size
  /\ SubSeq(RunCells(volume.image, found.runs), 1, size) = [k \in 1..size |-> FileCell(number, k)]
  /\ found.integrity = "partial" <=> size < whole

\* No run found of a file goes through one of these clusters.
KeepsOff(found, clusters) ==
  \A c \in clusters, i \in DOMAIN found.runs :
    ~(found.runs[i].offset <= Offset(c) /\ Offset(c) < found.runs[i].offset + found.runs[i].length)
=============================================================================
