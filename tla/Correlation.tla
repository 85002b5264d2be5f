----------------------------- MODULE Correlation -----------------------------
(***************************************************************************)
(* The last step of a deleted-file scan: the files the analyser, the       *)
(* journal and the fallback found are put together, copies of one file are *)
(* reduced to the best one, and a file the journal knows too is promoted.  *)
(*                                                                         *)
(* A file is [name, size, start, hash, journal, score], with None for a    *)
(* start or a hash it does not have.                                       *)
(***************************************************************************)
EXTENDS Integers, SequencesExt, StableSort

None == 0

(*------------------------------ Deduplication ----------------------------*)
\* One file more: of two alike the better stays, of equals the earlier.  The state
\* has the files kept so far and, for each key, the file it stands for.
Decided(files, key, alike, state, i) ==
  LET old == state.index[key]
  IN CASE <<old, i>> \notin alike -> state
       [] <<old, i>> \in alike /\ files[old].score >= files[i].score -> [state EXCEPT !.keep = @ \ {i}]
       [] OTHER -> [keep |-> state.keep \ {old}, index |-> [state.index EXCEPT ![key] = i]]

Indexed(state, key, i) ==
  [state EXCEPT !.index = [k \in DOMAIN @ \cup {key} |-> IF k = key THEN i ELSE @[k]]]

Met(files, keep, keys, alike, state, i) ==
  CASE i \notin keep \/ keys[i] = None -> state
    [] i \in keep /\ keys[i] # None ->
         IF keys[i] \in DOMAIN state.index THEN Decided(files, keys[i], alike, state, i)
         ELSE Indexed(state, keys[i], i)

\* One file for each key, of those in keep, after the first n files.
DeduplicatedUpTo(files, keep, keys, alike) ==
  LET state[n \in 0..Len(files)] == IF n = 0 THEN [keep |-> keep, index |-> <<>>]
                                    ELSE Met(files, keep, keys, alike, state[n - 1], n)
  IN state

Deduplicated(files, keep, keys, alike) ==
  DeduplicatedUpTo(files, keep, keys, alike)[Len(files)].keep

AllPairs(files) == (DOMAIN files) \X (DOMAIN files)

\* Within a tenth of the earlier one.
SizeAlike(old, file) == old.size > 0 /\ 10 * file.size >= 9 * old.size /\ 10 * file.size <= 11 * old.size

Hashes(files) == [i \in DOMAIN files |-> files[i].hash]

DistinctHashes(files) == Deduplicated(files, DOMAIN files, Hashes(files), AllPairs(files))

Starts(files) == [i \in DOMAIN files |-> files[i].start]

\* The bug of taking two files of any sizes at one place for one file.
DistinctStarts(files) == Deduplicated(files, DistinctHashes(files), Starts(files), AllPairs(files))

DistinctPlaces(files) ==
  Deduplicated(files, DistinctHashes(files), Starts(files),
               {p \in AllPairs(files) : SizeAlike(files[p[1]], files[p[2]])})

(*-------------------------------- Promotion ------------------------------*)
SameName(a, b) == a.name = b.name /\ a.size = b.size

\* The last file of that name and size which the journal has not given.
Confirmed(files, keep, i) ==
  LET others == {k \in keep : ~files[k].journal /\ SameName(files[k], files[i])}
  IN IF files[i].journal /\ others # {} THEN {Max(others)} ELSE {}

Confirming(files, keep) == {i \in keep : Confirmed(files, keep, i) # {}}

PromotedScore(files, keep, k) ==
  LET times == Cardinality({i \in keep : k \in Confirmed(files, keep, i)})
  IN IF times = 0 THEN files[k].score ELSE Min({files[k].score + 8 * times, 95})

\* What stays of the files: the journal's account of a file confirms another.
Survivors(files) ==
  LET keep == DistinctPlaces(files) IN keep \ Confirming(files, keep)

\* correlate_recovery_sources: the survivors, best first, then by name.
CorrelateRecoverySources(fileSystem, journal, carved) ==
  LET files == fileSystem \o journal \o carved
      keep == DistinctPlaces(files)
      Score(i) == PromotedScore(files, keep, i)
      Before(i, j) == \/ Score(i) > Score(j)
                      \/ Score(i) = Score(j) /\ files[i].name < files[j].name
                      \/ Score(i) = Score(j) /\ files[i].name = files[j].name /\ i < j
      order == Ranked(Survivors(files), {p \in AllPairs(files) : Before(p[1], p[2])})
  IN [n \in DOMAIN order |-> [file |-> order[n], score |-> Score(order[n])]]

(*------------------------------- The promise -----------------------------*)
\* The files of one source: the journal's, or those of the others.
IsFileList(files, journal) ==
  files \in Seq([name : Int, size : Nat, start : Nat, hash : Nat, journal : {journal}, score : Int])

\* The reasons for which one file may stand for another.
StandsFor(a, b) ==
  \/ a.hash = b.hash /\ a.hash # None
  \/ a.start = b.start /\ a.start # None /\ (SizeAlike(a, b) \/ SizeAlike(b, a))
  \/ b.journal /\ ~a.journal /\ SameName(a, b)

\* The file a may be kept in place of b: it stands for it and, without a journal
\* among the sources, it is at least as good.
KeptFor(files, a, b) ==
  /\ a # b /\ StandsFor(files[a], files[b])
  /\ (\E i \in DOMAIN files : files[i].journal) \/ files[a].score >= files[b].score

\* No two survivors have one content, and none is in the journal only when another
\* of its name is there.
NoneTwice(files, left) ==
  \A a, b \in left : a # b => /\ files[a].hash = None \/ files[a].hash # files[b].hash
                              /\ ~(files[b].journal /\ ~files[a].journal /\ SameName(files[a], files[b]))

\* Every file that is dropped has a survivor kept in its place, directly or for one
\* that could be, and so on: whatever has the survivors and, with a file, all it may
\* be kept for, has every file.  None is there twice, and the best come first.
KeepsBestCopies(fileSystem, journal, carved) ==
  LET files == fileSystem \o journal \o carved
      result == CorrelateRecoverySources(fileSystem, journal, carved)
      left == {found.file : found \in Range(result)}
      Closed(saved) == \A a \in saved, b \in DOMAIN files : KeptFor(files, a, b) => b \in saved
  IN /\ \A saved \in SUBSET DOMAIN files : left \subseteq saved /\ Closed(saved) => saved = DOMAIN files
     /\ NoneTwice(files, left)
     /\ \A n \in 1..(Len(result) - 1) : result[n].score >= result[n + 1].score
=============================================================================
