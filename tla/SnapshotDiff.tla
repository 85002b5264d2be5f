----------------------------- MODULE SnapshotDiff -----------------------------
(***************************************************************************)
(* The filesystem memory: what a capture of a folder keeps of its files,   *)
(* what the comparison of two captures says was moved, changed or lost,    *)
(* and which recovered file that knowledge is attached to.                 *)
(*                                                                         *)
(* A folder is [files, links, closed, volume]: its files by path, the      *)
(* symbolic links, the directories that cannot be read, and the identity   *)
(* of its volume.  A path is a sequence of names.  A file is [content,     *)
(* hashes]: its content is a sequence of windows of HASH_WINDOW_BYTES, its *)
(* size their number, and "hashes" is false when reading it fails.         *)
(***************************************************************************)
EXTENDS Integers, SequencesExt

Unhashed == <<>>

SizeOf(file) == Len(file.content)

(*-------------------------------- Capture --------------------------------*)
\* walk enters a directory that is not too deep, not ignored by name, and not
\* behind a link or a directory that cannot be read.
Entered(folder, options, dir) ==
  /\ Len(dir) <= options.maxDepth
  /\ \A n \in 1..Len(dir) : dir[n] \notin options.ignored /\ SubSeq(dir, 1, n) \notin folder.links
  /\ \A n \in 0..(Len(dir) - 1) : SubSeq(dir, 1, n) \notin folder.closed

\* The files walk comes to; a link is left out.
Walked(folder, options) ==
  {p \in DOMAIN folder.files \ folder.links :
     Entered(folder, options, Front(p)) /\ Front(p) \notin folder.closed}

\* compute_partial_hash: of the whole content up to two windows, else of the first
\* window, the last one and the size; nothing when the file cannot be opened or read.
PartialHash(file) ==
  IF ~file.hashes THEN Unhashed
  ELSE IF SizeOf(file) <= 2 THEN <<file.content>>
       ELSE <<file.content[1], file.content[SizeOf(file)], SizeOf(file)>>

\* detect_volume_fingerprint, unless the caller gave one.
VolumeFingerprint(folder, options) ==
  IF options.volume # "none" THEN options.volume ELSE folder.volume

\* capture_snapshot.  An unreadable directory, an unreadable file or an unknown
\* volume makes the snapshot partial.
Snapshot(folder, options) ==
  LET seen == Walked(folder, options)
  IN [records |-> [p \in seen |-> [size |-> SizeOf(folder.files[p]),
                                   hash |-> PartialHash(folder.files[p])]],
      volume |-> VolumeFingerprint(folder, options),
      partial |-> \/ \E dir \in folder.closed : Entered(folder, options, dir)
                  \/ \E p \in seen : ~folder.files[p].hashes
                  \/ VolumeFingerprint(folder, options) = "none"]

(*------------------------------- Comparison ------------------------------*)
\* ensure_volume_identity_matches.
Comparable(base, head) == base.volume = head.volume /\ base.volume # "none"

\* identity_key: no key without a hash.
Identities(snapshot, record) ==
  {p \in DOMAIN snapshot.records : record.hash # Unhashed /\ snapshot.records[p] = record}

Change(kind, from, to, confidence) ==
  [kind |-> kind, from |-> from, to |-> to, confidence |-> confidence]

NoPath == <<>>

\* modified_confidence.
ModifiedConfidence(a, b) ==
  CASE Unhashed \notin {a.hash, b.hash} -> "high"
    [] a.hash = Unhashed /\ b.hash = Unhashed -> "low"
    [] OTHER -> "medium"

AloneConfidence(record) == IF record.hash = Unhashed THEN "medium" ELSE "high"

\* classify_move_or_rename.
MoveOrRename(from, to) == IF Front(from) = Front(to) THEN "renamed" ELSE "moved"

\* The first loop of compute_diff: one file of the newer snapshot.
HeadChanges(base, head, path) ==
  LET record == head.records[path]
      twins == Identities(base, record)
  IN IF path \in DOMAIN base.records
     THEN IF base.records[path] = record THEN {}
          ELSE {Change("modified", path, path, ModifiedConfidence(base.records[path], record))}
     ELSE CASE twins = {} -> {Change("new", NoPath, path, AloneConfidence(record))}
            [] Cardinality(twins) = 1 ->
                 LET from == CHOOSE p \in twins : TRUE
                 IN {Change(MoveOrRename(from, path), from, path, "high")}
            [] OTHER -> {Change("ambiguous", NoPath, path, "low")}

\* The bug of calling lost whatever left its place.
MissingWhereItWas(base, head, found, path) ==
  IF path \in DOMAIN head.records THEN {}
  ELSE {Change("missing", path, NoPath, AloneConfidence(base.records[path]))}

\* The second loop: one file of the older snapshot, after all of the first.
BaseChanges(base, head, found, path) ==
  IF \/ path \in DOMAIN head.records
     \/ \E change \in found : change.kind \in {"moved", "renamed"} /\ change.from = path
     \/ Identities(head, base.records[path]) # {}
  THEN {}
  ELSE {Change("missing", path, NoPath, AloneConfidence(base.records[path]))}

\* compute_diff, of two snapshots of one target.
ComputedDiff(base, head) ==
  LET found == UNION {HeadChanges(base, head, p) : p \in DOMAIN head.records}
  IN found \cup UNION {BaseChanges(base, head, found, p) : p \in DOMAIN base.records}

(*--------------------------------- Hints ---------------------------------*)
\* missing_file_insights.
MissingInsights(diff) == {[path |-> c.from, confidence |-> c.confidence] : c \in {c \in diff : c.kind = "missing"}}

\* adjusted_recovery_context_confidence for a match by name and size.
Weaker(confidence) == IF confidence = "high" THEN "medium" ELSE "low"

\* recovery_context_hints_for: one recovered file, [path, name, size], matched by
\* its path if only one lost file fits, else by a name and size only one has.
HintsFor(base, diff, file) ==
  LET lost == MissingInsights(diff)
      byPath == {l \in lost : l.path = file.path}
      byName == {l \in lost : Last(l.path) = file.name /\ base.records[l.path].size = file.size}
  IN CASE Cardinality(byPath) = 1 -> byPath
       [] Cardinality(byPath) # 1 /\ Cardinality(byName) = 1 ->
            {[l EXCEPT !.confidence = Weaker(@)] : l \in byName}
       [] OTHER -> {}

(*------------------------------ Its promise ------------------------------*)
\* A folder has finitely many files, each a sequence of windows.
Folder(folder) ==
  /\ IsFiniteSet(DOMAIN folder.files)
  /\ \A p \in DOMAIN folder.files :
       LET file == folder.files[p] IN file.content \in Seq({file.content[n] : n \in DOMAIN file.content})

\* Two files of one size that are the same in their first and last window.  Up to
\* two windows they are the same file; what lies between is not looked at.
LooksLike(a, b) ==
  /\ SizeOf(a) = SizeOf(b)
  /\ \A n \in {1, SizeOf(a)} \cap DOMAIN a.content : a.content[n] = b.content[n]

\* Two complete captures of a folder, before and after: exactly the files are said
\* to be lost whose path is gone and that no file of the folder looks like, what is
\* said to have moved looks like what stands where it is said to be, and the hint of
\* a recovered file that was lost at its path is the one about it.
DiffIsTrue(before, after, options) ==
  LET base == Snapshot(before, options)
      head == Snapshot(after, options)
      diff == ComputedDiff(base, head)
      lost == {p \in Walked(before, options) \ Walked(after, options) :
                 \A q \in Walked(after, options) : ~LooksLike(before.files[p], after.files[q])}
      missing == {l.path : l \in MissingInsights(diff)}
  IN (Comparable(base, head) /\ ~base.partial /\ ~head.partial) =>
       /\ missing = lost
       /\ \A c \in diff : c.kind \in {"moved", "renamed"} =>
            LooksLike(before.files[c.from], after.files[c.to]) /\ c.from # c.to
       /\ \A p \in lost :
            LET file == [path |-> p, name |-> Last(p), size |-> SizeOf(before.files[p])]
            IN HintsFor(base, diff, file) = {l \in MissingInsights(diff) : l.path = p}
=============================================================================
