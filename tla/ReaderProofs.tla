---------------------------- MODULE ReaderProofs ----------------------------
(***************************************************************************)
(* Theorems about the readers of a source, for every input of the          *)
(* assumptions: what the comparison of two snapshots tells, which copies   *)
(* the correlation of several sources keeps, what a virtual disk reads     *)
(* back, and which volumes of a partitioned disk are found.                *)
(***************************************************************************)
EXTENDS SourceReaders, ListLemmas

-------------------------------------------------------------------------------
(* The comparison of two snapshots.                                        *)

(* Two files that can be read have one size and one partial hash exactly   *)
(* when they are of one size and the same at both ends.                    *)
LEMMA HashIsTheEnds ==
    ASSUME NEW a, NEW b, NEW S, NEW T, a.hashes, b.hashes,
           a.content \in Seq(S), b.content \in Seq(T)
    PROVE  (SizeOf(a) = SizeOf(b) /\ PartialHash(a) = PartialHash(b)) <=> LooksLike(a, b)
<1> DEFINE c == a.content
           d == b.content
<1>0. SizeOf(a) = Len(c) /\ SizeOf(b) = Len(d)
  BY DEF SizeOf
<1>1. PICK n \in Nat : n = Len(c) /\ DOMAIN c = 1..n
  OBVIOUS
<1>2. PICK m \in Nat : m = Len(d) /\ DOMAIN d = 1..m
  OBVIOUS
<1>3. LooksLike(a, b) <=> n = m /\ \A k \in {1, n} \cap 1..n : c[k] = d[k]
  BY <1>0, <1>1, <1>2, Zenon DEF LooksLike
<1>4. PartialHash(a) = IF n <= 2 THEN <<c>> ELSE <<c[1], c[n], n>>
  BY <1>0, <1>1, Zenon DEF PartialHash
<1>5. PartialHash(b) = IF m <= 2 THEN <<d>> ELSE <<d[1], d[m], m>>
  BY <1>0, <1>2, Zenon DEF PartialHash
<1>6. n <= 2 /\ m = n => (c = d <=> \A k \in {1, n} \cap 1..n : c[k] = d[k])
  <2> SUFFICES ASSUME n <= 2, m = n, \A k \in {1, n} \cap 1..n : c[k] = d[k]
               PROVE  c = d
    OBVIOUS
  <2>1. \A k \in 1..n : k \in {1, n} \cap 1..n
    OBVIOUS
  <2>2. DOMAIN c = DOMAIN d /\ \A k \in DOMAIN c : c[k] = d[k]
    BY <1>1, <1>2, <2>1
  <2>3. c = [k \in DOMAIN c |-> c[k]] /\ d = [k \in DOMAIN d |-> d[k]]
    OBVIOUS
  <2> QED
    BY <2>2, <2>3
<1> HIDE DEF c, d
<1>7. CASE n <= 2 /\ m = n
  <2>1. (<<c>> = <<d>>) <=> c = d
    OBVIOUS
  <2> QED
    BY <1>0, <1>1, <1>2, <1>3, <1>4, <1>5, <1>6, <1>7, <2>1
<1>8. CASE n > 2 /\ m = n
  <2>1. (<<c[1], c[n], n>> = <<d[1], d[n], n>>) <=> (c[1] = d[1] /\ c[n] = d[n])
    OBVIOUS
  <2>2. (\A k \in {1, n} \cap 1..n : c[k] = d[k]) <=> (c[1] = d[1] /\ c[n] = d[n])
    BY <1>8
  <2>3. PartialHash(a) = <<c[1], c[n], n>> /\ PartialHash(b) = <<d[1], d[n], n>>
    <3>1. ~(n <= 2) /\ ~(m <= 2) /\ m = n
      BY <1>8
    <3> QED
      BY <1>4, <1>5, <3>1, Zenon
  <2>4. SizeOf(a) = SizeOf(b) /\ n = m
    BY <1>0, <1>1, <1>2, <1>8
  <2> QED
    BY <1>3, <2>1, <2>2, <2>3, <2>4, Zenon
<1>9. CASE m # n
  BY <1>0, <1>1, <1>2, <1>3, <1>9
<1> QED
  BY <1>7, <1>8, <1>9

(* What a complete snapshot says of a file.                                *)
LEMMA CompleteSnapshot ==
    ASSUME NEW folder, NEW options, Folder(folder), ~Snapshot(folder, options).partial
    PROVE  LET records == Snapshot(folder, options).records
           IN  /\ DOMAIN records = Walked(folder, options)
               /\ IsFiniteSet(DOMAIN records)
               /\ \A p \in DOMAIN records :
                    /\ p \in DOMAIN folder.files
                    /\ records[p] = [size |-> SizeOf(folder.files[p]), hash |-> PartialHash(folder.files[p])]
                    /\ records[p].hash # Unhashed
<1> DEFINE seen == Walked(folder, options)
           records == Snapshot(folder, options).records
<1>1. /\ records = [p \in seen |-> [size |-> SizeOf(folder.files[p]),
                                    hash |-> PartialHash(folder.files[p])]]
      /\ \A p \in seen : folder.files[p].hashes
  BY DEF Snapshot
<1>2. seen \in SUBSET DOMAIN folder.files
  BY DEF Walked
<1>3. IsFiniteSet(seen)
  <2> HIDE DEF seen
  <2> QED
    BY <1>2, FS_Subset DEF Folder
<1> HIDE DEF seen, records
<1>4. ASSUME NEW p \in seen PROVE PartialHash(folder.files[p]) # Unhashed
  <2> DEFINE f == folder.files[p]
             n == SizeOf(f)
  <2>1. f.hashes
    BY <1>1
  <2>2. PartialHash(f) = IF n <= 2 THEN <<f.content>> ELSE <<f.content[1], f.content[n], n>>
    BY <2>1, Zenon DEF PartialHash
  <2> HIDE DEF n
  <2>3. <<f.content>> # <<>> /\ <<f.content[1], f.content[n], n>> # <<>>
    OBVIOUS
  <2> QED
    BY <2>2, <2>3 DEF Unhashed
<1>5. \A p \in seen :
        /\ folder.files[p].hashes
        /\ records[p] = [size |-> SizeOf(folder.files[p]), hash |-> PartialHash(folder.files[p])]
        /\ records[p].hash # Unhashed
  BY <1>1, <1>4
<1> QED
  BY <1>1, <1>2, <1>3, <1>5 DEF seen, records

(* compute_diff of two snapshots without files whose hash is unknown.      *)
Hashed(snapshot) ==
  /\ IsFiniteSet(DOMAIN snapshot.records)
  /\ \A p \in DOMAIN snapshot.records : snapshot.records[p].hash # Unhashed

(* A move is from a file the older snapshot has to its only twin in the    *)
(* newer one, where no file was.                                           *)
LEMMA MovesAreTrue ==
    ASSUME NEW base, NEW head, Hashed(base), NEW path \in DOMAIN head.records,
           NEW change \in HeadChanges(base, head, path)
    PROVE  /\ change.kind # "missing"
           /\ change.kind \in {"moved", "renamed"} =>
                /\ change.to = path /\ change.from \in DOMAIN base.records
                /\ change.from # path
                /\ base.records[change.from] = head.records[path]
<1> DEFINE record == head.records[path]
           twins == Identities(base, record)
<1>1. CASE path \in DOMAIN base.records
  <2>1. change.kind = "modified"
    BY <1>1 DEF HeadChanges, Change
  <2> QED
    BY <2>1
<1>2. CASE path \notin DOMAIN base.records /\ twins = {}
  <2>1. Cardinality(twins) # 1
    BY <1>2, FS_EmptySet
  <2>2. change.kind = "new"
    BY <1>2, <2>1 DEF HeadChanges, Change
  <2> QED
    BY <2>2
<1>3. CASE path \notin DOMAIN base.records /\ twins # {} /\ Cardinality(twins) # 1
  <2>1. change.kind = "ambiguous"
    BY <1>3 DEF HeadChanges, Change
  <2> QED
    BY <2>1
<1>4. CASE path \notin DOMAIN base.records /\ twins # {} /\ Cardinality(twins) = 1
  <2> DEFINE from == CHOOSE p \in twins : TRUE
  <2>1. change = Change(MoveOrRename(from, path), from, path, "high")
    BY <1>4 DEF HeadChanges
  <2>2. from \in twins
    BY <1>4
  <2>3. from \in DOMAIN base.records /\ base.records[from] = record /\ from # path
    BY <1>4, <2>2 DEF Identities
  <2> HIDE DEF from
  <2>4. change.kind \in {"moved", "renamed"} /\ change.from = from /\ change.to = path
    BY <2>1 DEF Change, MoveOrRename
  <2> QED
    BY <2>3, <2>4
<1> QED
  BY <1>1, <1>2, <1>3, <1>4

(* What is called missing is of the older snapshot, and neither its path   *)
(* nor its content is in the newer one.                                    *)
Gone(base, head) ==
  {p \in DOMAIN base.records : /\ p \notin DOMAIN head.records
                               /\ \A q \in DOMAIN head.records : head.records[q] # base.records[p]}

\* With every record hashed, a diff reports exactly the paths that are gone.
LEMMA MissingIsGone ==
    ASSUME NEW base, NEW head, Hashed(base), Hashed(head)
    PROVE  MissingInsights(ComputedDiff(base, head))
             = {[path |-> p, confidence |-> "high"] : p \in Gone(base, head)}
<1> DEFINE found == UNION {HeadChanges(base, head, p) : p \in DOMAIN head.records}
           diff == ComputedDiff(base, head)
<1>1. \A c \in found : /\ c.kind # "missing"
                       /\ c.kind \in {"moved", "renamed"} =>
                            /\ c.from \in DOMAIN base.records
                            /\ \E q \in DOMAIN head.records : base.records[c.from] = head.records[q]
  BY MovesAreTrue, SMTT(20)
<1>2. diff = found \cup UNION {BaseChanges(base, head, found, p) : p \in DOMAIN base.records}
  BY DEF ComputedDiff
<1> HIDE DEF found, diff
<1>3. ASSUME NEW p \in DOMAIN base.records
      PROVE  BaseChanges(base, head, found, p)
               = IF p \in Gone(base, head) THEN {Change("missing", p, NoPath, "high")} ELSE {}
  <2>1. Identities(head, base.records[p])
          = {q \in DOMAIN head.records : head.records[q] = base.records[p]}
    BY DEF Identities, Hashed
  <2>2. AloneConfidence(base.records[p]) = "high"
    BY DEF AloneConfidence, Hashed
  <2>3. CASE p \in Gone(base, head)
    <3>1. p \notin DOMAIN head.records /\ Identities(head, base.records[p]) = {}
      BY <2>1, <2>3 DEF Gone
    <3>2. ~ \E c \in found : c.kind \in {"moved", "renamed"} /\ c.from = p
      BY <1>1, <2>3 DEF Gone
    <3> QED
      BY <2>2, <2>3, <3>1, <3>2, Zenon DEF BaseChanges
  <2>4. CASE p \notin Gone(base, head)
    <3>1. p \in DOMAIN head.records \/ Identities(head, base.records[p]) # {}
      BY <2>1, <2>4 DEF Gone
    <3> QED
      BY <2>4, <3>1, Zenon DEF BaseChanges
  <2> QED
    BY <2>3, <2>4
<1>4. \A c : (c \in diff /\ c.kind = "missing")
               <=> \E p \in Gone(base, head) : c = Change("missing", p, NoPath, "high")
  <2>1. \A p : Change("missing", p, NoPath, "high").kind = "missing"
    BY DEF Change
  <2>2. Gone(base, head) \subseteq DOMAIN base.records
    BY DEF Gone
  <2> QED
    BY <1>1, <1>2, <1>3, <2>1, <2>2
<1>5. \A p : /\ Change("missing", p, NoPath, "high").from = p
             /\ Change("missing", p, NoPath, "high").confidence = "high"
  BY DEF Change
<1>6. \A l : l \in MissingInsights(diff)
               <=> \E p \in Gone(base, head) : l = [path |-> p, confidence |-> "high"]
  <2>1. \A l : l \in MissingInsights(diff)
                 <=> \E c \in diff : c.kind = "missing"
                                     /\ l = [path |-> c.from, confidence |-> c.confidence]
    BY DEF MissingInsights
  <2> QED
    BY <1>4, <1>5, <2>1
<1> QED
  BY <1>6 DEF diff

(* The hint for a file that is called missing is that it is.               *)
LEMMA HintIsOfTheFile ==
    ASSUME NEW base, NEW head, Hashed(base), Hashed(head), NEW p \in Gone(base, head),
           NEW name, NEW size
    PROVE  LET diff == ComputedDiff(base, head)
           IN  HintsFor(base, diff, [path |-> p, name |-> name, size |-> size])
                 = {l \in MissingInsights(diff) : l.path = p}
<1> DEFINE diff == ComputedDiff(base, head)
           file == [path |-> p, name |-> name, size |-> size]
           byPath == {l \in MissingInsights(diff) : l.path = file.path}
<1>1. MissingInsights(diff) = {[path |-> q, confidence |-> "high"] : q \in Gone(base, head)}
  BY MissingIsGone
<1> HIDE DEF diff
<1>2. byPath = {[path |-> p, confidence |-> "high"]}
  BY <1>1
<1>3. Cardinality(byPath) = 1
  BY <1>2, FS_Singleton
<1>4. file.path = p
  OBVIOUS
<1> HIDE DEF file
<1>5. HintsFor(base, diff, file) = byPath
  BY <1>3 DEF HintsFor
<1> QED
  BY <1>4, <1>5 DEF diff, file

(* Of two complete captures of any two folders: a file is called missing   *)
(* exactly when its path is gone and no file left is of its size and the   *)
(* same in its first and last 64 KiB; what is called moved is so where it  *)
(* is said to be; and the hint a recovered file gets by its path is the    *)
(* one about it (compute_diff, recovery_context_hints_for,                 *)
(* compute_partial_hash).                                                  *)
THEOREM DiffIsAlwaysTrue ==
    ASSUME NEW before, NEW after, NEW options, Folder(before), Folder(after)
    PROVE  DiffIsTrue(before, after, options)
<1> DEFINE base == Snapshot(before, options)
           head == Snapshot(after, options)
           diff == ComputedDiff(base, head)
           lost == {p \in Walked(before, options) \ Walked(after, options) :
                      \A q \in Walked(after, options) : ~LooksLike(before.files[p], after.files[q])}
           missing == {l.path : l \in MissingInsights(diff)}
<1> SUFFICES ASSUME ~base.partial, ~head.partial
             PROVE  /\ missing = lost
                    /\ \A c \in diff : c.kind \in {"moved", "renamed"} =>
                         /\ LooksLike(before.files[c.from], after.files[c.to])
                         /\ c.from # c.to
                    /\ \A p \in lost :
                         HintsFor(base, diff, [path |-> p, name |-> Last(p), size |-> SizeOf(before.files[p])])
                           = {l \in MissingInsights(diff) : l.path = p}
  BY DEF DiffIsTrue
<1>1. /\ DOMAIN base.records = Walked(before, options) /\ IsFiniteSet(DOMAIN base.records)
      /\ \A p \in DOMAIN base.records :
           /\ p \in DOMAIN before.files
           /\ base.records[p] = [size |-> SizeOf(before.files[p]), hash |-> PartialHash(before.files[p])]
           /\ base.records[p].hash # Unhashed
  BY CompleteSnapshot
<1>2. /\ DOMAIN head.records = Walked(after, options) /\ IsFiniteSet(DOMAIN head.records)
      /\ \A p \in DOMAIN head.records :
           /\ p \in DOMAIN after.files
           /\ head.records[p] = [size |-> SizeOf(after.files[p]), hash |-> PartialHash(after.files[p])]
           /\ head.records[p].hash # Unhashed
  BY CompleteSnapshot
<1> HIDE DEF base, head
<1>3. Hashed(base) /\ Hashed(head)
  BY <1>1, <1>2 DEF Hashed
<1>4. \A p \in DOMAIN base.records, q \in DOMAIN head.records :
        base.records[p] = head.records[q] <=> LooksLike(before.files[p], after.files[q])
  <2> SUFFICES ASSUME NEW p \in DOMAIN base.records, NEW q \in DOMAIN head.records
               PROVE  base.records[p] = head.records[q]
                        <=> LooksLike(before.files[p], after.files[q])
    OBVIOUS
  <2> DEFINE a == before.files[p]
             b == after.files[q]
  <2>1. /\ base.records[p] = [size |-> SizeOf(a), hash |-> PartialHash(a)]
        /\ head.records[q] = [size |-> SizeOf(b), hash |-> PartialHash(b)]
        /\ base.records[p].hash # Unhashed /\ head.records[q].hash # Unhashed
    BY <1>1, <1>2
  <2>2. PICK S, T : a.content \in Seq(S) /\ b.content \in Seq(T)
    BY <1>1, <1>2, Zenon DEF Folder
  <2> HIDE DEF a, b
  <2>3. (SizeOf(a) = SizeOf(b) /\ PartialHash(a) = PartialHash(b)) <=> LooksLike(a, b)
    <3>1. PartialHash(a) # Unhashed /\ PartialHash(b) # Unhashed
      BY <2>1
    <3>2. a.hashes /\ b.hashes
      BY <3>1, Zenon DEF PartialHash
    <3> QED
      BY <2>2, <3>2, HashIsTheEnds, Zenon
  <2>4. base.records[p] = head.records[q]
          <=> SizeOf(a) = SizeOf(b) /\ PartialHash(a) = PartialHash(b)
    BY <2>1
  <2> QED
    BY <2>3, <2>4 DEF a, b
<1>5. lost = Gone(base, head)
  BY <1>1, <1>2, <1>4 DEF Gone
<1>6. MissingInsights(diff) = {[path |-> p, confidence |-> "high"] : p \in Gone(base, head)}
  BY <1>3, MissingIsGone
<1>7. missing = lost
  <2> DEFINE insights == MissingInsights(diff)
  <2>1. \A l : l \in insights
                 <=> \E p \in Gone(base, head) : l = [path |-> p, confidence |-> "high"]
    BY <1>6
  <2>2. \A p : [path |-> p, confidence |-> "high"].path = p
    OBVIOUS
  <2>3. missing = {l.path : l \in insights}
    OBVIOUS
  <2> HIDE DEF lost, insights, missing
  <2>4. ASSUME NEW p \in missing PROVE p \in Gone(base, head)
    <3>1. PICK l \in insights : p = l.path
      BY <2>3
    <3>2. PICK q \in Gone(base, head) : l = [path |-> q, confidence |-> "high"]
      BY <2>1, <3>1
    <3> QED
      BY <2>2, <3>1, <3>2
  <2>5. ASSUME NEW p \in Gone(base, head) PROVE p \in missing
    <3> DEFINE l == [path |-> p, confidence |-> "high"]
    <3>1. l \in insights /\ l.path = p
      BY <2>1, <2>2
    <3> QED
      BY <2>3, <3>1
  <2> QED
    BY <1>5, <2>4, <2>5
<1>8. ASSUME NEW c \in diff, c.kind \in {"moved", "renamed"}
      PROVE  LooksLike(before.files[c.from], after.files[c.to]) /\ c.from # c.to
  <2>1. CASE \E q \in DOMAIN head.records : c \in HeadChanges(base, head, q)
    <3>1. PICK q \in DOMAIN head.records : c \in HeadChanges(base, head, q)
      BY <2>1
    <3>2. /\ c.to = q /\ c.from \in DOMAIN base.records /\ c.from # q
          /\ base.records[c.from] = head.records[q]
      <4>1. Hashed(base) /\ c.kind \in {"moved", "renamed"}
        BY <1>3, <1>8
      <4> QED
        BY <3>1, <4>1, MovesAreTrue
    <3>3. base.records[c.from] = head.records[q]
            <=> LooksLike(before.files[c.from], after.files[q])
      BY <1>4, <3>2, Zenon
    <3> QED
      BY <3>2, <3>3, Zenon
  <2>2. ASSUME NEW found, NEW p \in DOMAIN base.records, c \in BaseChanges(base, head, found, p)
        PROVE  FALSE
    <3>1. c.kind = "missing"
      BY <2>2 DEF BaseChanges, Change
    <3> QED
      BY <1>8, <3>1
  <2> QED
    BY <2>1, <2>2 DEF ComputedDiff
<1>9. \A p \in lost :
        HintsFor(base, diff, [path |-> p, name |-> Last(p), size |-> SizeOf(before.files[p])])
          = {l \in MissingInsights(diff) : l.path = p}
  BY <1>3, <1>5, HintIsOfTheFile
<1> QED
  BY <1>7, <1>8, <1>9

(* What is chosen to be compared is one of the captures.                   *)
DiffInv == reader = "diff" /\ input # NoInput => input \in Captures

(* The comparison of any two complete captures of a folder tells of it what *)
(* the size and both ends of its files show, and nothing else              *)
(* (compute_diff).                                                         *)
THEOREM DiffAlwaysTells == ReaderSpec => []DiffTellsTheTruth
<1>1. ReaderInit => DiffInv
  BY DEF ReaderInit, DiffInv
<1>2. DiffInv /\ [ReaderNext]_readerVars => DiffInv'
  BY DEF DiffInv, ReaderNext, Chooses, readerVars
<1>3. DiffInv => DiffTellsTheTruth
  BY CaptureAssumption, DiffIsAlwaysTrue DEF DiffInv, DiffTellsTheTruth, Chosen
<1> QED
  BY <1>1, <1>2, <1>3, PTL DEF ReaderSpec

-------------------------------------------------------------------------------
(* The correlation of what several sources found.                          *)

(* What the deduplication holds: files, and one of them for some keys.     *)
Selections(files, keys) ==
  [keep : SUBSET DOMAIN files,
   index : UNION {[S -> DOMAIN files] : S \in SUBSET {keys[i] : i \in DOMAIN files}}]

\* A step of the selection leaves a set of files and an index into them.
LEMMA MetIsAChoice ==
    ASSUME NEW files, NEW keep \in SUBSET DOMAIN files, NEW keys, NEW alike,
           NEW state \in Selections(files, keys), NEW i \in DOMAIN files
    PROVE  Met(files, keep, keys, alike, state, i) \in Selections(files, keys)
<1> DEFINE K == {keys[j] : j \in DOMAIN files}
<1>1. PICK S \in SUBSET K : state.index \in [S -> DOMAIN files]
  BY DEF Selections
<1>2. /\ state = [keep |-> state.keep, index |-> state.index]
      /\ state.keep \in SUBSET DOMAIN files
  BY DEF Selections
<1>3. ASSUME NEW kept \in SUBSET DOMAIN files, NEW T \in SUBSET K, NEW index \in [T -> DOMAIN files]
      PROVE  [keep |-> kept, index |-> index] \in Selections(files, keys)
  BY <1>3 DEF Selections
<1>4. keys[i] \in K
  OBVIOUS
<1> HIDE DEF K
<1>5. Decided(files, keys[i], alike, state, i) \in Selections(files, keys)
  <2>1. [state.index EXCEPT ![keys[i]] = i] \in [S -> DOMAIN files]
    BY <1>1
  <2>2. [state EXCEPT !.keep = @ \ {i}] = [keep |-> state.keep \ {i}, index |-> state.index]
    BY <1>2
  <2>3. /\ [state EXCEPT !.keep = @ \ {i}] \in Selections(files, keys)
        /\ [keep |-> state.keep \ {state.index[keys[i]]},
            index |-> [state.index EXCEPT ![keys[i]] = i]] \in Selections(files, keys)
    <3>1. [keep |-> state.keep \ {i}, index |-> state.index] \in Selections(files, keys)
      BY <1>1, <1>2, <1>3
    <3>2. [keep |-> state.keep \ {state.index[keys[i]]},
            index |-> [state.index EXCEPT ![keys[i]] = i]] \in Selections(files, keys)
      BY <1>1, <1>2, <1>3, <2>1
    <3> QED
      BY <2>2, <3>1, <3>2
  <2> QED
    BY <2>3 DEF Decided
<1>6. Indexed(state, keys[i], i) \in Selections(files, keys)
  <2> DEFINE index == [k \in DOMAIN state.index \cup {keys[i]} |-> IF k = keys[i] THEN i ELSE state.index[k]]
  <2>1. index \in [S \cup {keys[i]} -> DOMAIN files] /\ S \cup {keys[i]} \in SUBSET K
    BY <1>1, <1>4
  <2>2. Indexed(state, keys[i], i) = [keep |-> state.keep, index |-> index]
    BY <1>2 DEF Indexed
  <2> HIDE DEF index
  <2> QED
    BY <1>2, <1>3, <2>1, <2>2
<1> QED
  BY <1>5, <1>6 DEF Met

\* The recursive selection starts from what is kept and meets a file a step.
LEMMA DeduplicatedUpToIs ==
    ASSUME NEW R, NEW files \in Seq(R), NEW keep \in SUBSET DOMAIN files, NEW keys, NEW alike
    PROVE  LET state == DeduplicatedUpTo(files, keep, keys, alike)
           IN  /\ state[0] = [keep |-> keep, index |-> <<>>]
               /\ \A n \in DOMAIN files :
                    state[n] = Met(files, keep, keys, alike, state[n - 1], n)
<1> DEFINE N == Len(files)
           D == Selections(files, keys)
           d == [keep |-> keep, index |-> <<>>]
           Step(f) == [n \in 0..N |-> IF n = 0 THEN d ELSE Met(files, keep, keys, alike, f[n - 1], n)]
           next == [x \in (1..N) \X D |-> Met(files, keep, keys, alike, x[2], x[1])]
<1>1. N \in Nat /\ DOMAIN files = 1..N
  OBVIOUS
<1>2. d \in D
  <2>1. <<>> \in [{} -> DOMAIN files]
    OBVIOUS
  <2>2. {} \in SUBSET {keys[i] : i \in DOMAIN files}
    OBVIOUS
  <2> QED
    BY <2>1, <2>2 DEF Selections
<1>3. next \in [(1..N) \X D -> D]
  <2>1. \A n \in 1..N, s \in D : Met(files, keep, keys, alike, s, n) \in D
    BY <1>1, MetIsAChoice
  <2> HIDE DEF N, D
  <2> QED
    BY <2>1
<1> HIDE DEF D, d
<1>4. \E f : f = Step(f)
  <2>1. PICK f \in [0..N -> D] : Iterated(f, d, N, next)
    <3> HIDE DEF next, N
    <3> QED
      BY <1>1, <1>2, <1>3, Iterates
  <2>2. \A n \in 1..N : f[n] = Met(files, keep, keys, alike, f[n - 1], n)
    <3> SUFFICES ASSUME NEW n \in 1..N PROVE f[n] = Met(files, keep, keys, alike, f[n - 1], n)
      OBVIOUS
    <3>1. n - 1 \in 0..N
      BY <1>1
    <3>2. f[n - 1] \in D
      <4> HIDE DEF N
      <4> QED
        BY <3>1, <2>1
    <3>3. f[n] = next[<<n, f[n - 1]>>]
      BY <2>1 DEF Iterated
    <3> HIDE DEF N
    <3> QED
      BY <3>2, <3>3
  <2>3. f = Step(f)
    <3>1. f[0] = d
      BY <2>1 DEF Iterated
    <3>2. DOMAIN f = 0..N /\ f = [n \in 0..N |-> f[n]]
      BY <2>1
    <3>3. \A n \in 0..N : n = 0 \/ n \in 1..N
      BY <1>1
    <3> HIDE DEF N
    <3>4. \A n \in 0..N : f[n] = IF n = 0 THEN d ELSE Met(files, keep, keys, alike, f[n - 1], n)
      BY <2>2, <3>1, <3>3
    <3> QED
      BY <3>2, <3>4
  <2> QED
    BY <2>3
<1>5. DeduplicatedUpTo(files, keep, keys, alike) = CHOOSE f : f = Step(f)
  BY DEF DeduplicatedUpTo, d
<1>6. DeduplicatedUpTo(files, keep, keys, alike) = Step(DeduplicatedUpTo(files, keep, keys, alike))
  <2> HIDE DEF Step
  <2> QED
    BY <1>4, <1>5, Zenon
<1> DEFINE F == DeduplicatedUpTo(files, keep, keys, alike)
<1>7. \A n \in 0..N : F[n] = IF n = 0 THEN d ELSE Met(files, keep, keys, alike, F[n - 1], n)
  BY <1>6
<1> HIDE DEF F
<1>8. 0 \in 0..N /\ \A n \in 1..N : n \in 0..N /\ n # 0
  BY <1>1
<1> HIDE DEF N
<1>9. F[0] = d /\ \A n \in 1..N : F[n] = Met(files, keep, keys, alike, F[n - 1], n)
  BY <1>7, <1>8
<1> QED
  BY <1>1, <1>9 DEF F, d

(* After n files: the index has kept files of its keys, every file dropped *)
(* has a kept one that Q puts in its place, and where all are alike a kept *)
(* file is the one its key stands for.                                     *)
BestSoFar(keep, keys, Q, unique, state, n) ==
  /\ state.keep \subseteq keep
  /\ \A k \in DOMAIN state.index :
       state.index[k] \in state.keep /\ state.index[k] <= n /\ keys[state.index[k]] = k /\ k # None
  /\ \A i \in keep : i > n => i \in state.keep
  /\ \A b \in keep \ state.keep : \E a \in state.keep : <<a, b>> \in Q
  /\ unique => \A i \in state.keep : i <= n /\ keys[i] # None =>
                 keys[i] \in DOMAIN state.index /\ state.index[keys[i]] = i

(* When b goes for a, Q has a for all that b stood for.                    *)
LEMMA Replaced ==
    ASSUME NEW keep, NEW kept \in SUBSET keep, NEW Q, NEW a \in kept, NEW b, a # b, <<a, b>> \in Q,
           \A x, y, z \in keep : <<x, y>> \in Q /\ <<y, z>> \in Q => <<x, z>> \in Q,
           b \in kept, \A c \in keep \ kept : \E x \in kept : <<x, c>> \in Q
    PROVE  \A c \in keep \ (kept \ {b}) : \E x \in kept \ {b} : <<x, c>> \in Q
<1> SUFFICES ASSUME NEW c \in keep \ (kept \ {b}) PROVE \E x \in kept \ {b} : <<x, c>> \in Q
  OBVIOUS
<1>1. CASE c = b
  BY <1>1
<1>2. CASE c # b
  <2>1. PICK x \in kept : <<x, c>> \in Q
    BY <1>2
  <2>2. CASE x = b
    BY <2>1, <2>2
  <2>3. CASE x # b
    BY <2>1, <2>3
  <2> QED
    BY <2>2, <2>3
<1> QED
  BY <1>1, <1>2

\* A step that drops a file keeps one of the same content that is as good.
LEMMA MetKeepsBest ==
    ASSUME NEW files, DOMAIN files \in SUBSET Int, NEW keep \in SUBSET DOMAIN files, NEW keys, NEW alike, NEW Q,
           NEW unique \in BOOLEAN, unique => alike = AllPairs(files),
           \A i \in DOMAIN files : files[i].score \in Int,
           \A x, y, z \in keep : <<x, y>> \in Q /\ <<y, z>> \in Q => <<x, z>> \in Q,
           \A a, b \in keep :
             /\ a # b /\ keys[a] = keys[b] /\ keys[a] # None
             /\ <<a, b>> \in alike \/ <<b, a>> \in alike
             /\ files[a].score >= files[b].score
             => <<a, b>> \in Q,
           NEW i \in DOMAIN files, NEW state \in Selections(files, keys),
           BestSoFar(keep, keys, Q, unique, state, i - 1)
    PROVE  BestSoFar(keep, keys, Q, unique, Met(files, keep, keys, alike, state, i), i)
<1> DEFINE met == Met(files, keep, keys, alike, state, i)
           key == keys[i]
<1>1. /\ state.keep \subseteq keep
      /\ \A k \in DOMAIN state.index :
           /\ state.index[k] \in state.keep /\ state.index[k] <= i - 1
           /\ keys[state.index[k]] = k /\ k # None
      /\ \A j \in keep : j > i - 1 => j \in state.keep
      /\ \A b \in keep \ state.keep : \E a \in state.keep : <<a, b>> \in Q
      /\ unique => \A j \in state.keep : j <= i - 1 /\ keys[j] # None =>
                     keys[j] \in DOMAIN state.index /\ state.index[keys[j]] = j
  BY DEF BestSoFar
<1>2. /\ i \in Int /\ keep \subseteq Int
      /\ \A j \in Int : j > i => j > i - 1
      /\ \A j \in Int : j <= i - 1 => j <= i /\ j # i
      /\ \A j \in Int : j <= i => j <= i - 1 \/ j = i
      /\ i > i - 1 /\ i <= i
  OBVIOUS
<1>3. state.keep \subseteq Int /\ \A k \in DOMAIN state.index : state.index[k] \in Int
  BY <1>1, <1>2
<1>4. CASE i \notin keep \/ key = None
  <2>1. met = state
    BY <1>4 DEF Met
  <2>2. \A j \in state.keep : j <= i /\ keys[j] # None => j <= i - 1
    BY <1>1, <1>2, <1>3, <1>4
  <2> HIDE DEF met
  <2> QED
    BY <1>1, <1>2, <1>3, <2>1, <2>2 DEF BestSoFar, met
<1>5. CASE i \in keep /\ key # None /\ key \notin DOMAIN state.index
  <2>1. met = Indexed(state, key, i)
    BY <1>5 DEF Met
  <2> DEFINE index == [k \in DOMAIN state.index \cup {key} |-> IF k = key THEN i ELSE state.index[k]]
  <2>2. met.keep = state.keep /\ met.index = index
    BY <2>1 DEF Indexed, Selections
  <2>3. /\ DOMAIN index = DOMAIN state.index \cup {key}
        /\ index[key] = i
        /\ \A k \in DOMAIN state.index : index[k] = state.index[k]
    BY <1>5
  <2> HIDE DEF met, index
  <2>4. i \in state.keep
    BY <1>1, <1>2, <1>5
  <2>5. \A k \in DOMAIN index :
          index[k] \in state.keep /\ index[k] <= i /\ keys[index[k]] = k /\ k # None
    BY <1>1, <1>2, <1>3, <1>5, <2>3, <2>4
  <2>6. unique => \A j \in state.keep : j <= i /\ keys[j] # None =>
                    keys[j] \in DOMAIN index /\ index[keys[j]] = j
    BY <1>1, <1>2, <1>3, <1>5, <2>3
  <2> QED
    BY <1>1, <1>2, <2>2, <2>5, <2>6 DEF BestSoFar, met
<1>6. CASE i \in keep /\ key # None /\ key \in DOMAIN state.index
  <2> DEFINE old == state.index[key]
  <2>1. met = Decided(files, key, alike, state, i)
    BY <1>6 DEF Met
  <2>2. /\ i \in state.keep /\ old \in state.keep /\ old # i /\ old \in keep /\ keys[old] = key
        /\ old \in DOMAIN files
    BY <1>1, <1>2, <1>3, <1>6
  <2>3. CASE <<old, i>> \notin alike
    <3>1. met = state
      BY <2>1, <2>3 DEF Decided
    <3>2. ~unique
      BY <2>2, <2>3 DEF AllPairs
    <3> HIDE DEF met, old
    <3> QED
      BY <1>1, <1>2, <1>3, <3>1, <3>2 DEF BestSoFar, met
  <2>4. CASE <<old, i>> \in alike /\ files[old].score >= files[i].score
    <3>1. met = [state EXCEPT !.keep = @ \ {i}]
      BY <2>1, <2>4 DEF Decided
    <3>2. met.keep = state.keep \ {i} /\ met.index = state.index
      BY <3>1 DEF Selections
    <3>3. <<old, i>> \in Q
      BY <1>6, <2>2, <2>4
    <3> HIDE DEF met
    <3>4. \A b \in keep \ (state.keep \ {i}) : \E a \in state.keep \ {i} : <<a, b>> \in Q
      <4> HIDE DEF old
      <4> QED
        BY <1>1, <2>2, <3>3, Replaced
    <3>5. \A k \in DOMAIN state.index : state.index[k] # i /\ state.index[k] <= i
      BY <1>1, <1>2, <1>3
    <3>6. \A j \in keep : j > i => j \in state.keep \ {i}
      BY <1>1, <1>2
    <3>7. \A j \in state.keep \ {i} : j <= i => j <= i - 1
      BY <1>2, <1>3
    <3> QED
      BY <1>1, <3>2, <3>4, <3>5, <3>6, <3>7 DEF BestSoFar, met
  <2>5. CASE <<old, i>> \in alike /\ ~(files[old].score >= files[i].score)
    <3>1. met = [keep |-> state.keep \ {old}, index |-> [state.index EXCEPT ![key] = i]]
      BY <2>1, <2>5 DEF Decided
    <3> DEFINE index == [state.index EXCEPT ![key] = i]
    <3>2. /\ DOMAIN index = DOMAIN state.index /\ index[key] = i
          /\ \A k \in DOMAIN index : k # key => index[k] = state.index[k]
      BY <1>6
    <3>3. met.keep = state.keep \ {old} /\ met.index = index
      BY <3>1
    <3>4. <<i, old>> \in Q
      <4>1. files[i].score >= files[old].score
        <5>1. files[i].score \in Int /\ files[old].score \in Int
          BY <2>2
        <5> QED
          BY <2>5, <5>1
      <4> QED
        BY <1>6, <2>2, <2>5, <4>1
    <3> HIDE DEF met, index, old
    <3>5. \A b \in keep \ (state.keep \ {old}) : \E a \in state.keep \ {old} : <<a, b>> \in Q
      BY <1>1, <2>2, <3>4, Replaced
    <3>6. \A k \in DOMAIN index :
            index[k] \in state.keep \ {old} /\ index[k] <= i /\ keys[index[k]] = k /\ k # None
      <4> SUFFICES ASSUME NEW k \in DOMAIN index
                   PROVE  index[k] \in state.keep \ {old} /\ index[k] <= i /\ keys[index[k]] = k /\ k # None
        OBVIOUS
      <4>1. CASE k = key
        BY <1>2, <1>6, <2>2, <3>2, <4>1
      <4>2. CASE k # key
        BY <1>1, <1>2, <1>3, <2>2, <3>2, <4>2
      <4> QED
        BY <4>1, <4>2
    <3>7. \A j \in keep : j > i => j \in state.keep \ {old}
      <4>1. old <= i - 1
        BY <1>1, <1>6 DEF old
      <4>2. \A j \in keep : j > i => j # old
        BY <1>2, <2>2, <4>1
      <4> QED
        BY <1>1, <1>2, <4>2
    <3>8. unique => \A j \in state.keep \ {old} : j <= i /\ keys[j] # None =>
                      keys[j] \in DOMAIN index /\ index[keys[j]] = j
      <4> SUFFICES ASSUME unique, NEW j \in state.keep \ {old}, j <= i, keys[j] # None
                   PROVE  keys[j] \in DOMAIN index /\ index[keys[j]] = j
        OBVIOUS
      <4>1. CASE j = i
        BY <1>6, <3>2, <4>1
      <4>2. CASE j # i
        <5>1. keys[j] \in DOMAIN state.index /\ state.index[keys[j]] = j
          BY <1>1, <1>2, <1>3, <4>2
        <5>2. keys[j] # key
          BY <5>1 DEF old
        <5> QED
          BY <3>2, <5>1, <5>2
      <4> QED
        BY <4>1, <4>2
    <3> QED
      BY <1>1, <3>3, <3>5, <3>6, <3>7, <3>8 DEF BestSoFar, met
  <2> QED
    BY <2>3, <2>4, <2>5
<1> QED
  BY <1>4, <1>5, <1>6

(* One file is kept for each key of those alike, and for every file that   *)
(* is dropped one that Q puts in its place.                                *)
LEMMA DeduplicatedKeepsBest ==
    ASSUME NEW R, NEW files \in Seq(R), NEW keep \in SUBSET DOMAIN files, NEW keys, NEW alike, NEW Q,
           NEW unique \in BOOLEAN, unique => alike = AllPairs(files),
           \A i \in DOMAIN files : files[i].score \in Int,
           \A x, y, z \in keep : <<x, y>> \in Q /\ <<y, z>> \in Q => <<x, z>> \in Q,
           \A a, b \in keep :
             /\ a # b /\ keys[a] = keys[b] /\ keys[a] # None
             /\ <<a, b>> \in alike \/ <<b, a>> \in alike
             /\ files[a].score >= files[b].score
             => <<a, b>> \in Q
    PROVE  LET kept == Deduplicated(files, keep, keys, alike)
           IN  /\ kept \subseteq keep
               /\ \A b \in keep \ kept : \E a \in kept : <<a, b>> \in Q
               /\ unique => \A a, b \in kept : a # b => keys[a] = None \/ keys[a] # keys[b]
<1> DEFINE state == DeduplicatedUpTo(files, keep, keys, alike)
           N == Len(files)
           Good(n) == state[n] \in Selections(files, keys) /\ BestSoFar(keep, keys, Q, unique, state[n], n)
<1>1. /\ N \in Nat /\ DOMAIN files = 1..N
      /\ DOMAIN files \in SUBSET Int
  OBVIOUS
<1>2. /\ state[0] = [keep |-> keep, index |-> <<>>]
      /\ \A n \in DOMAIN files : state[n] = Met(files, keep, keys, alike, state[n - 1], n)
  BY DeduplicatedUpToIs
<1> HIDE DEF state
<1>3. Good(0)
  <2>1. <<>> \in [{} -> DOMAIN files] /\ DOMAIN <<>> = {}
    OBVIOUS
  <2>2. {} \in SUBSET {keys[i] : i \in DOMAIN files}
    OBVIOUS
  <2>3. state[0] \in Selections(files, keys)
    <3>1. [keep |-> keep, index |-> <<>>] \in Selections(files, keys)
      BY <2>1, <2>2 DEF Selections
    <3> QED
      BY <1>2, <3>1
  <2>4. state[0].keep = keep /\ state[0].index = <<>>
    BY <1>2
  <2>5. \A i \in keep : ~(i <= 0)
    BY <1>1
  <2>6. BestSoFar(keep, keys, Q, unique, state[0], 0)
    BY <2>1, <2>4, <2>5 DEF BestSoFar
  <2> QED
    BY <2>3, <2>6
<1>4. ASSUME NEW n \in DOMAIN files, Good(n - 1) PROVE Good(n)
  <2>1. BestSoFar(keep, keys, Q, unique, Met(files, keep, keys, alike, state[n - 1], n), n)
    <3> DEFINE before == state[n - 1]
    <3>1. before \in Selections(files, keys) /\ BestSoFar(keep, keys, Q, unique, before, n - 1)
      BY <1>4
    <3> HIDE DEF before
    <3>2. BestSoFar(keep, keys, Q, unique, Met(files, keep, keys, alike, before, n), n)
      BY <1>1, <3>1, MetKeepsBest
    <3> QED
      BY <3>2 DEF before
  <2>2. Met(files, keep, keys, alike, state[n - 1], n) \in Selections(files, keys)
    BY <1>4, MetIsAChoice
  <2> QED
    BY <1>2, <2>1, <2>2
<1>5. \A n \in 0..N : Good(n)
  <2> DEFINE failing == {n \in 0..N : ~Good(n)}
  <2>1. failing \in SUBSET Nat
    BY <1>1
  <2> SUFFICES ASSUME failing # {} PROVE FALSE
    OBVIOUS
  <2>2. PICK m \in failing : \A n \in failing : m <= n
    <3> HIDE DEF failing
    <3> QED
      BY <2>1, LeastNumber
  <2>3. m \in 0..N /\ ~Good(m)
    BY <2>2
  <2> HIDE DEF Good
  <2>4. m # 0
    BY <1>3, <2>3
  <2>5. m - 1 \in 0..N /\ m \in DOMAIN files /\ ~(m <= m - 1)
    BY <1>1, <2>3, <2>4
  <2>6. Good(m - 1)
    BY <2>2, <2>5
  <2> QED
    BY <1>4, <2>3, <2>5, <2>6
<1>6. BestSoFar(keep, keys, Q, unique, state[N], N)
  <2>1. N \in 0..N
    BY <1>1
  <2> HIDE DEF N
  <2> QED
    BY <1>5, <2>1
<1>7. Deduplicated(files, keep, keys, alike) = state[N].keep
  BY DEF Deduplicated, state
<1>8. \A i \in keep : i <= N
  BY <1>1
<1> QED
  BY <1>6, <1>7, <1>8 DEF BestSoFar

(* Of any list of files: each that is dropped has a survivor for it *)
(* in any transitive relation that has for each file those it is kept for, *)
(* and none is there twice (correlate_recovery_sources).                   *)
LEMMA SurvivorsAreKept ==
    ASSUME NEW R, NEW files \in Seq(R), \A i \in DOMAIN files : files[i].score \in Int,
           NEW Q, \A x, y, z \in DOMAIN files : <<x, y>> \in Q /\ <<y, z>> \in Q => <<x, z>> \in Q,
           \A a, b \in DOMAIN files : KeptFor(files, a, b) => <<a, b>> \in Q
    PROVE  /\ \A b \in DOMAIN files \ Survivors(files) : \E a \in Survivors(files) : <<a, b>> \in Q
           /\ NoneTwice(files, Survivors(files))
<1> DEFINE D == DOMAIN files
           first == DistinctHashes(files)
           second == DistinctPlaces(files)
           last == Survivors(files)
           near == {p \in AllPairs(files) : SizeAlike(files[p[1]], files[p[2]])}
<1>1. /\ first \subseteq D
      /\ \A b \in D \ first : \E a \in first : <<a, b>> \in Q
      /\ \A a, b \in first : a # b => files[a].hash = None \/ files[a].hash # files[b].hash
  <2> DEFINE keys == Hashes(files)
  <2>1. \A i \in D : keys[i] = files[i].hash
    BY DEF Hashes
  <2>2. \A a, b \in D : /\ a # b /\ keys[a] = keys[b] /\ keys[a] # None
                        /\ files[a].score >= files[b].score
                        => <<a, b>> \in Q
    BY <2>1 DEF KeptFor, StandsFor
  <2>3. LET kept == Deduplicated(files, D, keys, AllPairs(files))
        IN  /\ kept \subseteq D
            /\ \A b \in D \ kept : \E a \in kept : <<a, b>> \in Q
            /\ TRUE => \A a, b \in kept : a # b => keys[a] = None \/ keys[a] # keys[b]
    <3> HIDE DEF keys
    <3>1. D \in SUBSET DOMAIN files /\ TRUE \in BOOLEAN
      OBVIOUS
    <3> QED
      BY <2>2, <3>1, DeduplicatedKeepsBest
  <2>4. first = Deduplicated(files, D, keys, AllPairs(files))
    BY DEF DistinctHashes
  <2> HIDE DEF first, keys
  <2> QED
    BY <2>1, <2>3, <2>4
<1>2. /\ second \subseteq first
      /\ \A b \in first \ second : \E a \in second : <<a, b>> \in Q
  <2> DEFINE keys == Starts(files)
  <2>1. \A i \in D : keys[i] = files[i].start
    BY DEF Starts
  <2>2. \A a, b \in D : <<a, b>> \in near => SizeAlike(files[a], files[b])
    BY DEF AllPairs
  <2> HIDE DEF near
  <2>3. \A a, b \in first : /\ a # b /\ keys[a] = keys[b] /\ keys[a] # None
                            /\ <<a, b>> \in near \/ <<b, a>> \in near
                            /\ files[a].score >= files[b].score
                            => <<a, b>> \in Q
    <3> HIDE DEF first, keys
    <3> QED
      BY <1>1, <2>1, <2>2 DEF KeptFor, StandsFor
  <2>4. LET kept == Deduplicated(files, first, keys, near)
        IN  /\ kept \subseteq first
            /\ \A b \in first \ kept : \E a \in kept : <<a, b>> \in Q
    <3> HIDE DEF keys, first
    <3>1. first \in SUBSET DOMAIN files /\ FALSE \in BOOLEAN
      BY <1>1
    <3>2. \A x, y, z \in first : <<x, y>> \in Q /\ <<y, z>> \in Q => <<x, z>> \in Q
      BY <1>1
    <3> QED
      BY <2>3, <3>1, <3>2, DeduplicatedKeepsBest
  <2>5. second = Deduplicated(files, first, keys, near)
    BY DEF DistinctPlaces, near
  <2> HIDE DEF first, second, keys
  <2> QED
    BY <2>4, <2>5
<1> HIDE DEF first, near
<1>3. last = second \ Confirming(files, second)
  BY DEF Survivors
<1>4. ASSUME NEW b \in second
      PROVE  b \in Confirming(files, second)
               <=> /\ files[b].journal
                   /\ \E a \in second : ~files[a].journal /\ SameName(files[a], files[b])
  <2> HIDE DEF second
  <2>1. \A x : {x} # {}
    OBVIOUS
  <2> QED
    BY <2>1 DEF Confirming, Confirmed
<1> HIDE DEF second, last
<1>5. \A b \in second \ last : \E a \in last : <<a, b>> \in Q
  <2> SUFFICES ASSUME NEW b \in second \ last PROVE \E a \in last : <<a, b>> \in Q
    OBVIOUS
  <2>1. PICK a \in second : files[b].journal /\ ~files[a].journal /\ SameName(files[a], files[b])
    BY <1>3, <1>4
  <2>2. a \in last
    BY <1>3, <1>4, <2>1
  <2>3. a \in D /\ b \in D
    BY <1>1, <1>2
  <2>4. KeptFor(files, a, b)
    BY <2>1, <2>3 DEF KeptFor, StandsFor
  <2> QED
    BY <2>2, <2>3, <2>4
<1>6. \A b \in D \ last : \E a \in last : <<a, b>> \in Q
  <2>1. \A b \in D \ second : \E a \in second : <<a, b>> \in Q
    <3> SUFFICES ASSUME NEW b \in D \ second PROVE \E a \in second : <<a, b>> \in Q
      OBVIOUS
    <3>1. CASE b \in first
      BY <1>2, <3>1
    <3>2. CASE b \notin first
      <4>1. PICK a \in first : <<a, b>> \in Q
        BY <1>1, <3>2
      <4> QED
        BY <1>1, <1>2, <4>1
    <3> QED
      BY <3>1, <3>2
  <2> SUFFICES ASSUME NEW b \in D \ last PROVE \E a \in last : <<a, b>> \in Q
    OBVIOUS
  <2>2. CASE b \in second
    BY <1>5, <2>2
  <2>3. CASE b \notin second
    <3>1. PICK a \in second : <<a, b>> \in Q
      BY <2>1, <2>3
    <3> QED
      BY <1>1, <1>2, <1>3, <1>5, <3>1, ZenonT(60)
  <2> QED
    BY <2>2, <2>3
<1>7. NoneTwice(files, last)
  <2>1. \A a, b \in last : ~(files[b].journal /\ ~files[a].journal /\ SameName(files[a], files[b]))
    BY <1>3, <1>4
  <2> QED
    BY <1>1, <1>2, <1>3, <2>1 DEF NoneTwice
<1> QED
  BY <1>6, <1>7 DEF last

(* The order in which the survivors are listed.                            *)
ListedFirst(files) ==
  LET keep == DistinctPlaces(files)
      Score(i) == PromotedScore(files, keep, i)
  IN {p \in AllPairs(files) :
        \/ Score(p[1]) > Score(p[2])
        \/ Score(p[1]) = Score(p[2]) /\ files[p[1]].name < files[p[2]].name
        \/ Score(p[1]) = Score(p[2]) /\ files[p[1]].name = files[p[2]].name /\ p[1] < p[2]}

(* Survivors are files; a promoted score is a number.                      *)
LEMMA SurvivorsAreFiles ==
    ASSUME NEW R, NEW files \in Seq(R), \A i \in DOMAIN files : files[i].score \in Int
    PROVE  Survivors(files) \subseteq DistinctPlaces(files) /\ DistinctPlaces(files) \subseteq DOMAIN files
<1> DEFINE near == {p \in AllPairs(files) : SizeAlike(files[p[1]], files[p[2]])}
           Q == (DOMAIN files) \X (DOMAIN files)
           first == DistinctHashes(files)
<1>1. first \subseteq DOMAIN files
  <2>1. first = Deduplicated(files, DOMAIN files, Hashes(files), AllPairs(files))
    BY DEF DistinctHashes
  <2>2. /\ DOMAIN files \in SUBSET DOMAIN files /\ TRUE \in BOOLEAN
        /\ \A x, y, z \in DOMAIN files : <<x, y>> \in Q /\ <<y, z>> \in Q => <<x, z>> \in Q
        /\ \A a, b \in DOMAIN files : <<a, b>> \in Q
    OBVIOUS
  <2> HIDE DEF Q, first
  <2>3. Deduplicated(files, DOMAIN files, Hashes(files), AllPairs(files)) \subseteq DOMAIN files
    <3> DEFINE keys == Hashes(files)
    <3> HIDE DEF keys
    <3>1. LET kept == Deduplicated(files, DOMAIN files, keys, AllPairs(files))
          IN  /\ kept \subseteq DOMAIN files
              /\ \A b \in DOMAIN files \ kept : \E a \in kept : <<a, b>> \in Q
              /\ TRUE => \A a, b \in kept : a # b => keys[a] = None \/ keys[a] # keys[b]
      BY <2>2, DeduplicatedKeepsBest
    <3> QED
      BY <3>1 DEF keys
  <2> QED
    BY <2>1, <2>3
<1>2. DistinctPlaces(files) \subseteq first
  <2> DEFINE keys == Starts(files)
  <2>1. DistinctPlaces(files) = Deduplicated(files, first, keys, near)
    BY DEF DistinctPlaces
  <2>2. /\ first \in SUBSET DOMAIN files /\ FALSE \in BOOLEAN
        /\ \A x, y, z \in first : <<x, y>> \in Q /\ <<y, z>> \in Q => <<x, z>> \in Q
        /\ \A a, b \in first : <<a, b>> \in Q
    BY <1>1
  <2> HIDE DEF Q, first, near, keys
  <2>3. LET kept == Deduplicated(files, first, keys, near)
        IN  /\ kept \subseteq first
            /\ \A b \in first \ kept : \E a \in kept : <<a, b>> \in Q
            /\ FALSE => \A a, b \in kept : a # b => keys[a] = None \/ keys[a] # keys[b]
    BY <2>2, DeduplicatedKeepsBest
  <2> QED
    BY <2>1, <2>3
<1> QED
  BY <1>1, <1>2 DEF Survivors

\* A score that is promoted stays a number.
LEMMA PromotedIs ==
    ASSUME NEW R, NEW files \in Seq(R), \A i \in DOMAIN files : files[i].score \in Int,
           NEW keep \in SUBSET DOMAIN files, NEW k \in DOMAIN files
    PROVE  PromotedScore(files, keep, k) \in Int
<1> DEFINE who == {i \in keep : k \in Confirmed(files, keep, i)}
           times == Cardinality(who)
<1>1. times \in Nat
  <2>1. IsFiniteSet(DOMAIN files)
    <3>1. Len(files) \in Nat /\ DOMAIN files = 1..Len(files)
      OBVIOUS
    <3> QED
      BY <3>1, FS_Interval
  <2>2. who \in SUBSET DOMAIN files
    OBVIOUS
  <2> HIDE DEF who
  <2> QED
    BY <2>1, <2>2, FS_Subset, FS_CardinalityType
<1>2. PromotedScore(files, keep, k)
        = IF times = 0 THEN files[k].score ELSE Min({files[k].score + 8 * times, 95})
  BY DEF PromotedScore
<1> HIDE DEF times
<1>3. files[k].score \in Int
  OBVIOUS
<1>4. \A a, b \in Int : Min({a, b}) \in Int
  BY MinOfTwo
<1> QED
  BY <1>1, <1>2, <1>3, <1>4

\* It is an order of any files.
LEMMA ListedOrders ==
    ASSUME NEW R, NEW files \in Seq(R),
           \A i \in DOMAIN files : files[i].score \in Int /\ files[i].name \in Int
    PROVE  Orders(ListedFirst(files), Survivors(files))
<1> DEFINE keep == DistinctPlaces(files)
           Score(i) == PromotedScore(files, keep, i)
<1>1. Survivors(files) \subseteq DOMAIN files /\ keep \in SUBSET DOMAIN files
  BY SurvivorsAreFiles
<1>2. \A i \in DOMAIN files : Score(i) \in Int /\ files[i].name \in Int /\ i \in Int
  BY <1>1, PromotedIs
<1>3. \A i, j \in DOMAIN files : <<i, j>> \in ListedFirst(files) <=>
        \/ Score(i) > Score(j)
        \/ Score(i) = Score(j) /\ files[i].name < files[j].name
        \/ Score(i) = Score(j) /\ files[i].name = files[j].name /\ i < j
  BY DEF ListedFirst, AllPairs
<1> DEFINE D == DOMAIN files
           P == ListedFirst(files)
           Name(i) == files[i].name
<1>4. \A i, j \in D : <<i, j>> \in P <=>
        \/ Score(i) > Score(j)
        \/ Score(i) = Score(j) /\ Name(i) < Name(j)
        \/ Score(i) = Score(j) /\ Name(i) = Name(j) /\ i < j
  BY <1>3
<1>5. \A i \in D : Score(i) \in Int /\ Name(i) \in Int /\ i \in Int
  BY <1>2
<1> HIDE DEF Score, Name, P, D
<1>6. Orders(P, D)
  <2>1. \A x \in D : <<x, x>> \notin P
    BY <1>4, <1>5
  <2>2. \A x, y \in D : x # y => <<x, y>> \in P \/ <<y, x>> \in P
    BY <1>4, <1>5
  <2>3. \A x, y, z \in D : <<x, y>> \in P /\ <<y, z>> \in P => <<x, z>> \in P
    BY <1>4, <1>5
  <2> QED
    BY <2>1, <2>2, <2>3 DEF Orders
<1> QED
  BY <1>1, <1>6 DEF Orders, P, D

\* What correlate_recovery_sources returns has the survivors, the best first.
LEMMA CorrelationIs ==
    ASSUME NEW R, NEW fileSystem, NEW journal, NEW carved, (fileSystem \o journal \o carved) \in Seq(R),
           \A i \in DOMAIN (fileSystem \o journal \o carved) :
             /\ (fileSystem \o journal \o carved)[i].score \in Int
             /\ (fileSystem \o journal \o carved)[i].name \in Int
    PROVE  LET result == CorrelateRecoverySources(fileSystem, journal, carved)
           IN  /\ {found.file : found \in Range(result)} = Survivors(fileSystem \o journal \o carved)
               /\ \A n \in 1..(Len(result) - 1) : result[n].score >= result[n + 1].score
<1> DEFINE files == fileSystem \o journal \o carved
           keep == DistinctPlaces(files)
           Score(i) == PromotedScore(files, keep, i)
           order == Ranked(Survivors(files), ListedFirst(files))
           result == CorrelateRecoverySources(fileSystem, journal, carved)
           m == Cardinality(Survivors(files))
<1>1. result = [n \in DOMAIN order |-> [file |-> order[n], score |-> Score(order[n])]]
  BY DEF CorrelateRecoverySources, ListedFirst
<1> HIDE DEF files
<1>2. files \in Seq(R) /\ \A i \in DOMAIN files : files[i].score \in Int /\ files[i].name \in Int
  BY DEF files
<1>3. Survivors(files) \subseteq DOMAIN files /\ keep \in SUBSET DOMAIN files
  BY <1>2, SurvivorsAreFiles
<1>4. IsFiniteSet(Survivors(files))
  <2>1. Len(files) \in Nat /\ DOMAIN files = 1..Len(files)
    BY <1>2
  <2>2. IsFiniteSet(DOMAIN files) /\ Survivors(files) \in SUBSET DOMAIN files
    BY <1>3, <2>1, FS_Interval
  <2> QED
    BY <2>2, FS_Subset
<1>5. Orders(ListedFirst(files), Survivors(files))
  BY <1>2, ListedOrders
<1>6. /\ m \in Nat /\ order \in [1..m -> Survivors(files)] /\ Range(order) = Survivors(files)
      /\ \A i, j \in 1..m : i < j => <<order[i], order[j]>> \in ListedFirst(files)
  BY <1>4, <1>5, RankedIs
<1>7. \A i \in DOMAIN files : Score(i) \in Int
  BY <1>2, <1>3, PromotedIs
<1>8. \A i, j \in DOMAIN files : <<i, j>> \in ListedFirst(files) => Score(i) >= Score(j)
  <2>1. \A i, j \in DOMAIN files : <<i, j>> \in ListedFirst(files) => Score(i) > Score(j) \/ Score(i) = Score(j)
    BY DEF ListedFirst
  <2> HIDE DEF Score
  <2> QED
    BY <1>7, <2>1
<1> HIDE DEF order, m, Score, keep, result
<1>9. DOMAIN order = 1..m /\ DOMAIN result = 1..m /\ Len(result) = m
  BY <1>1, <1>6
<1>10. \A n \in 1..m : result[n].file = order[n] /\ result[n].score = Score(order[n]) /\ order[n] \in DOMAIN files
  BY <1>1, <1>3, <1>6, <1>9
<1>11. {found.file : found \in Range(result)} = Survivors(files)
  <2>1. Range(order) = {order[n] : n \in 1..m} /\ Range(result) = {result[n] : n \in 1..m}
    BY <1>9 DEF Range
  <2>2. {found.file : found \in Range(result)} = {order[n] : n \in 1..m}
    BY <1>10, <2>1
  <2> QED
    BY <1>6, <2>1, <2>2
<1>12. \A n \in 1..(Len(result) - 1) : result[n].score >= result[n + 1].score
  <2> SUFFICES ASSUME NEW n \in 1..(Len(result) - 1) PROVE result[n].score >= result[n + 1].score
    OBVIOUS
  <2>1. n \in 1..m /\ n + 1 \in 1..m /\ n < n + 1
    BY <1>6, <1>9
  <2>2. <<order[n], order[n + 1]>> \in ListedFirst(files)
    BY <1>6, <2>1
  <2> QED
    BY <1>8, <1>10, <2>1, <2>2
<1> QED
  BY <1>11, <1>12 DEF result, files

(* What any files of any three sources are put together to keeps the best  *)
(* copies (correlate_recovery_sources).                                    *)
LEMMA BestCopiesAreKept ==
    ASSUME NEW fileSystem, NEW journal, NEW carved,
           IsFileList(fileSystem, FALSE), IsFileList(journal, TRUE), IsFileList(carved, FALSE)
    PROVE  KeepsBestCopies(fileSystem, journal, carved)
<1> DEFINE R == [name : Int, size : Nat, start : Nat, hash : Nat, journal : BOOLEAN, score : Int]
           files == fileSystem \o journal \o carved
           result == CorrelateRecoverySources(fileSystem, journal, carved)
           left == {found.file : found \in Range(result)}
           Closed(saved) == \A a \in saved, b \in DOMAIN files : KeptFor(files, a, b) => b \in saved
<1>1. files \in Seq(R)
  <2>1. ASSUME NEW list, NEW j \in BOOLEAN, IsFileList(list, j) PROVE list \in Seq(R)
    <3> DEFINE S == [name : Int, size : Nat, start : Nat, hash : Nat, journal : {j}, score : Int]
    <3>1. list \in Seq(S) /\ S \subseteq R
      BY <2>1 DEF IsFileList
    <3> HIDE DEF S, R
    <3> QED
      BY <3>1
  <2>2. fileSystem \in Seq(R) /\ journal \in Seq(R) /\ carved \in Seq(R)
    BY <2>1
  <2> HIDE DEF R
  <2> QED
    BY <2>2
<1>2. \A i \in DOMAIN files : files[i].score \in Int /\ files[i].name \in Int
  <2>1. \A i \in DOMAIN files : files[i] \in R
    <3> HIDE DEF R, files
    <3> QED
      BY <1>1
  <2> QED
    BY <2>1
<1>3. left = Survivors(files) /\ \A n \in 1..(Len(result) - 1) : result[n].score >= result[n + 1].score
  <2> HIDE DEF R
  <2> QED
    BY <1>1, <1>2, CorrelationIs
<1> HIDE DEF files, R, result, left
<1>4. NoneTwice(files, Survivors(files))
  <2> DEFINE Q == (DOMAIN files) \X (DOMAIN files)
  <2>1. /\ \A x, y, z \in DOMAIN files : <<x, y>> \in Q /\ <<y, z>> \in Q => <<x, z>> \in Q
        /\ \A a, b \in DOMAIN files : KeptFor(files, a, b) => <<a, b>> \in Q
    OBVIOUS
  <2> HIDE DEF Q
  <2> QED
    BY <1>1, <1>2, <2>1, SurvivorsAreKept
<1>5. ASSUME NEW saved \in SUBSET DOMAIN files, Survivors(files) \subseteq saved, Closed(saved)
      PROVE  saved = DOMAIN files
  <2> DEFINE Q == {p \in AllPairs(files) : p[1] \in saved => p[2] \in saved}
  <2>1. \A x, y \in DOMAIN files : <<x, y>> \in Q <=> (x \in saved => y \in saved)
    BY DEF AllPairs
  <2> HIDE DEF Q
  <2>2. \A x, y, z \in DOMAIN files : <<x, y>> \in Q /\ <<y, z>> \in Q => <<x, z>> \in Q
    BY <2>1
  <2>3. \A a, b \in DOMAIN files : KeptFor(files, a, b) => <<a, b>> \in Q
    BY <1>5, <2>1
  <2>4. \A b \in DOMAIN files \ Survivors(files) : \E a \in Survivors(files) : <<a, b>> \in Q
    BY <1>1, <1>2, <2>2, <2>3, SurvivorsAreKept
  <2> QED
    BY <1>5, <2>1, <2>4
<1> QED
  BY <1>3, <1>4, <1>5 DEF KeepsBestCopies, files, result, left

(* What is chosen to be put together is one of the results.                *)
MergeInv == reader = "merge" /\ input # NoInput => input \in ScanResults

(* Whatever the sources of a deleted-file scan found, the best copies      *)
(* survive putting it together (correlate_recovery_sources).               *)
THEOREM BestCopiesAlwaysSurvive == ReaderSpec => []BestCopiesSurvive
<1>1. ReaderInit => MergeInv
  BY DEF ReaderInit, MergeInv
<1>2. MergeInv /\ [ReaderNext]_readerVars => MergeInv'
  BY DEF MergeInv, ReaderNext, Chooses, readerVars
<1>3. MergeInv => BestCopiesSurvive
  BY ScanResultAssumption, BestCopiesAreKept DEF MergeInv, BestCopiesSurvive, Chosen
<1> QED
  BY <1>1, <1>2, <1>3, PTL DEF ReaderSpec

-------------------------------------------------------------------------------
(* A virtual disk.                                                         *)

(* What is opened and has the cells of the disk reads back.                *)
LEMMA ReadsBackIs ==
    ASSUME NEW C, EndOfFile \notin C, NEW cells \in Seq(C), NEW file,
           RecoverySource(file).ok = TRUE, RecoverySource(file).cells = cells
    PROVE  ReadsBack(file, cells)
<1> DEFINE disk == RecoverySource(file)
<1> HIDE DEF disk
<1>1. \A position, length \in 0..Len(cells) :
        ReadSource(disk, position, length) = SubSeq(cells, position + 1, Min({position + length, Len(cells)}))
  <2> SUFFICES ASSUME NEW position \in 0..Len(cells), NEW length \in 0..Len(cells)
               PROVE  ReadSource(disk, position, length)
                        = SubSeq(cells, position + 1, Min({position + length, Len(cells)}))
    OBVIOUS
  <2> DEFINE end == Min({position + length, Len(cells)})
             asked == SubSeq(cells, position + 1, end)
             short == {i \in DOMAIN asked : asked[i] = EndOfFile}
  <2>1. Len(cells) \in Nat /\ position \in Nat /\ position + length \in Nat
    OBVIOUS
  <2>2. Min({position, Len(cells)}) = position
    BY <2>1, MinOfTwo
  <2>3. end \in position..Len(cells)
    BY <2>1, MinOfTwo
  <2>4. ReadSource(disk, position, length)
          = SubSeq(asked, 1, Min({i - 1 : i \in short} \cup {Len(asked)}))
    BY <2>2 DEF ReadSource, disk
  <2> HIDE DEF end
  <2>5. asked \in Seq(C)
    BY <2>1, <2>3
  <2> HIDE DEF asked
  <2>6. short = {}
    BY <2>5
  <2>7. Min({i - 1 : i \in short} \cup {Len(asked)}) = Len(asked)
    <3>1. {i - 1 : i \in short} \cup {Len(asked)} = {Len(asked), Len(asked)}
      <4> HIDE DEF short
      <4> QED
        BY <2>6
    <3>2. Len(asked) \in Nat
      BY <2>5
    <3> QED
      BY <3>1, <3>2, MinOfTwo
  <2>8. SubSeq(asked, 1, Len(asked)) = asked
    BY <2>5
  <2> QED
    BY <2>4, <2>7, <2>8 DEF asked, end
<1> QED
  BY <1>1 DEF ReadsBack, disk


(* A fixed VHD is opened with the cells of its disk.                       *)
LEMMA FixedVhdIs ==
    ASSUME NEW C, NEW cells \in Seq(C)
    PROVE  /\ RecoverySource(FixedVhd(cells)).ok = TRUE
           /\ RecoverySource(FixedVhd(cells)).cells = cells
<1> DEFINE file == FixedVhd(cells)
           stored == cells \o <<ZeroCell>>
<1>1. /\ file.ext = "vhd" /\ file.signature = "data" /\ file.footer.cookie = TRUE
      /\ file.footer.type = "fixed" /\ file.footer.size = Len(cells) /\ file.cells = stored
  BY DEF FixedVhd, NoFooter
<1>2. Len(stored) = Len(cells) + 1 /\ \A i \in 1..Len(cells) : stored[i] = cells[i]
  <2> DEFINE S == C \cup {ZeroCell}
             last == <<ZeroCell>>
  <2>1. cells \in Seq(S) /\ last \in Seq(S) /\ Len(last) = 1
    OBVIOUS
  <2> HIDE DEF S, last
  <2>2. /\ Len(cells \o last) = Len(cells) + Len(last)
        /\ \A i \in 1..Len(cells) : (cells \o last)[i] = cells[i]
    BY <2>1, FrontIs, Zenon
  <2> QED
    BY <2>1, <2>2 DEF last
<1> HIDE DEF file, stored
<1>3. FooterOf(file) = file.footer
  BY <1>1 DEF FooterOf
<1>4. VhdOpens(file)
  BY <1>1, <1>3 DEF VhdOpens
<1>5. \A i \in 1..Len(cells) : VhdCell(file, i - 1) = cells[i]
  <2> SUFFICES ASSUME NEW i \in 1..Len(cells) PROVE VhdCell(file, i - 1) = cells[i]
    OBVIOUS
  <2>1. VhdCell(file, i - 1) = Cells(file, i - 1)
    BY <1>1, <1>3 DEF VhdCell
  <2>2. i - 1 < Len(stored) /\ (i - 1) + 1 = i /\ stored[i] = cells[i]
    BY <1>2
  <2> QED
    BY <1>1, <2>1, <2>2 DEF Cells
<1>6. RecoverySource(file) = VhdDisk(file)
  BY <1>1 DEF RecoverySource
<1>7. VhdDisk(file) = Disk("vhd", [i \in 1..Len(cells) |-> VhdCell(file, i - 1)])
  BY <1>1, <1>3, <1>4 DEF VhdDisk
<1>8. [i \in 1..Len(cells) |-> VhdCell(file, i - 1)] = cells
  BY <1>5
<1> QED
  BY <1>6, <1>7, <1>8 DEF Disk, file


(* The block of a cell.                                                    *)
LEMMA BlockOf ==
    ASSUME NEW s \in Nat \ {0}, NEW n \in Nat, NEW at \in 0..(n - 1)
    PROVE  LET q == at \div s
               x == at % s
           IN  /\ q \in Nat /\ x \in 0..(s - 1) /\ at = s * q + x
               /\ DivCeil(n, s) \in Nat /\ q < DivCeil(n, s)
<1> DEFINE q == at \div s
           x == at % s
           Q == (n + s - 1) \div s
           R == (n + s - 1) % s
<1>1. q \in Nat /\ x \in 0..(s - 1) /\ at = s * q + x
  <2>1. at \in Nat
    OBVIOUS
  <2> QED
    BY <2>1, DivMod
<1>2. Q \in Nat /\ R \in 0..(s - 1) /\ n + s - 1 = s * Q + R
  <2> DEFINE m == n + s - 1
  <2>1. m \in Nat
    OBVIOUS
  <2> HIDE DEF m
  <2>2. m \div s \in Nat /\ m % s \in 0..(s - 1) /\ m = s * (m \div s) + (m % s)
    BY <2>1, DivMod
  <2> QED
    BY <2>2 DEF m
<1> HIDE DEF q, x, Q, R
<1>3. q < Q
  <2> SUFFICES ASSUME q >= Q PROVE FALSE
    BY <1>1, <1>2
  <2>1. s * q >= s * Q
    BY <1>1, <1>2, ProductGrows
  <2> DEFINE y == s * q
             z == s * Q
  <2>2. y \in Nat /\ z \in Nat /\ y >= z /\ at = y + x /\ n + s - 1 = z + R
    BY <1>1, <1>2, <2>1
  <2> HIDE DEF y, z
  <2> QED
    BY <1>1, <1>2, <2>2
<1> QED
  BY <1>1, <1>2, <1>3 DEF DivCeil, q, x, Q

(* Where the code looks for a block, as the container has it.              *)
PlaceIn(stored, block) == CHOOSE i \in DOMAIN stored : stored[i] = block

(* A stored block is found.                                                *)
LEMMA PlaceIs ==
    ASSUME NEW stored \in Seq(Nat), NEW block \in Range(stored)
    PROVE  PlaceIn(stored, block) \in 1..Len(stored) /\ stored[PlaceIn(stored, block)] = block
<1>1. \E i \in DOMAIN stored : stored[i] = block
  BY DEF Range
<1>2. DOMAIN stored = 1..Len(stored)
  OBVIOUS
<1> QED
  BY <1>1, <1>2 DEF PlaceIn

(* So is a dynamic one with blocks of at most 15 sectors.                  *)
LEMMA DynamicVhdIs ==
    ASSUME NEW C, NEW cells \in Seq(C), cells # <<>>, NEW size \in 1..15, NEW stored,
           Allocated(cells, size, stored), NEW damaged \in BOOLEAN
    PROVE  /\ RecoverySource(DynamicVhd(cells, size, stored, damaged)).ok = TRUE
           /\ RecoverySource(DynamicVhd(cells, size, stored, damaged)).cells = cells
<1> DEFINE file == DynamicVhd(cells, size, stored, damaged)
           blocks == [i \in 1..(Len(stored) * (size + 1)) |->
                        IF (i - 1) % (size + 1) = 0 THEN 8
                        ELSE BlockCell(cells, size, stored[((i - 1) \div (size + 1)) + 1], (i - 1) % (size + 1))]
           head == <<7, 7, 7, 7>>
           tail == <<7>>
           count == DivCeil(Len(cells), size)
           Place(b) == IF b \in Range(stored) THEN 4 + (size + 1) * (PlaceIn(stored, b) - 1) ELSE SparseBlock
           bat == [b \in 1..count |-> Place(b - 1)]
<1>1. /\ file.ext = "vhd" /\ file.signature = "conectix"
      /\ FooterOf(file) = [cookie |-> TRUE, type |-> "dynamic", size |-> Len(cells), dataOffset |-> 1]
      /\ file.sparseHeader = [cookie |-> TRUE, blockSize |-> size, bat |-> bat]
      /\ file.cells = head \o blocks \o tail
  BY DEF DynamicVhd, FooterOf, PlaceIn
<1> HIDE DEF file
<1>2. Len(cells) \in Nat \ {0} /\ size \in Nat \ {0} /\ stored \in Seq(Nat) /\ Len(stored) \in Nat
  BY DEF Allocated
<1> DEFINE full == Len(stored) * (size + 1)
<1>3. full \in Nat
  BY <1>2
<1>4. /\ Len(file.cells) = 4 + full + 1
      /\ \A i \in 1..full : file.cells[4 + i] = blocks[i]
  <2> DEFINE S == {7} \cup {blocks[i] : i \in 1..full}
  <2>1. head \in Seq(S) /\ tail \in Seq(S) /\ Len(head) = 4 /\ Len(tail) = 1
    OBVIOUS
  <2>2. blocks \in Seq(S) /\ Len(blocks) = full
    <3>1. DOMAIN blocks = 1..full /\ blocks = [i \in 1..full |-> blocks[i]]
      OBVIOUS
    <3>2. \A i \in 1..full : blocks[i] \in S
      OBVIOUS
    <3> HIDE DEF blocks, S, full
    <3> QED
      BY <1>3, <3>1, <3>2
  <2> HIDE DEF blocks, S, full, head, tail
  <2>3. /\ Len(head \o blocks \o tail) = Len(head) + Len(blocks) + Len(tail)
        /\ \A i \in 1..Len(blocks) : (head \o blocks \o tail)[Len(head) + i] = blocks[i]
    <3>1. head \in Seq(S) /\ blocks \in Seq(S) /\ tail \in Seq(S)
      BY <2>1, <2>2
    <3> QED
      BY ONLY <3>1
  <2> QED
    BY <1>1, <2>1, <2>2, <2>3
<1>5. BitmapSectors(size) = 1
  <2>1. size \div 8 \in {0, 1}
    BY <1>2
  <2>2. Max({1, 0}) = 1 /\ Max({1, 1}) = 1
    BY DEF Max
  <2> QED
    BY <2>1, <2>2 DEF BitmapSectors
<1> HIDE DEF blocks, head, tail, full
<1>6. \A at \in 0..(Len(cells) - 1) : VhdCell(file, at) = cells[at + 1]
  <2> SUFFICES ASSUME NEW at \in 0..(Len(cells) - 1) PROVE VhdCell(file, at) = cells[at + 1]
    OBVIOUS
  <2> DEFINE block == at \div size
             x == at % size
  <2>1. /\ block \in Nat /\ x \in 0..(size - 1) /\ at = size * block + x
        /\ count \in Nat /\ block < count
    BY <1>2, BlockOf
  <2>2. Len(bat) = count /\ bat[block + 1] = Place(block)
    <3>1. block + 1 \in 1..count /\ (block + 1) - 1 = block
      BY <2>1
    <3> HIDE DEF block, count
    <3> QED
      BY <2>1, <3>1
  <2>3. VhdCell(file, at) = IF Place(block) = SparseBlock THEN ZeroCell
                            ELSE Cells(file, Place(block) + 1 + x)
    <3> HIDE DEF bat, Place
    <3>1. ~(block >= count)
      BY <2>1
    <3> QED
      BY <1>1, <1>5, <2>2, <3>1 DEF VhdCell
  <2>4. CASE block \notin Range(stored)
    <3>1. cells[at + 1] = ZeroCell
      BY <2>4 DEF Allocated
    <3> QED
      BY <2>3, <2>4, <3>1
  <2>5. CASE block \in Range(stored)
    <3> DEFINE k == PlaceIn(stored, block)
    <3>1. k \in 1..Len(stored) /\ stored[k] = block
      BY <1>2, <2>5, PlaceIs
    <3>2. Place(block) = 4 + (size + 1) * (k - 1)
      BY <2>5
    <3> HIDE DEF block, x, k, Place
    <3> DEFINE w == size + 1
               row == k - 1
               j == row * w + (x + 1)
    <3>3. w \in Nat \ {0} /\ row \in 0..(Len(stored) - 1) /\ x + 1 \in 0..(w - 1) /\ row \in Nat
      BY <1>2, <2>1, <3>1
    <3>4. j \in 0..(full - 1) /\ j \div w = row /\ j % w = x + 1
      <4> HIDE DEF w, row
      <4>1. row * w + (x + 1) \in 0..(Len(stored) * w - 1)
            /\ (row * w + (x + 1)) \div w = row /\ (row * w + (x + 1)) % w = x + 1
        BY <1>2, <3>3, RowOf, ZenonT(60)
      <4> QED
        BY <4>1 DEF w, full
    <3>5. blocks[j + 1] = BlockCell(cells, size, stored[k], x + 1)
      <4>1. j + 1 \in 1..full /\ (j + 1) - 1 = j /\ row + 1 = k /\ x + 1 # 0
        <5> HIDE DEF j
        <5> QED
          BY <1>3, <2>1, <3>1, <3>4
      <4> HIDE DEF j, row
      <4>2. blocks[j + 1] = IF j % w = 0 THEN 8 ELSE BlockCell(cells, size, stored[(j \div w) + 1], j % w)
        BY <4>1 DEF blocks, full
      <4> QED
        BY <3>4, <4>1, <4>2
    <3>6. BlockCell(cells, size, block, x + 1) = cells[at + 1]
      <4>1. block * size + (x + 1) = at + 1
        BY <1>2, <2>1
      <4>2. at + 1 <= Len(cells)
        BY <1>2
      <4> QED
        BY <4>1, <4>2 DEF BlockCell
    <3>7. Place(block) + 1 + x = 4 + j
      <4>1. (size + 1) * (k - 1) = row * w /\ row * w \in Nat
        BY <1>2, <3>1, <3>3
      <4> DEFINE y == row * w
      <4>2. y \in Nat /\ Place(block) = 4 + y /\ j = y + (x + 1)
        BY <3>2, <4>1
      <4> HIDE DEF y, j
      <4> QED
        BY <2>1, <4>2
    <3>8. j \in Nat /\ Place(block) # SparseBlock /\ Cells(file, 4 + j) = blocks[j + 1]
      <4>1. j \in Nat /\ 4 + j < Len(file.cells) /\ (4 + j) + 1 = 4 + (j + 1) /\ j + 1 \in 1..full
        <5> HIDE DEF j
        <5> QED
          BY <1>3, <1>4, <3>4
      <4>2. Place(block) # SparseBlock
        <5> HIDE DEF j
        <5>1. Place(block) >= 3
          <6>1. (size + 1) * (k - 1) \in Nat
            BY <1>2, <3>1
          <6> QED
            BY <3>2, <6>1
        <5> QED
          BY <5>1 DEF SparseBlock
      <4> HIDE DEF j
      <4> QED
        BY <1>4, <4>1, <4>2 DEF Cells
    <3> HIDE DEF j
    <3> QED
      BY <2>3, <3>1, <3>5, <3>6, <3>7, <3>8
  <2> QED
    BY <2>4, <2>5
<1>7. bat # <<>> /\ Len(bat) = count
  <2>1. count \in Nat /\ 0 < count
    <3>1. 0 \in 0..(Len(cells) - 1)
      BY <1>2
    <3>2. 0 \div size \in Nat /\ DivCeil(Len(cells), size) \in Nat /\ 0 \div size < DivCeil(Len(cells), size)
      BY <1>2, <3>1, BlockOf
    <3> DEFINE z == 0 \div size
    <3> HIDE DEF z
    <3>3. z \in Nat /\ z < count /\ count \in Nat
      BY <3>2 DEF z
    <3> QED
      BY <3>3
  <2> HIDE DEF count
  <2>2. Len(bat) = count
    BY <2>1
  <2> HIDE DEF bat
  <2>3. Len(<<>>) = 0
    OBVIOUS
  <2> QED
    BY <2>1, <2>2, <2>3
<1> HIDE DEF bat, count
<1>8. VhdOpens(file)
  <2>1. 1 + 2 <= Len(file.cells) /\ size > 0
    BY <1>2, <1>3, <1>4
  <2> QED
    BY <1>1, <1>7, <2>1 DEF VhdOpens
<1>9. RecoverySource(file) = Disk("vhd", [i \in 1..Len(cells) |-> VhdCell(file, i - 1)])
  BY <1>1, <1>8 DEF RecoverySource, VhdDisk
<1>10. [i \in 1..Len(cells) |-> VhdCell(file, i - 1)] = cells
  <2>1. \A i \in 1..Len(cells) : VhdCell(file, i - 1) = cells[i]
    <3> SUFFICES ASSUME NEW i \in 1..Len(cells) PROVE VhdCell(file, i - 1) = cells[i]
      OBVIOUS
    <3>1. i - 1 \in 0..(Len(cells) - 1) /\ (i - 1) + 1 = i
      BY <1>2
    <3> QED
      BY <1>6, <3>1
  <2> QED
    BY <2>1
<1> QED
  BY <1>9, <1>10 DEF Disk, file

(* A grain table at a time, the code finds the sector of every grain.      *)
GrainAt(cells, size, stored, g) ==
  IF g \in Range(stored)
  THEN 2 + DivCeil(DivCeil(Len(cells), size), MinGrainEntries) + size * (PlaceIn(stored, g) - 1) ELSE 0

\* The table of a sparse disk says of each grain where it was stored.
LEMMA GrainTableIs ==
    ASSUME NEW C, NEW cells \in Seq(C), NEW size \in Nat \ {0}, NEW stored,
           MinGrainEntries \in Nat \ {0}, NEW g \in 0..(DivCeil(Len(cells), size) - 1),
           DivCeil(Len(cells), size) \in Nat
    PROVE  GrainTable(SparseVmdk(cells, size, stored))[g] = GrainAt(cells, size, stored, g)
<1> DEFINE file == SparseVmdk(cells, size, stored)
           M == MinGrainEntries
           grains == DivCeil(Len(cells), size)
           tables == DivCeil(grains, M)
           Used(t) == \E e \in 0..(M - 1) : t * M + e \in Range(stored)
           Grain(n) == GrainAt(cells, size, stored, n)
           directory == [t \in 1..tables |-> IF Used(t - 1) THEN 1 + t ELSE 0]
           filed == [sector \in 2..(1 + tables) |->
                       [e \in 1..M |-> Grain((sector - 2) * M + e - 1)]]
           t == g \div M
           e == g % M
<1>1. /\ file.capacity = Len(cells) /\ file.grain = size /\ file.entries = M
      /\ file.directory = directory /\ file.tables = filed
  BY DEF SparseVmdk, GrainAt, PlaceIn
<1> HIDE DEF file
<1>2. Max({M, M}) = M
  BY DEF Max
<1>3. /\ t \in Nat /\ e \in 0..(M - 1) /\ g = M * t + e
      /\ tables \in Nat /\ t < tables /\ grains \in Nat
  <2> HIDE DEF grains
  <2>1. g \in 0..(grains - 1) /\ grains \in Nat
    BY DEF grains
  <2> QED
    BY <2>1, BlockOf
<1> DEFINE Table(u) == file.tables[file.directory[u + 1]]
           Listed(u) == /\ Len(file.directory) >= tables
                        /\ file.directory[u + 1] \in DOMAIN file.tables
                        /\ Len(Table(u)) >= Min({M, grains - u * M})
<1>4. GrainTable(file)[g] = IF Listed(t) THEN Table(t)[e + 1] ELSE 0
  <2> DEFINE table == [n \in 0..(grains - 1) |-> IF Listed(n \div M) THEN Table(n \div M)[(n % M) + 1] ELSE 0]
  <2>1. GrainTable(file) = table
    <3>1. Max({file.entries, MinGrainEntries}) = M
      BY <1>1, <1>2
    <3>2. DivCeil(file.capacity, file.grain) = grains
      BY <1>1
    <3> HIDE DEF grains, M, directory, filed
    <3> QED
      BY <3>1, <3>2 DEF GrainTable, M
  <2> HIDE DEF Listed, Table
  <2> QED
    BY <2>1
<1> HIDE DEF grains, tables, t, e, M
<1>5. /\ Len(directory) = tables /\ directory[t + 1] = IF Used(t) THEN 2 + t ELSE 0
  <2>1. t + 1 \in 1..tables /\ (t + 1) - 1 = t /\ 1 + (t + 1) = 2 + t
    BY <1>3
  <2> HIDE DEF Used
  <2> QED
    BY <1>3, <2>1
<1> HIDE DEF directory
<1>6. g = t * M + e
  BY <1>3 DEF M
<1>7. CASE Used(t)
  <2>1. directory[t + 1] = 2 + t /\ 2 + t \in 2..(1 + tables)
    BY <1>3, <1>5, <1>7
  <2>2. Table(t) = [k \in 1..M |-> Grain(((2 + t) - 2) * M + k - 1)]
    <3> HIDE DEF Grain
    <3> QED
      BY <1>1, <2>1
  <2>3. Len(Table(t)) = M
    <3>1. M \in Nat
      BY DEF M
    <3> HIDE DEF Grain, Table
    <3> QED
      BY <2>2, <3>1
  <2>4. Table(t)[e + 1] = Grain(g)
    <3>1. e + 1 \in 1..M /\ ((2 + t) - 2) * M + (e + 1) - 1 = t * M + e
      <4>1. M \in Nat /\ (2 + t) - 2 = t
        BY <1>3 DEF M
      <4> DEFINE y == t * M
      <4>2. y \in Nat /\ ((2 + t) - 2) * M = y
        BY <1>3, <4>1
      <4> HIDE DEF y
      <4>3. e + 1 \in 1..M /\ ((2 + t) - 2) * M + (e + 1) - 1 = y + e
        BY <1>3, <4>1, <4>2
      <4> QED
        BY <4>3 DEF y
    <3> HIDE DEF Grain, Table
    <3> QED
      BY <1>6, <2>2, <3>1
  <2>5. Min({M, grains - t * M}) <= M
    <3> DEFINE r == grains - t * M
    <3>1. M \in Nat /\ r \in Nat
      <4>1. M \in Nat
        BY DEF M
      <4> DEFINE y == t * M
      <4>2. y \in Nat /\ g = y + e /\ g \in 0..(grains - 1)
        BY <1>3, <1>6, <4>1 DEF grains
      <4> HIDE DEF y
      <4>3. grains - y \in Nat
        BY <1>3, <4>1, <4>2
      <4> QED
        BY <4>1, <4>3 DEF y
    <3> HIDE DEF r
    <3>2. Min({M, r}) <= M
      BY <3>1, MinOfTwo
    <3> QED
      BY <3>2 DEF r
  <2>6. Listed(t)
    <3>1. Len(file.directory) >= tables
      BY <1>1, <1>3, <1>5
    <3>2. file.directory[t + 1] \in DOMAIN file.tables
      BY <1>1, <2>1
    <3>3. Len(Table(t)) >= Min({M, grains - t * M})
      <4> HIDE DEF Table
      <4> QED
        BY <2>3, <2>5
    <3> QED
      BY <3>1, <3>2, <3>3
  <2> HIDE DEF Listed, Table, Grain
  <2> QED
    BY <1>4, <2>4, <2>6 DEF Grain, file
<1>8. CASE ~Used(t)
  <2>1. ~Listed(t)
    <3>1. directory[t + 1] = 0 /\ 0 \notin 2..(1 + tables)
      BY <1>3, <1>5, <1>8
    <3>2. DOMAIN filed = 2..(1 + tables)
      OBVIOUS
    <3> HIDE DEF filed
    <3> QED
      BY <1>1, <3>1, <3>2
  <2>2. g \notin Range(stored)
    <3>1. t * M + e \notin Range(stored)
      BY <1>3, <1>8
    <3> QED
      BY <1>6, <3>1
  <2> HIDE DEF Listed, Table
  <2> QED
    BY <1>4, <2>1, <2>2 DEF GrainAt, file
<1> QED
  BY <1>7, <1>8

(* A sparse VMDK too.                                                      *)
LEMMA SparseVmdkIs ==
    ASSUME NEW C, NEW cells \in Seq(C), NEW size \in Nat \ {0}, NEW stored,
           MinGrainEntries \in Nat \ {0}, Allocated(cells, size, stored)
    PROVE  /\ RecoverySource(SparseVmdk(cells, size, stored)).ok = TRUE
           /\ RecoverySource(SparseVmdk(cells, size, stored)).cells = cells
<1> DEFINE file == SparseVmdk(cells, size, stored)
           grains == DivCeil(Len(cells), size)
           tables == DivCeil(grains, MinGrainEntries)
           full == Len(stored) * size
           head == [t \in 1..(2 + tables) |-> 7]
           blocks == [i \in 1..full |->
                        BlockCell(cells, size, stored[((i - 1) \div size) + 1], ((i - 1) % size) + 1)]
           table == GrainTable(file)
           Cell(at) == LET sector == table[at \div size]
                       IN IF sector = 0 THEN ZeroCell ELSE Cells(file, sector + (at % size))
<1>1. /\ file.ext = "vmdk" /\ file.magic = TRUE /\ file.capacity = Len(cells)
      /\ file.grain = size /\ file.cells = head \o blocks
  BY DEF SparseVmdk
<1>2. /\ Len(cells) \in Nat /\ stored \in Seq(Nat) /\ Len(stored) \in Nat /\ full \in Nat
  BY DEF Allocated
<1>3. RecoverySource(file) = Disk("vmdk", [i \in 1..Len(cells) |-> Cell(i - 1)])
  <2> HIDE DEF file
  <2> QED
    BY <1>1 DEF RecoverySource, VmdkDisk
<1>4. \A at \in 0..(Len(cells) - 1) : Cell(at) = cells[at + 1]
  <2> SUFFICES ASSUME NEW at \in 0..(Len(cells) - 1) PROVE Cell(at) = cells[at + 1]
    OBVIOUS
  <2> DEFINE g == at \div size
             x == at % size
  <2>1. /\ g \in Nat /\ x \in 0..(size - 1) /\ at = size * g + x
        /\ grains \in Nat /\ g < grains
    BY <1>2, BlockOf
  <2>2. tables \in Nat
    <3>1. 0 \in 0..(grains - 1)
      BY <2>1
    <3> HIDE DEF grains
    <3> QED
      BY <2>1, <3>1, BlockOf
  <2>3. table[g] = GrainAt(cells, size, stored, g)
    <3>1. g \in 0..(grains - 1)
      BY <2>1
    <3> HIDE DEF g
    <3> QED
      BY <2>1, <3>1, GrainTableIs
  <2>4. CASE g \notin Range(stored)
    <3>1. table[g] = 0
      BY <2>3, <2>4 DEF GrainAt
    <3>2. cells[at + 1] = ZeroCell
      BY <2>4 DEF Allocated
    <3> HIDE DEF table
    <3> QED
      BY <3>1, <3>2
  <2>5. CASE g \in Range(stored)
    <3> DEFINE k == PlaceIn(stored, g)
               row == k - 1
               j == row * size + x
    <3>1. k \in 1..Len(stored) /\ stored[k] = g
      BY <1>2, <2>5, PlaceIs
    <3>2. table[g] = 2 + tables + size * (k - 1)
      BY <2>3, <2>5 DEF GrainAt
    <3> HIDE DEF table, k, file
    <3>3. row \in 0..(Len(stored) - 1) /\ row \in Nat /\ row + 1 = k
      BY <1>2, <3>1
    <3>4. j \in 0..(full - 1) /\ j \div size = row /\ j % size = x
      <4>1. x \in 0..(size - 1)
        BY <2>1
      <4> HIDE DEF row, x
      <4>2. /\ row * size + x \in 0..(Len(stored) * size - 1)
            /\ (row * size + x) \div size = row /\ (row * size + x) % size = x
        BY <1>2, <3>3, <4>1, RowOf, ZenonT(60)
      <4> QED
        BY <4>2
    <3>5. j \in Nat /\ j + 1 \in 1..full /\ (j + 1) - 1 = j
      <4> HIDE DEF j, full
      <4> QED
        BY <1>2, <3>4
    <3>6. blocks[j + 1] = BlockCell(cells, size, g, x + 1)
      <4> HIDE DEF j, row, full, x
      <4>1. blocks[j + 1] = BlockCell(cells, size, stored[(j \div size) + 1], (j % size) + 1)
        BY <3>5
      <4> QED
        BY <3>1, <3>3, <3>4, <4>1
    <3>7. BlockCell(cells, size, g, x + 1) = cells[at + 1]
      <4> HIDE DEF g, x
      <4>1. g * size + (x + 1) = at + 1 /\ at + 1 <= Len(cells)
        BY <1>2, <2>1
      <4> QED
        BY <4>1 DEF BlockCell
    <3>8. table[g] + x = (2 + tables) + j /\ table[g] # 0
      <4>1. size * (k - 1) = row * size /\ row * size \in Nat
        BY <3>3
      <4> DEFINE y == row * size
      <4>2. y \in Nat /\ table[g] = 2 + tables + y /\ j = y + x
        BY <3>2, <4>1
      <4> HIDE DEF y, j, x, g, tables
      <4> QED
        BY <2>1, <2>2, <4>2
    <3>9. Len(file.cells) = (2 + tables) + full /\ file.cells[(2 + tables) + (j + 1)] = blocks[j + 1]
      <4> DEFINE S == {7} \cup {blocks[i] : i \in 1..full}
      <4>1. head \in Seq(S) /\ Len(head) = 2 + tables
        <5> HIDE DEF tables
        <5> QED
          BY <2>2
      <4>2. blocks \in Seq(S) /\ Len(blocks) = full
        <5>1. DOMAIN blocks = 1..full /\ blocks = [i \in 1..full |-> blocks[i]]
          OBVIOUS
        <5>2. \A i \in 1..full : blocks[i] \in S
          OBVIOUS
        <5> HIDE DEF blocks, S, full
        <5> QED
          BY <1>2, <5>1, <5>2, SMTT(20)
      <4> HIDE DEF S, head, blocks, full
      <4>3. /\ Len(head \o blocks) = Len(head) + Len(blocks)
            /\ \A i \in 1..Len(blocks) : (head \o blocks)[Len(head) + i] = blocks[i]
        <5>1. head \in Seq(S) /\ blocks \in Seq(S)
          BY <4>1, <4>2
        <5> QED
          BY ONLY <5>1
      <4> HIDE DEF j
      <4> QED
        BY <1>1, <3>5, <4>1, <4>2, <4>3
    <3>10. Cells(file, (2 + tables) + j) = blocks[j + 1]
      <4> HIDE DEF j, blocks, full, tables
      <4>1. (2 + tables) + j < Len(file.cells) /\ ((2 + tables) + j) + 1 = (2 + tables) + (j + 1)
        BY <1>2, <2>2, <3>5, <3>9
      <4> QED
        BY <3>9, <4>1 DEF Cells
    <3> HIDE DEF j, blocks, tables
    <3> QED
      BY <3>6, <3>7, <3>8, <3>10
  <2> QED
    BY <2>4, <2>5
<1>5. [i \in 1..Len(cells) |-> Cell(i - 1)] = cells
  <2> HIDE DEF Cell
  <2>1. \A i \in 1..Len(cells) : Cell(i - 1) = cells[i]
    <3> SUFFICES ASSUME NEW i \in 1..Len(cells) PROVE Cell(i - 1) = cells[i]
      OBVIOUS
    <3>1. i - 1 \in 0..(Len(cells) - 1) /\ (i - 1) + 1 = i
      BY <1>2
    <3> QED
      BY <1>4, <3>1
  <2> QED
    BY <2>1
<1> QED
  BY <1>3, <1>5 DEF Disk

(* A disk written into a fixed VHD or a sparse VMDK is read back from any   *)
(* position at any length, and so is one in a dynamic VHD with its footer  *)
(* damaged or not, as long as its blocks have fewer than 16 sectors: only  *)
(* then the code passes over one sector of bitmap (VhdSource, VmdkSource). *)
THEOREM DisksAreReadBack ==
    ASSUME NEW C, EndOfFile \notin C, NEW cells \in Seq(C), NEW size \in Nat \ {0}, NEW stored,
           Allocated(cells, size, stored), MinGrainEntries \in Nat \ {0}
    PROVE  /\ ReadsBack(FixedVhd(cells), cells)
           /\ ReadsBack(SparseVmdk(cells, size, stored), cells)
           /\ cells # <<>> /\ size < 16 =>
                \A damaged \in BOOLEAN : ReadsBack(DynamicVhd(cells, size, stored, damaged), cells)
<1>1. ReadsBack(FixedVhd(cells), cells)
  <2> DEFINE file == FixedVhd(cells)
  <2>1. RecoverySource(file).ok = TRUE /\ RecoverySource(file).cells = cells
    BY FixedVhdIs
  <2> HIDE DEF file
  <2>2. ReadsBack(file, cells)
    BY <2>1, ReadsBackIs
  <2> QED
    BY <2>2 DEF file
<1>2. ReadsBack(SparseVmdk(cells, size, stored), cells)
  <2> DEFINE file == SparseVmdk(cells, size, stored)
  <2>1. RecoverySource(file).ok = TRUE /\ RecoverySource(file).cells = cells
    BY SparseVmdkIs
  <2> HIDE DEF file
  <2>2. ReadsBack(file, cells)
    BY <2>1, ReadsBackIs
  <2> QED
    BY <2>2 DEF file
<1>3. ASSUME cells # <<>>, size < 16, NEW damaged \in BOOLEAN
      PROVE  ReadsBack(DynamicVhd(cells, size, stored, damaged), cells)
  <2> DEFINE file == DynamicVhd(cells, size, stored, damaged)
  <2>1. RecoverySource(file).ok = TRUE /\ RecoverySource(file).cells = cells
    <3>1. size \in 1..15
      BY <1>3
    <3> QED
      BY <1>3, <3>1, DynamicVhdIs
  <2> HIDE DEF file
  <2>2. ReadsBack(file, cells)
    BY <2>1, ReadsBackIs
  <2> QED
    BY <2>2 DEF file
<1> QED
  BY <1>1, <1>2, <1>3

\* A disk in any of the containers, a dynamic VHD with narrow blocks.
LEMMA DiskFileReadsBack ==
    ASSUME MinGrainEntries \in Nat \ {0}, NEW disk, IsDiskFile(disk), ~WideBlocks(FileOf(disk))
    PROVE  ReadsBack(FileOf(disk), disk.cells)
<1> DEFINE cells == disk.cells
           size == disk.size
           stored == disk.stored
           file == FileOf(disk)
<1>1. cells \in Seq(Nat) /\ size \in Nat \ {0} /\ EndOfFile \notin Nat
  BY DEF IsDiskFile, EndOfFile
<1>2. RecoverySource(file).ok = TRUE /\ RecoverySource(file).cells = cells
  <2>1. CASE disk.format = "fixed"
    <3>1. file = FixedVhd(cells)
      BY <2>1 DEF FileOf
    <3> HIDE DEF cells, file
    <3> QED
      BY <1>1, <3>1, FixedVhdIs
  <2>2. CASE disk.format = "dynamic"
    <3> DEFINE damaged == disk.damaged
    <3>1. file = DynamicVhd(cells, size, stored, damaged)
      BY <2>2 DEF FileOf
    <3>2. Allocated(cells, size, stored) /\ damaged \in BOOLEAN /\ cells # <<>>
      BY <2>2 DEF IsDiskFile
    <3>3. file.ext = "vhd" /\ file.sparseHeader.blockSize = size
      BY <3>1, SMTT(20) DEF DynamicVhd
    <3>4. ~(size >= 16)
      <4> HIDE DEF file
      <4> QED
        BY <3>3 DEF WideBlocks, file
    <3> HIDE DEF cells, size, stored, damaged, file
    <3>5. size \in 1..15
      BY <1>1, <3>4
    <3> QED
      BY <1>1, <3>1, <3>2, <3>5, DynamicVhdIs
  <2>3. CASE disk.format = "sparse"
    <3>1. file = SparseVmdk(cells, size, stored)
      BY <2>3 DEF FileOf
    <3>2. Allocated(cells, size, stored)
      BY <2>3 DEF IsDiskFile
    <3> HIDE DEF cells, size, stored, file
    <3> QED
      BY <1>1, <3>1, <3>2, SparseVmdkIs
  <2>4. disk.format \in {"fixed", "dynamic", "sparse"}
    BY DEF IsDiskFile
  <2> QED
    BY <2>1, <2>2, <2>3, <2>4
<1>3. ReadsBack(file, cells)
  <2> HIDE DEF file, cells
  <2> QED
    BY <1>1, <1>2, ReadsBackIs
<1> QED
  BY <1>3

VdiskInv ==
  reader = "vdisk" /\ input # NoInput => input \in {[file |-> FileOf(disk), cells |-> disk.cells] : disk \in DiskFiles}

(* Every disk put into a fixed or dynamic VHD or a sparse VMDK reads back, *)
(* as long as the blocks of a dynamic VHD have fewer than 16 sectors       *)
(* (VhdSource, VmdkSource).                                                *)
THEOREM VirtualDisksAlwaysReadBack == ReaderSpec => []VirtualDisksReadBack
<1>1. ReaderInit => VdiskInv
  BY DEF ReaderInit, VdiskInv
<1>2. VdiskInv /\ [ReaderNext]_readerVars => VdiskInv'
  <2> SUFFICES ASSUME VdiskInv, [ReaderNext]_readerVars PROVE VdiskInv'
    OBVIOUS
  <2>1. CASE Chooses("vdisk", ChooseDiskFile)
    BY <2>1 DEF VdiskInv, Chooses, ChooseDiskFile
  <2>2. CASE UNCHANGED readerVars
    BY <2>2 DEF VdiskInv, readerVars
  <2>3. CASE reader' = reader /\ reader # "vdisk"
    BY <2>3 DEF VdiskInv
  <2> QED
    BY <2>1, <2>2, <2>3 DEF ReaderNext, Chooses
<1>3. VdiskInv => VirtualDisksReadBack
  <2> SUFFICES ASSUME VdiskInv, Chosen("vdisk"), ~WideBlocks(input.file)
               PROVE  ReadsBack(input.file, input.cells)
    BY DEF VirtualDisksReadBack
  <2>1. PICK disk \in DiskFiles : input = [file |-> FileOf(disk), cells |-> disk.cells]
    BY DEF VdiskInv, Chosen
  <2>2. input.file = FileOf(disk) /\ input.cells = disk.cells
    BY <2>1
  <2>3. IsDiskFile(disk) /\ MinGrainEntries \in Nat \ {0}
    BY DiskFileAssumption
  <2> QED
    BY <2>2, <2>3, DiskFileReadsBack
<1> QED
  BY <1>1, <1>2, <1>3, PTL DEF ReaderSpec

-------------------------------------------------------------------------------
(* A partitioned disk.                                                     *)

SourceOf(disk) == Partitioned(disk.volumes, disk.size, disk.scheme, disk.known, disk.damage, disk.wiped)

StartOf(disk, i) == disk.volumes[i].start

VolumeStarts(disk) == {StartOf(disk, i) : i \in DOMAIN disk.volumes}

\* What is told of a volume, as far as its header and its type are left.
TrueFs(disk, i) ==
  IF StartOf(disk, i) \notin disk.wiped THEN disk.volumes[i].fs
  ELSE FilesystemFromType(disk.scheme, disk.volumes[i].type)

\* The place of every check is far enough from the end of a device file.
Checkable(disk, at) == at \in Nat /\ (disk.known \/ at + 8 <= disk.size)

\* The headers that are looked for.
LEMMA ChecksAre ==
    /\ DOMAIN HeaderChecks = 1..5 /\ Len(HeaderChecks) = 5
    /\ HeaderChecks[1] = [fs |-> "Apfs", sectors |-> 8, signed |-> FALSE]
    /\ HeaderChecks[2] = [fs |-> "HfsPlus", sectors |-> 3, signed |-> FALSE]
    /\ HeaderChecks[3] = [fs |-> "Ntfs", sectors |-> 1, signed |-> TRUE]
    /\ HeaderChecks[4] = [fs |-> "Exfat", sectors |-> 1, signed |-> TRUE]
    /\ HeaderChecks[5] = [fs |-> "Fat32", sectors |-> 1, signed |-> TRUE]
    /\ FileSystems = {"Apfs", "HfsPlus", "Ntfs", "Exfat", "Fat32"}
<1>1. /\ DOMAIN HeaderChecks = 1..5 /\ Len(HeaderChecks) = 5
      /\ HeaderChecks[1] = [fs |-> "Apfs", sectors |-> 8, signed |-> FALSE]
      /\ HeaderChecks[2] = [fs |-> "HfsPlus", sectors |-> 3, signed |-> FALSE]
      /\ HeaderChecks[3] = [fs |-> "Ntfs", sectors |-> 1, signed |-> TRUE]
      /\ HeaderChecks[4] = [fs |-> "Exfat", sectors |-> 1, signed |-> TRUE]
      /\ HeaderChecks[5] = [fs |-> "Fat32", sectors |-> 1, signed |-> TRUE]
  BY DEF HeaderChecks
<1>2. 1..5 = {1, 2, 3, 4, 5}
  OBVIOUS
<1>3. FileSystems = {HeaderChecks[1].fs, HeaderChecks[2].fs, HeaderChecks[3].fs, HeaderChecks[4].fs, HeaderChecks[5].fs}
  BY <1>1, <1>2 DEF FileSystems
<1> QED
  BY <1>1, <1>3

\* Where the entries lie, there is room for them.
EntriesOf(disk) ==
  [i \in DOMAIN disk.volumes |->
     [start |-> disk.volumes[i].start, sectors |-> disk.volumes[i].sectors, type |-> disk.volumes[i].type]]

LEMMA TablesFit ==
    ASSUME NEW disk, IsPartitioned(disk)
    PROVE  /\ EntrySectors(Len(disk.volumes)) \in Nat
           /\ disk.size \in Nat /\ disk.size > 3 + 2 * EntrySectors(Len(disk.volumes))
<1>1. Len(disk.volumes) \in Nat
  BY DEF IsPartitioned
<1>2. \A count \in Nat : EntrySectors(count) \in Nat
  BY DEF EntrySectors
<1>3. EntrySectors(Len(disk.volumes)) \in Nat
  BY <1>1, <1>2, Zenon
<1>4. disk.size \in Nat
  BY DEF IsPartitioned
<1>5. disk.size > 3 + 2 * EntrySectors(Len(disk.volumes))
  BY Zenon DEF IsPartitioned
<1> QED
  BY <1>3, <1>4, <1>5, Zenon

\* All of the entries of a table are looked at, and they take the sectors they took
\* when the table was written.
LEMMA EntriesAreRead ==
    ASSUME NEW disk, IsPartitioned(disk)
    PROVE  /\ disk.scheme = "mbr" => FirstEntries(EntriesOf(disk), MbrEntries) = EntriesOf(disk)
           /\ disk.scheme = "gpt" => FirstEntries(EntriesOf(disk), GptEntries) = EntriesOf(disk)
           /\ EntrySectors(Len(EntriesOf(disk))) = EntrySectors(Len(disk.volumes))
<1> DEFINE V == [start : Nat \ {0}, sectors : Nat \ {0}, fs : FileSystems, type : STRING \ {"empty", "protective"}]
           entries == EntriesOf(disk)
<1>1. /\ disk.volumes \in Seq(V)
      /\ Len(disk.volumes) <= (IF disk.scheme = "mbr" THEN MbrEntries ELSE GptEntries)
  BY DEF IsPartitioned
<1> HIDE DEF V
<1>2. PICK count \in Nat : count = Len(disk.volumes) /\ DOMAIN disk.volumes = 1..count
  BY <1>1
<1>3. DOMAIN entries = 1..count
  BY <1>2 DEF EntriesOf
<1>4. entries \in Seq({entries[i] : i \in 1..count})
  <2>1. entries = [i \in 1..count |-> entries[i]]
    BY <1>2 DEF EntriesOf
  <2> HIDE DEF entries
  <2> QED
    BY <1>2, <2>1
<1> HIDE DEF entries
<1>5. Len(entries) \in Nat /\ DOMAIN entries = 1..Len(entries)
  BY <1>4
<1>6. PICK n \in Nat : n = Len(entries)
  BY <1>5
<1>7. 1..n = 1..count
  BY <1>3, <1>5, <1>6
<1>8. n = count
  BY <1>2, <1>6, <1>7
<1>9. Len(entries) = Len(disk.volumes)
  BY <1>2, <1>6, <1>8
<1>10. /\ disk.scheme = "mbr" => Len(entries) <= MbrEntries
       /\ disk.scheme = "gpt" => Len(entries) <= GptEntries
  BY <1>1, <1>9
<1> QED
  BY <1>9, <1>10 DEF FirstEntries, entries

\* What is known of the volumes.
LEMMA VolumesAre ==
    ASSUME NEW disk, IsPartitioned(disk)
    PROVE  /\ disk.size \in Nat /\ disk.size > 3 /\ disk.known \in BOOLEAN /\ disk.scheme \in {"mbr", "gpt"}
           /\ DOMAIN disk.volumes \in SUBSET Nat
           /\ \A i \in DOMAIN disk.volumes :
                /\ StartOf(disk, i) \in Nat \ {0} /\ disk.volumes[i].sectors \in Nat \ {0}
                /\ disk.volumes[i].fs \in FileSystems /\ disk.volumes[i].type \notin {"empty", "protective"}
                /\ StartOf(disk, i) + disk.volumes[i].sectors <= disk.size
                /\ Checkable(disk, StartOf(disk, i))
                /\ disk.volumes[i].sectors >= (IF disk.volumes[i].fs = "Apfs" THEN 8
                                               ELSE IF disk.volumes[i].fs = "HfsPlus" THEN 3 ELSE 1)
           /\ \A i, j \in DOMAIN disk.volumes : StartOf(disk, i) = StartOf(disk, j) => i = j
           /\ \A k \in 1..(ScanLimit \div MibSectors) :
                k * MibSectors < ScanLimit => disk.known \/ k * MibSectors + 8 <= disk.size
<1> DEFINE V == [start : Nat \ {0}, sectors : Nat \ {0}, fs : FileSystems, type : STRING \ {"empty", "protective"}]
<1>1. disk.volumes \in Seq(V)
  BY DEF IsPartitioned
<1>2. DOMAIN disk.volumes \in SUBSET Nat /\ \A i \in DOMAIN disk.volumes : disk.volumes[i] \in V
  <2> HIDE DEF V
  <2> QED
    BY <1>1
<1>3. \A v \in V : /\ v.start \in Nat \ {0} /\ v.sectors \in Nat \ {0} /\ v.fs \in FileSystems
                   /\ v.type \notin {"empty", "protective"}
  OBVIOUS
<1> HIDE DEF V
<1>4. \A i \in DOMAIN disk.volumes :
        /\ StartOf(disk, i) \in Nat \ {0} /\ disk.volumes[i].sectors \in Nat \ {0}
        /\ disk.volumes[i].fs \in FileSystems /\ disk.volumes[i].type \notin {"empty", "protective"}
  BY <1>2, <1>3 DEF StartOf
<1>5. /\ disk.size \in Nat /\ disk.size > 3 /\ disk.known \in BOOLEAN /\ disk.scheme \in {"mbr", "gpt"}
      /\ \A i, j \in DOMAIN disk.volumes : StartOf(disk, i) = StartOf(disk, j) => i = j
  <2>1. disk.size \in Nat /\ disk.size > 3
    BY TablesFit
  <2> QED
    BY <2>1 DEF IsPartitioned, StartOf
<1>6. \A i \in DOMAIN disk.volumes :
        /\ StartOf(disk, i) + disk.volumes[i].sectors <= disk.size
        /\ disk.known \/ StartOf(disk, i) + 8 <= disk.size
        /\ disk.volumes[i].sectors >= (IF disk.volumes[i].fs = "Apfs" THEN 8
                                       ELSE IF disk.volumes[i].fs = "HfsPlus" THEN 3 ELSE 1)
  BY DEF IsPartitioned, StartOf
<1>7. \A k \in 1..(ScanLimit \div MibSectors) :
        k * MibSectors < ScanLimit => disk.known \/ k * MibSectors + 8 <= disk.size
  BY DEF IsPartitioned
<1> QED
  BY <1>2, <1>4, <1>5, <1>6, <1>7 DEF Checkable

EntriesAt(disk, at) == IF at = 1 THEN 2 ELSE disk.size - 1 - EntrySectors(Len(disk.volumes))

\* What the source holds.
LEMMA SourceIs ==
    ASSUME NEW disk, IsPartitioned(disk)
    PROVE  LET source == SourceOf(disk)
               entries == EntriesOf(disk)
               headers == (IF disk.scheme = "gpt" /\ "gpt" \notin disk.damage THEN {1} ELSE {})
                          \cup (IF disk.scheme = "gpt" /\ "backup" \notin disk.damage THEN {disk.size - 1} ELSE {})
           IN  /\ source.size = disk.size /\ source.known = disk.known /\ source.bad = {}
               /\ source.mbr.signed <=> "mbr" \notin disk.damage
               /\ source.mbr.entries = IF disk.scheme = "mbr" THEN entries
                                       ELSE <<[start |-> 1, sectors |-> disk.size - 1, type |-> "protective"]>>
               /\ DOMAIN source.gpt = headers
               /\ \A at \in headers : /\ source.gpt[at].usable = TRUE /\ source.gpt[at].entries = entries
                                      /\ source.gpt[at].entriesAt = EntriesAt(disk, at)
               /\ \A at : (\A i \in DOMAIN disk.volumes : StartOf(disk, i) = at => at \in disk.wiped)
                              => BootAt(source, at) = NoBoot
               /\ \A i \in DOMAIN disk.volumes : StartOf(disk, i) \notin disk.wiped =>
                    BootAt(source, StartOf(disk, i))
                      = [signed |-> disk.volumes[i].fs \notin {"Apfs", "HfsPlus"},
                         headers |-> [fs \in {disk.volumes[i].fs} |-> disk.volumes[i].sectors]]
<1> DEFINE volumes == disk.volumes
           entries == EntriesOf(disk)
           headers == (IF disk.scheme = "gpt" /\ "gpt" \notin disk.damage THEN {1} ELSE {})
                      \cup (IF disk.scheme = "gpt" /\ "backup" \notin disk.damage THEN {disk.size - 1} ELSE {})
           intact == {i \in DOMAIN volumes : volumes[i].start \notin disk.wiped}
           Boot(v) == [signed |-> v.fs \notin {"Apfs", "HfsPlus"}, headers |-> [fs \in {v.fs} |-> v.sectors]]
           boots == [at \in {volumes[i].start : i \in intact} |->
                       Boot(volumes[CHOOSE i \in DOMAIN volumes : volumes[i].start = at])]
           gpt == [at \in headers |-> [usable |-> TRUE, entries |-> entries,
                                       entriesAt |-> EntriesAt(disk, at)]]
           listed == IF disk.scheme = "mbr" THEN entries
                     ELSE <<[start |-> 1, sectors |-> disk.size - 1, type |-> "protective"]>>
           source == SourceOf(disk)
<1>1. source = [size |-> disk.size, known |-> disk.known, bad |-> {},
                mbr |-> [signed |-> "mbr" \notin disk.damage, entries |-> listed],
                gpt |-> gpt, boots |-> boots]
  BY DEF SourceOf, Partitioned, EntriesOf, EntriesAt
<1>2. \A at : at \notin {volumes[i].start : i \in intact} => BootAt(source, at) = NoBoot
  <2>1. source.boots = boots /\ DOMAIN boots = {volumes[i].start : i \in intact}
    BY <1>1
  <2> HIDE DEF source, boots, intact
  <2> QED
    BY <2>1 DEF BootAt
<1>3. ASSUME NEW i \in intact PROVE BootAt(source, volumes[i].start) = Boot(volumes[i])
  <2>1. source.boots = boots
    BY <1>1
  <2>2. (CHOOSE j \in DOMAIN volumes : volumes[j].start = volumes[i].start) = i
    BY DEF IsPartitioned
  <2>3. volumes[i].start \in {volumes[j].start : j \in intact}
    OBVIOUS
  <2> HIDE DEF source, intact, Boot
  <2>4. boots[volumes[i].start] = Boot(volumes[i]) /\ volumes[i].start \in DOMAIN boots
    BY <2>2, <2>3
  <2> HIDE DEF boots
  <2> QED
    BY <2>1, <2>4 DEF BootAt
<1>4. /\ source.size = disk.size /\ source.known = disk.known /\ source.bad = {}
      /\ (source.mbr.signed <=> "mbr" \notin disk.damage)
      /\ source.mbr.entries = listed /\ source.gpt = gpt
  <2> HIDE DEF boots, listed, gpt, source
  <2> DEFINE mbr == [signed |-> "mbr" \notin disk.damage, entries |-> listed]
  <2>1. (mbr.signed <=> "mbr" \notin disk.damage) /\ mbr.entries = listed
    OBVIOUS
  <2>2. source = [size |-> disk.size, known |-> disk.known, bad |-> {}, mbr |-> mbr, gpt |-> gpt, boots |-> boots]
    BY <1>1
  <2> HIDE DEF mbr
  <2>3. /\ source.size = disk.size /\ source.known = disk.known /\ source.bad = {} /\ source.mbr = mbr
        /\ source.gpt = gpt
    BY <2>2
  <2> QED
    BY <2>1, <2>3
<1>5. \A at : (\A i \in DOMAIN volumes : StartOf(disk, i) = at => at \in disk.wiped) => BootAt(source, at) = NoBoot
  BY <1>2 DEF StartOf
<1>6. \A i \in DOMAIN volumes : StartOf(disk, i) \notin disk.wiped => BootAt(source, StartOf(disk, i)) = Boot(volumes[i])
  BY <1>3 DEF StartOf
<1>7. DOMAIN source.gpt = headers /\ \A at \in headers :
         /\ source.gpt[at].usable = TRUE /\ source.gpt[at].entries = entries
         /\ source.gpt[at].entriesAt = EntriesAt(disk, at)
  <2> HIDE DEF source, entries, headers
  <2> QED
    BY <1>4
<1> HIDE DEF source
<1> QED
  BY <1>4, <1>5, <1>6, <1>7 DEF source, StartOf

\* A check of a header at a place that is far enough from the end.
LEMMA CheckReads ==
    ASSUME NEW disk, IsPartitioned(disk), NEW at, Checkable(disk, at), NEW check, check.sectors \in 1..8
    PROVE  LET source == SourceOf(disk)
           IN  Skipped(source, at, check) \/ Reads(source, at, check.sectors)
<1> DEFINE source == SourceOf(disk)
           n == check.sectors
<1>1. source.size = disk.size /\ source.known = disk.known /\ source.bad = {} /\ disk.size \in Nat
  BY SourceIs, VolumesAre
<1>2. at \in Nat /\ (disk.known \/ at + 8 <= disk.size) /\ n \in 1..8
  BY DEF Checkable
<1> HIDE DEF source, n
<1>3. (source.known /\ at + n > source.size) \/ at + n <= source.size
  BY <1>1, <1>2
<1>4. (at..(at + n - 1)) \cap source.bad = {}
  BY <1>1
<1> QED
  BY <1>3, <1>4 DEF Skipped, PastKnownEnd, Reads, source, n

\* What is detected there, by the header that matches.
LEMMA DetectIs ==
    ASSUME NEW disk, IsPartitioned(disk), NEW at, Checkable(disk, at)
    PROVE  LET got == DetectBootSector(SourceOf(disk), at)
           IN  /\ (\A i \in DOMAIN disk.volumes : StartOf(disk, i) = at => at \in disk.wiped) => got = NoMatch
               /\ \A i \in DOMAIN disk.volumes : StartOf(disk, i) = at /\ at \notin disk.wiped =>
                    got = [ok |-> TRUE, fs |-> disk.volumes[i].fs, sectors |-> disk.volumes[i].sectors]
<1> DEFINE source == SourceOf(disk)
           matching == {i \in DOMAIN HeaderChecks : Matches(source, at, HeaderChecks[i])}
           last == Min(matching \cup {Len(HeaderChecks)})
           got == DetectBootSector(source, at)
<1>1. \A i \in 1..5 : HeaderChecks[i].sectors \in 1..8
  <2>1. 1..5 = {1, 2, 3, 4, 5}
    OBVIOUS
  <2> QED
    BY <2>1, ChecksAre
<1>2. \A i \in 1..5 : Skipped(source, at, HeaderChecks[i]) \/ Reads(source, at, HeaderChecks[i].sectors)
  BY <1>1, CheckReads
<1>3. got = Detected(source, at, matching)
  BY DEF DetectBootSector
<1>4. ASSUME last \in 1..5
      PROVE  got = IF matching = {} THEN NoMatch
                   ELSE [ok |-> TRUE, fs |-> HeaderChecks[last].fs,
                         sectors |-> BootAt(source, at).headers[HeaderChecks[last].fs]]
  <2>1. ~\E i \in 1..last : ~Skipped(source, at, HeaderChecks[i]) /\ ~Reads(source, at, HeaderChecks[i].sectors)
    BY <1>2, <1>4
  <2> HIDE DEF source, matching, got
  <2> QED
    BY <1>3, <2>1 DEF Detected
<1>5. ASSUME \A i \in DOMAIN disk.volumes : StartOf(disk, i) = at => at \in disk.wiped PROVE got = NoMatch
  <2>1. BootAt(source, at) = NoBoot
    BY <1>5, SourceIs, ZenonT(60)
  <2>2. matching = {}
    <3> SUFFICES ASSUME NEW i \in DOMAIN HeaderChecks, Matches(source, at, HeaderChecks[i]) PROVE FALSE
      OBVIOUS
    <3>1. HeaderChecks[i].fs \in DOMAIN NoBoot.headers
      BY <2>1 DEF Matches
    <3>2. DOMAIN NoBoot.headers = {}
      BY DEF NoBoot
    <3> QED
      BY <3>1, <3>2
  <2>3. last = 5
    <3>1. matching \cup {Len(HeaderChecks)} = {5}
      BY <2>2, ChecksAre
    <3>2. Min({5}) = 5
      BY DEF Min
    <3> HIDE DEF matching
    <3> QED
      BY <3>1, <3>2
  <2> HIDE DEF matching, last, got
  <2> QED
    BY <1>4, <2>2, <2>3
<1>6. ASSUME NEW i \in DOMAIN disk.volumes, StartOf(disk, i) = at, at \notin disk.wiped
      PROVE  got = [ok |-> TRUE, fs |-> disk.volumes[i].fs, sectors |-> disk.volumes[i].sectors]
  <2> DEFINE fs == disk.volumes[i].fs
             n == disk.volumes[i].sectors
             boot == [signed |-> fs \notin {"Apfs", "HfsPlus"}, headers |-> [f \in {fs} |-> n]]
  <2>1. BootAt(source, at) = boot
    <3> DEFINE Boot(j) == [signed |-> disk.volumes[j].fs \notin {"Apfs", "HfsPlus"},
                           headers |-> [f \in {disk.volumes[j].fs} |-> disk.volumes[j].sectors]]
    <3>1. \A j \in DOMAIN disk.volumes : StartOf(disk, j) \notin disk.wiped =>
            BootAt(source, StartOf(disk, j)) = Boot(j)
      BY SourceIs, ZenonT(60)
    <3> HIDE DEF source, Boot
    <3>2. BootAt(source, at) = Boot(i)
      BY <1>6, <3>1
    <3> QED
      BY <3>2 DEF Boot
  <2>2. /\ fs \in {"Apfs", "HfsPlus", "Ntfs", "Exfat", "Fat32"} /\ n \in Nat \ {0} /\ at + n <= disk.size
        /\ n >= (IF fs = "Apfs" THEN 8 ELSE IF fs = "HfsPlus" THEN 3 ELSE 1)
        /\ at \in Nat /\ disk.size \in Nat /\ source.size = disk.size
    <3>1. /\ fs \in FileSystems /\ n \in Nat \ {0} /\ StartOf(disk, i) + n <= disk.size
          /\ n >= (IF fs = "Apfs" THEN 8 ELSE IF fs = "HfsPlus" THEN 3 ELSE 1)
          /\ disk.size \in Nat /\ StartOf(disk, i) \in Nat
      BY VolumesAre
    <3>2. FileSystems = {"Apfs", "HfsPlus", "Ntfs", "Exfat", "Fat32"}
      BY ChecksAre
    <3>3. source.size = disk.size
      BY SourceIs
    <3> HIDE DEF fs, n, source
    <3> QED
      BY <1>6, <3>1, <3>2, <3>3
  <2> HIDE DEF fs, n
  <2>3. DOMAIN boot.headers = {fs} /\ boot.headers[fs] = n /\ (boot.signed <=> fs \notin {"Apfs", "HfsPlus"})
    OBVIOUS
  <2> HIDE DEF boot, source
  <2>4. ASSUME NEW check, check.fs = fs, check.sectors \in 1..8,
               check.sectors <= (IF fs = "Apfs" THEN 8 ELSE IF fs = "HfsPlus" THEN 3 ELSE 1),
               check.signed => fs \notin {"Apfs", "HfsPlus"}
        PROVE  Matches(source, at, check)
    <3> DEFINE k == check.sectors
    <3>1. ~(at + k > source.size) /\ ~(at + n > source.size) /\ n > 0
      <4>1. k \in 1..8 /\ k <= n
        BY <2>2, <2>4
      <4> HIDE DEF k
      <4> QED
        BY <2>2, <4>1
    <3> QED
      BY <2>1, <2>3, <2>4, <3>1 DEF Matches, Skipped, PastKnownEnd, Fits
  <2>5. \A k \in 1..5 : HeaderChecks[k].fs # fs => ~Matches(source, at, HeaderChecks[k])
    BY <2>1, <2>3 DEF Matches
  <2>6. ASSUME NEW k \in 1..5, HeaderChecks[k].fs = fs, Matches(source, at, HeaderChecks[k]),
               \A j \in 1..5 : j # k => HeaderChecks[j].fs # fs
        PROVE  got = [ok |-> TRUE, fs |-> fs, sectors |-> n]
    <3>1. matching = {k}
      BY <2>5, <2>6, ChecksAre
    <3>2. last = k
      <4>1. matching \cup {Len(HeaderChecks)} = {k, 5}
        BY <3>1, ChecksAre
      <4>2. Min({k, 5}) = k
        <5>1. k \in Int /\ 5 \in Int /\ k <= 5
          OBVIOUS
        <5> QED
          BY <5>1, MinOfTwo
      <4> HIDE DEF matching
      <4> QED
        BY <4>1, <4>2
    <3> HIDE DEF matching, last, got
    <3> QED
      BY <1>4, <2>1, <2>3, <2>6, <3>1, <3>2
  <2>7. 1..5 = {1, 2, 3, 4, 5}
    OBVIOUS
  <2>8. PICK k \in 1..5 : HeaderChecks[k].fs = fs
    BY <2>2, <2>7, ChecksAre
  <2>9. /\ \A j \in 1..5 : j # k => HeaderChecks[j].fs # fs
        /\ HeaderChecks[k].sectors = (IF fs = "Apfs" THEN 8 ELSE IF fs = "HfsPlus" THEN 3 ELSE 1)
        /\ HeaderChecks[k].signed => fs \notin {"Apfs", "HfsPlus"}
    BY <2>7, <2>8, ChecksAre
  <2>10. Matches(source, at, HeaderChecks[k])
    <3>1. HeaderChecks[k].sectors \in 1..8 /\ HeaderChecks[k].sectors <= HeaderChecks[k].sectors
      BY <1>1
    <3> QED
      BY <2>4, <2>8, <2>9, <3>1
  <2> HIDE DEF got
  <2> QED
    BY <2>6, <2>8, <2>9, <2>10 DEF fs, n
<1> QED
  BY <1>5, <1>6

\* An account of volumes, by entry or by start, that says what is true of each.
VolumeFields == {"start", "sectors", "fs", "confidence", "methods"}

SaysOf(disk, told, i) ==
  /\ DOMAIN told = VolumeFields /\ told.start = StartOf(disk, i)
  /\ told.sectors = disk.volumes[i].sectors /\ told.fs = TrueFs(disk, i)

TruthOf(disk, accounts) ==
  /\ DOMAIN accounts \in SUBSET Nat
  /\ \A k \in DOMAIN accounts : \E i \in DOMAIN disk.volumes : SaysOf(disk, accounts[k], i)
  /\ \A k, l \in DOMAIN accounts : accounts[k].start = accounts[l].start => k = l

StartsTold(told) == {told[k].start : k \in DOMAIN told}

\* What was merged so far, by start.
MergedOf(disk, merged) ==
  \A at \in DOMAIN merged : \E i \in DOMAIN disk.volumes : StartOf(disk, i) = at /\ SaysOf(disk, merged[at], i)

\* Merging adds what an account tells, and the truth stays.
LEMMA MergeIs ==
    ASSUME NEW disk, IsPartitioned(disk), NEW merged, MergedOf(disk, merged), NEW told, TruthOf(disk, told)
    PROVE  LET all == MergeVolumes(merged, told)
           IN  /\ DOMAIN all = DOMAIN merged \cup {told[k].start : k \in DOMAIN told}
               /\ MergedOf(disk, all)
<1> DEFINE Here(at) == {k \in DOMAIN told : told[k].start = at}
           Told(at) == {k \in Here(at) : told[k].fs # Unknown}
           First(at) == IF at \in DOMAIN merged THEN merged[at] ELSE told[Min(Here(at))]
           starts == DOMAIN merged \cup {told[k].start : k \in DOMAIN told}
           Kept(at) == [First(at) EXCEPT
                          !.fs = IF @ # Unknown \/ Told(at) = {} THEN @ ELSE told[Min(Told(at))].fs,
                          !.confidence = Max({@} \cup {told[k].confidence : k \in Here(at)}),
                          !.methods = @ \cup UNION {told[k].methods : k \in Here(at)}]
           all == MergeVolumes(merged, told)
<1>1. all = [at \in starts |-> Kept(at)]
  BY DEF MergeVolumes
<1>2. ASSUME NEW at \in starts PROVE \E i \in DOMAIN disk.volumes : StartOf(disk, i) = at /\ SaysOf(disk, Kept(at), i)
  <2>1. \E i \in DOMAIN disk.volumes : StartOf(disk, i) = at /\ SaysOf(disk, First(at), i)
    <3>1. CASE at \in DOMAIN merged
      BY <3>1 DEF MergedOf
    <3>2. CASE at \notin DOMAIN merged
      <4>1. PICK k \in DOMAIN told : told[k].start = at
        BY <3>2
      <4>2. Here(at) = {k} /\ k \in Nat
        BY <4>1 DEF TruthOf
      <4>3. Min({k}) = k
        BY <4>2 DEF Min
      <4>4. First(at) = told[k]
        <5> HIDE DEF Here
        <5> QED
          BY <3>2, <4>2, <4>3
      <4> HIDE DEF First
      <4> QED
        BY <4>1, <4>4 DEF TruthOf, SaysOf
    <3> QED
      BY <3>1, <3>2
  <2>2. PICK i \in DOMAIN disk.volumes : StartOf(disk, i) = at /\ SaysOf(disk, First(at), i)
    BY <2>1
  <2>3. First(at).fs # Unknown \/ Told(at) = {}
    <3> SUFFICES ASSUME NEW k \in Told(at) PROVE First(at).fs # Unknown
      OBVIOUS
    <3>1. k \in DOMAIN told /\ told[k].start = at /\ told[k].fs # Unknown
      OBVIOUS
    <3>2. PICK j \in DOMAIN disk.volumes : SaysOf(disk, told[k], j)
      BY <3>1 DEF TruthOf
    <3>3. j = i
      BY <2>2, <3>1, <3>2, VolumesAre DEF SaysOf
    <3> HIDE DEF First
    <3> QED
      BY <2>2, <3>1, <3>2, <3>3 DEF SaysOf
  <2> HIDE DEF First, Told, Here
  <2> DEFINE confidence == Max({First(at).confidence} \cup {told[k].confidence : k \in Here(at)})
             methods == First(at).methods \cup UNION {told[k].methods : k \in Here(at)}
  <2>4. Kept(at) = [First(at) EXCEPT !.fs = First(at).fs, !.confidence = confidence, !.methods = methods]
    BY <2>3
  <2> HIDE DEF confidence, methods, Kept
  <2>5. DOMAIN First(at) = VolumeFields
    BY <2>2 DEF SaysOf
  <2>6. /\ DOMAIN Kept(at) = VolumeFields /\ Kept(at).start = First(at).start
        /\ Kept(at).sectors = First(at).sectors /\ Kept(at).fs = First(at).fs
    BY <2>4, <2>5 DEF VolumeFields
  <2> QED
    BY <2>2, <2>6 DEF SaysOf
<1> HIDE DEF Kept, starts
<1> QED
  BY <1>1, <1>2 DEF MergedOf, starts

\* The accounts of a table with an entry for each volume.
LEMMA NamedIs ==
    ASSUME NEW disk, IsPartitioned(disk), NEW entries,
           entries = EntriesOf(disk),
           NEW unused \in {{"empty", "protective"}, {"empty"}}, NEW confidence, NEW method
    PROVE  LET told == Named(SourceOf(disk), entries, unused, disk.scheme, confidence, method)
           IN  TruthOf(disk, told) /\ StartsTold(told) = VolumeStarts(disk)
<1> DEFINE source == SourceOf(disk)
           used == {i \in DOMAIN entries : /\ entries[i].type \notin unused
                                           /\ entries[i].sectors > 0 /\ entries[i].start > 0
                                           /\ ~PastKnownEnd(source, entries[i].start + 1)}
           match == [i \in used |-> DetectBootSector(source, entries[i].start)]
           told == Named(source, entries, unused, disk.scheme, confidence, method)
<1>1. /\ DOMAIN entries = DOMAIN disk.volumes
      /\ \A i \in DOMAIN disk.volumes :
           /\ entries[i].start = StartOf(disk, i) /\ entries[i].sectors = disk.volumes[i].sectors
           /\ entries[i].type = disk.volumes[i].type
  BY DEF EntriesOf, StartOf
<1>2. ASSUME NEW i \in DOMAIN disk.volumes PROVE i \in used
  <2> DEFINE s == StartOf(disk, i)
             n == disk.volumes[i].sectors
  <2>1. /\ s \in Nat \ {0} /\ n \in Nat \ {0} /\ s + n <= disk.size /\ disk.size \in Nat
        /\ disk.volumes[i].type \notin unused
    BY VolumesAre
  <2>2. source.size = disk.size
    BY SourceIs
  <2> HIDE DEF s, n, source
  <2>3. s > 0 /\ n > 0 /\ ~(s + 1 > source.size)
    BY <2>1, <2>2
  <2>4. entries[i].start = s /\ entries[i].sectors = n
    BY <1>1 DEF s, n
  <2> QED
    BY <1>1, <2>1, <2>3, <2>4 DEF PastKnownEnd
<1>3. used = DOMAIN disk.volumes
  <2> HIDE DEF source
  <2> QED
    BY <1>1, <1>2
<1> HIDE DEF used
<1>4. ASSUME NEW i \in DOMAIN disk.volumes
      PROVE  /\ match[i].ok = TRUE
             /\ (IF match[i].fs = Unknown THEN FilesystemFromType(disk.scheme, entries[i].type) ELSE match[i].fs)
                  = TrueFs(disk, i)
  <2>1. match[i] = DetectBootSector(source, StartOf(disk, i))
    BY <1>1, <1>3
  <2>2. Checkable(disk, StartOf(disk, i)) /\ disk.volumes[i].fs \in FileSystems
    BY VolumesAre
  <2>3. disk.volumes[i].fs # Unknown
    BY <2>2, ChecksAre DEF Unknown
  <2> HIDE DEF match
  <2>4. CASE StartOf(disk, i) \notin disk.wiped
    <3>1. match[i] = [ok |-> TRUE, fs |-> disk.volumes[i].fs, sectors |-> disk.volumes[i].sectors]
      BY <2>1, <2>2, <2>4, DetectIs
    <3> QED
      BY <2>3, <2>4, <3>1 DEF TrueFs
  <2>5. CASE StartOf(disk, i) \in disk.wiped
    <3>1. match[i] = NoMatch
      BY <2>1, <2>2, <2>5, DetectIs
    <3> QED
      BY <1>1, <2>5, <3>1 DEF TrueFs, NoMatch
  <2> QED
    BY <2>4, <2>5
<1> DEFINE Fs(i) == IF match[i].fs = Unknown THEN FilesystemFromType(disk.scheme, entries[i].type) ELSE match[i].fs
<1>5. told = [i \in DOMAIN disk.volumes |-> Volume(entries[i].start, entries[i].sectors, Fs(i), confidence, method)]
  <2>1. told = NamedAs(entries, match, disk.scheme, confidence, method)
    BY DEF Named, used
  <2>2. DOMAIN match = DOMAIN disk.volumes
    BY <1>3
  <2>3. ~\E i \in DOMAIN match : ~match[i].ok
    BY <1>4, <2>2
  <2> HIDE DEF match, told
  <2> QED
    BY <2>1, <2>2, <2>3 DEF NamedAs
<1> HIDE DEF match, told, Fs
<1>6. \A i \in DOMAIN disk.volumes : SaysOf(disk, told[i], i) /\ told[i].start = StartOf(disk, i)
  <2> SUFFICES ASSUME NEW i \in DOMAIN disk.volumes
               PROVE  SaysOf(disk, told[i], i) /\ told[i].start = StartOf(disk, i)
    OBVIOUS
  <2>1. told[i] = [start |-> StartOf(disk, i), sectors |-> disk.volumes[i].sectors, fs |-> TrueFs(disk, i),
                   confidence |-> confidence, methods |-> {method}]
    BY <1>1, <1>4, <1>5 DEF Volume, Fs
  <2> QED
    BY <2>1 DEF SaysOf, VolumeFields
<1>7. DOMAIN told = DOMAIN disk.volumes
  BY <1>5
<1>8. TruthOf(disk, told)
  <2>1. DOMAIN told \in SUBSET Nat /\ \A i, j \in DOMAIN told : StartOf(disk, i) = StartOf(disk, j) => i = j
    BY <1>7, VolumesAre
  <2> QED
    BY <1>6, <1>7, <2>1 DEF TruthOf
<1>9. StartsTold(told) = VolumeStarts(disk)
  BY <1>6, <1>7 DEF StartsTold, VolumeStarts
<1> QED
  BY <1>8, <1>9 DEF told

\* Whether a table that names the volumes is left where it is looked for.
Tabled(disk) ==
  \/ disk.scheme = "mbr" /\ "mbr" \notin disk.damage
  \/ disk.scheme = "gpt" /\ ("gpt" \notin disk.damage \/ (disk.known /\ "backup" \notin disk.damage))

\* No account at all.
LEMMA NothingTold ==
    ASSUME NEW disk, NEW told, DOMAIN told = {}
    PROVE  TruthOf(disk, told) /\ StartsTold(told) = {}
BY DEF TruthOf, StartsTold

\* What the MBR tells.
LEMMA MbrTells ==
    ASSUME NEW disk, IsPartitioned(disk)
    PROVE  LET told == MbrVolumes(SourceOf(disk))
           IN  /\ TruthOf(disk, told)
               /\ StartsTold(told) = IF disk.scheme = "mbr" /\ "mbr" \notin disk.damage THEN VolumeStarts(disk) ELSE {}
<1> DEFINE source == SourceOf(disk)
           told == MbrVolumes(source)
           unused == {"empty", "protective"}
           entries == EntriesOf(disk)
<1>1. Reads(source, 0, 1)
  <2>1. source.size = disk.size /\ source.bad = {} /\ disk.size \in Nat /\ disk.size > 3
    BY SourceIs, VolumesAre
  <2> HIDE DEF source
  <2> QED
    BY <2>1 DEF Reads
<1>2. source.mbr.signed <=> "mbr" \notin disk.damage
  BY SourceIs
<1>3. CASE disk.scheme = "mbr" /\ "mbr" \notin disk.damage
  <2>1. source.mbr.entries = entries
    BY <1>3, SourceIs
  <2>2. told = Named(source, entries, unused, "mbr", 90, "mbr")
    <3>1. FirstEntries(entries, MbrEntries) = entries
      BY <1>3, EntriesAreRead
    <3> HIDE DEF source, entries
    <3> QED
      BY <1>1, <1>2, <1>3, <2>1, <3>1 DEF MbrVolumes
  <2>3. /\ TruthOf(disk, Named(source, entries, unused, disk.scheme, 90, "mbr"))
        /\ StartsTold(Named(source, entries, unused, disk.scheme, 90, "mbr")) = VolumeStarts(disk)
    BY NamedIs
  <2> HIDE DEF entries, source, unused, told
  <2> QED
    BY <1>3, <2>2, <2>3 DEF told, source
<1>4. CASE ~(disk.scheme = "mbr" /\ "mbr" \notin disk.damage)
  <2>1. DOMAIN told = {}
    <3>1. CASE "mbr" \in disk.damage
      <4>1. told = NoAccounts
        <5> HIDE DEF source
        <5> QED
          BY <1>2, <3>1 DEF MbrVolumes
      <4> HIDE DEF told
      <4> QED
        BY <4>1 DEF NoAccounts
    <3>2. CASE "mbr" \notin disk.damage
      <4> DEFINE one == <<[start |-> 1, sectors |-> disk.size - 1, type |-> "protective"]>>
                 used == {i \in DOMAIN one : /\ one[i].type \notin unused
                                             /\ one[i].sectors > 0 /\ one[i].start > 0
                                             /\ ~PastKnownEnd(source, one[i].start + 1)}
                 match == [i \in used |-> DetectBootSector(source, one[i].start)]
      <4>1. source.mbr.entries = one
        BY <1>4, <3>2, SourceIs
      <4>2. used = {}
        <5>1. \A i \in DOMAIN one : one[i].type = "protective"
          OBVIOUS
        <5> HIDE DEF one, source
        <5> QED
          BY <5>1
      <4>3. told = NamedAs(one, match, "mbr", 90, "mbr")
        <5>1. FirstEntries(one, MbrEntries) = one
          BY DEF FirstEntries, MbrEntries
        <5> HIDE DEF source, one
        <5> QED
          BY <1>1, <1>2, <3>2, <4>1, <5>1 DEF MbrVolumes, Named
      <4>4. DOMAIN match = {}
        BY <4>2
      <4> HIDE DEF match, one, told
      <4> QED
        BY <4>3, <4>4 DEF NamedAs, NoAccounts
    <3> QED
      BY <3>1, <3>2
  <2> HIDE DEF told
  <2> QED
    BY <1>4, <2>1, NothingTold DEF told, source
<1> QED
  BY <1>3, <1>4

\* What a GPT header tells, where one is.
LEMMA GptTells ==
    ASSUME NEW disk, IsPartitioned(disk), NEW at \in {1, disk.size - 1}, NEW confidence, NEW method
    PROVE  LET told == GptVolumes(SourceOf(disk), at, confidence, method)
               left == disk.scheme = "gpt" /\ (IF at = 1 THEN "gpt" ELSE "backup") \notin disk.damage
           IN  TruthOf(disk, told) /\ StartsTold(told) = IF left THEN VolumeStarts(disk) ELSE {}
<1> DEFINE source == SourceOf(disk)
           told == GptVolumes(source, at, confidence, method)
           left == disk.scheme = "gpt" /\ (IF at = 1 THEN "gpt" ELSE "backup") \notin disk.damage
           unused == {"empty"}
           entries == EntriesOf(disk)
           headers == (IF disk.scheme = "gpt" /\ "gpt" \notin disk.damage THEN {1} ELSE {})
                      \cup (IF disk.scheme = "gpt" /\ "backup" \notin disk.damage THEN {disk.size - 1} ELSE {})
<1>1. disk.size \in Nat /\ disk.size > 3 /\ source.size = disk.size /\ source.bad = {} /\ DOMAIN source.gpt = headers
  BY SourceIs, VolumesAre
<1>2. at \in headers <=> left
  BY <1>1
<1>3. CASE left /\ DOMAIN disk.volumes # {}
  <2>1. /\ source.gpt[at].usable = TRUE /\ source.gpt[at].entries = entries
        /\ source.gpt[at].entriesAt = EntriesAt(disk, at)
    BY <1>2, <1>3, SourceIs
  <2>2. entries # <<>>
    <3>1. DOMAIN entries # DOMAIN <<>>
      BY <1>3 DEF EntriesOf
    <3> HIDE DEF entries
    <3> QED
      BY <3>1
  <2>3. Reads(source, at, 1) /\ Reads(source, source.gpt[at].entriesAt, EntrySectors(Len(entries)))
    <3>1. PICK count \in Nat : count = EntrySectors(Len(disk.volumes)) /\ disk.size > 3 + 2 * count
      BY TablesFit
    <3>2. EntrySectors(Len(entries)) = count
      BY <3>1, EntriesAreRead
    <3> DEFINE where == source.gpt[at].entriesAt
    <3>3. where \in Nat /\ where + count <= source.size /\ at + 1 <= source.size
      BY <1>1, <2>1, <3>1 DEF EntriesAt
    <3> HIDE DEF where, source, entries
    <3>4. Reads(source, at, 1) /\ Reads(source, where, count)
      BY <1>1, <3>1, <3>3 DEF Reads
    <3> QED
      BY <3>2, <3>4 DEF where
  <2>4. told = Named(source, entries, unused, "gpt", confidence, method)
    <3>1. FirstEntries(entries, GptEntries) = entries
      BY <1>3, EntriesAreRead
    <3> HIDE DEF source, entries, unused, headers, left
    <3> QED
      BY <1>1, <1>2, <1>3, <2>1, <2>2, <2>3, <3>1 DEF GptVolumes, unused
  <2>5. /\ TruthOf(disk, Named(source, entries, unused, disk.scheme, confidence, method))
        /\ StartsTold(Named(source, entries, unused, disk.scheme, confidence, method)) = VolumeStarts(disk)
    BY NamedIs
  <2> HIDE DEF entries, source, unused, told
  <2> QED
    BY <1>3, <2>4, <2>5 DEF told, source
<1>4. CASE ~(left /\ DOMAIN disk.volumes # {})
  <2>1. told = NoAccounts
    <3>1. CASE ~left
      <4>1. at \notin DOMAIN source.gpt
        BY <1>1, <1>2, <3>1
      <4> HIDE DEF source
      <4> QED
        BY <4>1 DEF GptVolumes
    <3>2. CASE left /\ DOMAIN disk.volumes = {}
      <4>1. source.gpt[at].entries = entries
        BY <1>2, <3>2, SourceIs
      <4>2. entries = <<>>
        <5> DEFINE Entry(i) == [start |-> StartOf(disk, i), sectors |-> disk.volumes[i].sectors, type |-> disk.volumes[i].type]
        <5>1. entries = [i \in {} |-> Entry(i)]
          BY <3>2 DEF EntriesOf, StartOf
        <5> HIDE DEF entries, Entry
        <5>2. [i \in {} |-> Entry(i)] = <<>>
          OBVIOUS
        <5> QED
          BY <5>1, <5>2
      <4> HIDE DEF source, entries
      <4> QED
        BY <4>1, <4>2 DEF GptVolumes
    <3> QED
      BY <1>4, <3>1, <3>2
  <2>2. DOMAIN told = {}
    <3> HIDE DEF told
    <3> QED
      BY <2>1 DEF NoAccounts
  <2>3. DOMAIN disk.volumes = {} => VolumeStarts(disk) = {}
    BY DEF VolumeStarts
  <2> HIDE DEF told, left
  <2>4. TruthOf(disk, told) /\ StartsTold(told) = IF left THEN VolumeStarts(disk) ELSE {}
    BY <1>4, <2>2, <2>3, NothingTold
  <2> QED
    BY <2>4 DEF told, source, left
<1> QED
  BY <1>3, <1>4

\* What the tables name.
LEMMA TablesTell ==
    ASSUME NEW disk, IsPartitioned(disk)
    PROVE  LET named == TableVolumes(SourceOf(disk))
           IN  MergedOf(disk, named) /\ DOMAIN named = IF Tabled(disk) THEN VolumeStarts(disk) ELSE {}
<1> DEFINE source == SourceOf(disk)
           mbr == MbrVolumes(source)
           gpt == GptVolumes(source, 1, 96, "gpt")
           backup == BackupVolumes(source)
           m1 == MergeVolumes(NoVolumes, mbr)
           m2 == MergeVolumes(m1, gpt)
           m3 == MergeVolumes(m2, backup)
<1>1. /\ disk.size \in Nat /\ disk.size > 3 /\ source.size = disk.size /\ source.known = disk.known
      /\ disk.scheme \in {"mbr", "gpt"}
  BY SourceIs, VolumesAre
<1>2. TruthOf(disk, mbr) /\ StartsTold(mbr) = IF disk.scheme = "mbr" /\ "mbr" \notin disk.damage THEN VolumeStarts(disk) ELSE {}
  BY MbrTells
<1>3. TruthOf(disk, gpt) /\ StartsTold(gpt) = IF disk.scheme = "gpt" /\ "gpt" \notin disk.damage THEN VolumeStarts(disk) ELSE {}
  BY GptTells
<1>4. /\ TruthOf(disk, backup)
      /\ StartsTold(backup) = IF disk.scheme = "gpt" /\ "backup" \notin disk.damage /\ disk.known THEN VolumeStarts(disk) ELSE {}
  <2>1. CASE disk.known
    <3>1. BackupHeader(source) = {disk.size - 1}
      BY <1>1, <2>1 DEF BackupHeader
    <3>2. (CHOOSE at \in {disk.size - 1} : TRUE) = disk.size - 1
      OBVIOUS
    <3>3. backup = GptVolumes(source, disk.size - 1, 92, "gpt-backup")
      <4> HIDE DEF source
      <4>1. {disk.size - 1} # {}
        OBVIOUS
      <4> QED
        BY <3>1, <3>2, <4>1 DEF BackupVolumes
    <3>4. disk.size - 1 # 1
      BY <1>1
    <3> DEFINE told == GptVolumes(source, disk.size - 1, 92, "gpt-backup")
    <3>5. /\ TruthOf(disk, told)
          /\ StartsTold(told) = IF disk.scheme = "gpt" /\ "backup" \notin disk.damage THEN VolumeStarts(disk) ELSE {}
      BY <3>4, GptTells
    <3> HIDE DEF told, backup
    <3> QED
      BY <2>1, <3>3, <3>5 DEF told
  <2>2. CASE ~disk.known
    <3>1. backup = NoAccounts
      <4> HIDE DEF source
      <4> QED
        BY <1>1, <2>2 DEF BackupVolumes, BackupHeader
    <3>2. DOMAIN backup = {}
      <4> HIDE DEF backup
      <4> QED
        BY <3>1 DEF NoAccounts
    <3> HIDE DEF backup
    <3> QED
      BY <2>2, <3>2, NothingTold
  <2> QED
    BY <2>1, <2>2
<1> HIDE DEF mbr, gpt, backup, source
<1>5. MergedOf(disk, NoVolumes) /\ DOMAIN NoVolumes = {}
  BY DEF MergedOf, NoVolumes
<1>6. MergedOf(disk, m1) /\ DOMAIN m1 = StartsTold(mbr)
  BY <1>2, <1>5, MergeIs, ZenonT(60) DEF StartsTold
<1> HIDE DEF m1
<1>7. MergedOf(disk, m2) /\ DOMAIN m2 = DOMAIN m1 \cup StartsTold(gpt)
  BY <1>3, <1>6, MergeIs DEF StartsTold
<1> HIDE DEF m2
<1>8. MergedOf(disk, m3) /\ DOMAIN m3 = DOMAIN m2 \cup StartsTold(backup)
  BY <1>4, <1>7, MergeIs, ZenonT(60) DEF StartsTold
<1>9. DOMAIN m3 = IF Tabled(disk) THEN VolumeStarts(disk) ELSE {}
  BY <1>1, <1>2, <1>3, <1>4, <1>6, <1>7, <1>8 DEF Tabled
<1>10. TableVolumes(source) = m3
  BY DEF TableVolumes, m1, m2, mbr, gpt, backup
<1> HIDE DEF m3
<1> QED
  BY <1>8, <1>9, <1>10 DEF source

\* The places of the boot signatures.
LEMMA ScanOffsetsAre ==
    ASSUME NEW disk, IsPartitioned(disk), MibSectors \in Nat \ {0}, ScanLimit \in Nat
    PROVE  /\ \A at \in ScanOffsets(SourceOf(disk)) :
                Checkable(disk, at) /\ at % MibSectors = 0 /\ at < ScanLimit
           /\ \A at \in 1..(disk.size - 1) :
                at % MibSectors = 0 /\ at < ScanLimit => at \in ScanOffsets(SourceOf(disk))
<1> DEFINE source == SourceOf(disk)
           end == IF source.known THEN Min({source.size, ScanLimit}) ELSE ScanLimit
           count == ScanLimit \div MibSectors
<1>1. source.size = disk.size /\ source.known = disk.known /\ disk.size \in Nat /\ disk.known \in BOOLEAN
  BY SourceIs, VolumesAre
<1>2. end \in Nat /\ end <= ScanLimit /\ \A at \in 1..(disk.size - 1) : at < ScanLimit => at < end
  <2>1. Min({disk.size, ScanLimit}) = IF disk.size <= ScanLimit THEN disk.size ELSE ScanLimit
    BY <1>1, MinOfTwo
  <2> HIDE DEF source
  <2> QED
    BY <1>1, <2>1
<1>3. ScanOffsets(source) = {k * MibSectors : k \in {k \in 1..count : k * MibSectors < end}}
  BY DEF ScanOffsets
<1>4. count \in Nat /\ ScanLimit % MibSectors \in 0..(MibSectors - 1)
      /\ ScanLimit = MibSectors * count + (ScanLimit % MibSectors)
  BY DivMod
<1> HIDE DEF source, end, count
<1>5. ASSUME NEW at \in ScanOffsets(source)
      PROVE  Checkable(disk, at) /\ at % MibSectors = 0 /\ at < ScanLimit
  <2>1. PICK k \in 1..count : k * MibSectors < end /\ at = k * MibSectors
    BY <1>3
  <2>2. k \in Nat /\ k * MibSectors \in Nat /\ k * MibSectors = MibSectors * k + 0 /\ 0 \in 0..(MibSectors - 1)
    BY <1>4
  <2>3. at \in Nat /\ at < ScanLimit
    <3> DEFINE y == k * MibSectors
    <3>1. y \in Nat /\ y < end /\ at = y
      BY <2>1, <2>2
    <3> HIDE DEF y
    <3> QED
      BY <1>2, <3>1
  <2>4. (MibSectors * k + 0) % MibSectors = 0
    BY <2>2, DivUnique
  <2>5. disk.known \/ at + 8 <= disk.size
    BY <2>1, <2>3, VolumesAre DEF count
  <2> QED
    BY <2>1, <2>2, <2>3, <2>4, <2>5 DEF Checkable
<1>6. ASSUME NEW at \in 1..(disk.size - 1), at % MibSectors = 0, at < ScanLimit
      PROVE  at \in ScanOffsets(source)
  <2> DEFINE k == at \div MibSectors
  <2>1. at \in Nat \ {0} /\ at < end
    BY <1>1, <1>2, <1>6
  <2>2. k \in Nat /\ at = MibSectors * k
    <3>1. k \in Nat /\ at % MibSectors \in 0..(MibSectors - 1) /\ at = MibSectors * k + (at % MibSectors)
      BY <2>1, DivMod
    <3> DEFINE y == MibSectors * k
    <3>2. y \in Nat /\ at = y + 0
      BY <1>6, <3>1
    <3> HIDE DEF y
    <3>3. at = y
      BY <3>2
    <3> QED
      BY <3>1, <3>3 DEF y
  <2> HIDE DEF k
  <2>3. k # 0 /\ k * MibSectors = at
    BY <2>1, <2>2
  <2>4. k <= count
    <3> SUFFICES ASSUME k >= count + 1 PROVE FALSE
      BY <1>4, <2>2
    <3>1. MibSectors * k >= MibSectors * (count + 1) /\ MibSectors * (count + 1) = MibSectors * count + MibSectors
      <4>1. count + 1 \in Nat
        BY <1>4
      <4> QED
        BY <1>4, <2>2, <4>1, ProductGrows
    <3> DEFINE y == MibSectors * count
    <3>2. y \in Nat /\ at >= y + MibSectors /\ ScanLimit = y + (ScanLimit % MibSectors)
      BY <1>4, <2>2, <3>1
    <3> HIDE DEF y
    <3> QED
      BY <1>4, <1>6, <3>2
  <2> QED
    BY <1>3, <1>4, <2>1, <2>2, <2>3, <2>4
<1> QED
  BY <1>5, <1>6 DEF source

\* The inspection finds every volume that a table names or whose header stands at
\* a place looked at, and no other.
LEMMA EveryVolumeIsFound ==
    ASSUME NEW disk, IsPartitioned(disk), MibSectors \in Nat \ {0}, ScanLimit \in Nat
    PROVE  FindsEveryVolume(disk.volumes, disk.size, disk.scheme, disk.known, disk.damage, disk.wiped)
<1> DEFINE source == SourceOf(disk)
           named == TableVolumes(source)
           places == ScanOffsets(source) \ DOMAIN named
           match == [at \in places |-> DetectBootSector(source, at)]
           found == {at \in places : match[at].fs # Unknown}
           told == [at \in found |-> Volume(at, match[at].sectors, match[at].fs, 74, "boot-signature")]
           all == MergeVolumes(named, told)
           listed == PotentialVolumes(source)
           Seen(i) == StartOf(disk, i) \notin disk.wiped /\ StartOf(disk, i) % MibSectors = 0 /\ StartOf(disk, i) < ScanLimit
<1>1. MergedOf(disk, named) /\ DOMAIN named = IF Tabled(disk) THEN VolumeStarts(disk) ELSE {}
  BY TablesTell
<1>2. \A at \in places : Checkable(disk, at) /\ at % MibSectors = 0 /\ at < ScanLimit
  BY ScanOffsetsAre
<1>3. ASSUME NEW at \in places
      PROVE  /\ match[at].ok = TRUE
             /\ match[at].fs # Unknown =>
                  \E i \in DOMAIN disk.volumes :
                    /\ StartOf(disk, i) = at /\ at \notin disk.wiped
                    /\ match[at].fs = disk.volumes[i].fs /\ match[at].sectors = disk.volumes[i].sectors
             /\ \A i \in DOMAIN disk.volumes : StartOf(disk, i) = at /\ at \notin disk.wiped => match[at].fs # Unknown
  <2>1. match[at] = DetectBootSector(source, at)
    OBVIOUS
  <2> HIDE DEF match
  <2>2. CASE \A i \in DOMAIN disk.volumes : StartOf(disk, i) = at => at \in disk.wiped
    <3>1. match[at] = NoMatch
      BY <1>2, <2>1, <2>2, DetectIs
    <3> QED
      BY <2>2, <3>1 DEF NoMatch
  <2>3. ASSUME NEW i \in DOMAIN disk.volumes, StartOf(disk, i) = at, at \notin disk.wiped
        PROVE  /\ match[at] = [ok |-> TRUE, fs |-> disk.volumes[i].fs, sectors |-> disk.volumes[i].sectors]
               /\ disk.volumes[i].fs # Unknown
    <3>1. match[at] = [ok |-> TRUE, fs |-> disk.volumes[i].fs, sectors |-> disk.volumes[i].sectors]
      BY <1>2, <2>1, <2>3, DetectIs
    <3>2. disk.volumes[i].fs \in FileSystems
      BY VolumesAre
    <3> QED
      BY <3>1, <3>2, ChecksAre DEF Unknown
  <2>4. CASE \E i \in DOMAIN disk.volumes : StartOf(disk, i) = at /\ at \notin disk.wiped
    <3>1. PICK i \in DOMAIN disk.volumes : StartOf(disk, i) = at /\ at \notin disk.wiped
      BY <2>4
    <3>2. match[at] = [ok |-> TRUE, fs |-> disk.volumes[i].fs, sectors |-> disk.volumes[i].sectors]
          /\ disk.volumes[i].fs # Unknown
      BY <2>3, <3>1
    <3> QED
      BY <3>1, <3>2
  <2> QED
    BY <2>2, <2>4
<1>4. DOMAIN match = places
  OBVIOUS
<1>5. listed = Listing(TRUE, all)
  <2>1. listed = WithSigned(named, match)
    BY DEF PotentialVolumes, SignedToo
  <2>2. ~\E at \in DOMAIN match : ~match[at].ok
    BY <1>3, <1>4
  <2> HIDE DEF match, named, listed
  <2> QED
    BY <1>4, <2>1, <2>2 DEF WithSigned
<1>6. TruthOf(disk, told) /\ StartsTold(told) = found
  <2>1. DOMAIN told = found /\ found \in SUBSET Nat
    <3>1. \A at \in places : at \in Nat
      BY <1>2 DEF Checkable
    <3> QED
      BY <3>1
  <2>2. \A at \in found : told[at].start = at
    BY DEF Volume
  <2>3. ASSUME NEW at \in found PROVE \E i \in DOMAIN disk.volumes : SaysOf(disk, told[at], i)
    <3>1. PICK i \in DOMAIN disk.volumes :
            /\ StartOf(disk, i) = at /\ at \notin disk.wiped
            /\ match[at].fs = disk.volumes[i].fs /\ match[at].sectors = disk.volumes[i].sectors
      <4> HIDE DEF match, places
      <4> QED
        BY <1>3
    <3> HIDE DEF match
    <3>2. told[at] = [start |-> at, sectors |-> match[at].sectors, fs |-> match[at].fs, confidence |-> 74,
                      methods |-> {"boot-signature"}]
      BY DEF Volume
    <3> HIDE DEF told
    <3>3. SaysOf(disk, told[at], i)
      BY <3>1, <3>2 DEF SaysOf, VolumeFields, TrueFs
    <3> QED
      BY <3>3
  <2> HIDE DEF told, found
  <2> QED
    BY <2>1, <2>2, <2>3 DEF TruthOf, StartsTold
<1> HIDE DEF told
<1>7. MergedOf(disk, all) /\ DOMAIN all = DOMAIN named \cup found
  <2> HIDE DEF named, found
  <2> QED
    BY <1>1, <1>6, MergeIs DEF StartsTold
<1> HIDE DEF all
<1>8. ASSUME ~Tabled(disk), NEW i \in DOMAIN disk.volumes PROVE StartOf(disk, i) \in found <=> Seen(i)
  <2> DEFINE at == StartOf(disk, i)
  <2>1. DOMAIN named = {}
    BY <1>1, <1>8
  <2>2. at \in 1..(disk.size - 1)
    <3> DEFINE n == disk.volumes[i].sectors
    <3>1. at \in Nat \ {0} /\ n \in Nat \ {0} /\ at + n <= disk.size /\ disk.size \in Nat
      BY VolumesAre
    <3> HIDE DEF at, n
    <3> QED
      BY <3>1
  <2>3. at \in places <=> at % MibSectors = 0 /\ at < ScanLimit
    <3> HIDE DEF named, at
    <3> QED
      BY <1>2, <2>1, <2>2, ScanOffsetsAre
  <2>4. at \in places => (match[at].fs # Unknown <=> at \notin disk.wiped)
    <3> HIDE DEF match, places
    <3> QED
      BY <1>3, VolumesAre
  <2> HIDE DEF match, places
  <2> QED
    BY <2>3, <2>4
<1>9. found \in SUBSET VolumeStarts(disk)
  <2> HIDE DEF match, places
  <2> QED
    BY <1>3 DEF VolumeStarts
<1> HIDE DEF found, named
<1>10. DOMAIN all = {StartOf(disk, i) : i \in {i \in DOMAIN disk.volumes : Tabled(disk) \/ Seen(i)}}
  <2>1. CASE Tabled(disk)
    BY <1>1, <1>7, <1>9, <2>1 DEF VolumeStarts
  <2>2. CASE ~Tabled(disk)
    <3>1. DOMAIN all = found
      BY <1>1, <1>7, <2>2
    <3> HIDE DEF Seen
    <3> QED
      BY <1>8, <1>9, <2>2, <3>1 DEF VolumeStarts
  <2> QED
    BY <2>1, <2>2
<1>11. \A i \in DOMAIN disk.volumes : StartOf(disk, i) \in DOMAIN all =>
         /\ all[StartOf(disk, i)].sectors = disk.volumes[i].sectors
         /\ all[StartOf(disk, i)].fs = TrueFs(disk, i)
  BY <1>7, VolumesAre DEF MergedOf, SaysOf
<1>12. listed.ok = TRUE /\ listed.volumes = all
  <2> HIDE DEF listed
  <2> QED
    BY <1>5 DEF Listing
<1> HIDE DEF listed
<1> DEFINE Header(v) == v.start \notin disk.wiped
           Kept(v) == Tabled(disk) \/ (Header(v) /\ v.start % MibSectors = 0 /\ v.start < ScanLimit)
           kept == {v \in Range(disk.volumes) : Kept(v)}
<1>13. \A v \in kept : \E i \in DOMAIN disk.volumes : v = disk.volumes[i] /\ (Tabled(disk) \/ Seen(i))
  BY DEF Range, StartOf
<1>14. \A i \in DOMAIN disk.volumes : Tabled(disk) \/ Seen(i) => disk.volumes[i] \in kept
  BY DEF Range, StartOf
<1> HIDE DEF kept, Seen
<1>15. DOMAIN listed.volumes = {v.start : v \in kept}
  BY <1>10, <1>12, <1>13, <1>14 DEF StartOf
<1>16. ASSUME NEW v \in kept
       PROVE  /\ listed.volumes[v.start].sectors = v.sectors
              /\ listed.volumes[v.start].fs = IF Header(v) THEN v.fs ELSE FilesystemFromType(disk.scheme, v.type)
  <2>1. PICK i \in DOMAIN disk.volumes : v = disk.volumes[i] /\ (Tabled(disk) \/ Seen(i))
    BY <1>13
  <2>2. StartOf(disk, i) \in DOMAIN all /\ v.start = StartOf(disk, i)
    BY <1>10, <2>1 DEF StartOf
  <2> QED
    BY <1>11, <1>12, <2>1, <2>2 DEF TrueFs
<1> QED
  BY <1>12, <1>15, <1>16 DEF FindsEveryVolume, ListsVolumes, Tabled, source, listed, kept, SourceOf

PartitionsInv == reader = "partitions" /\ input # NoInput => input \in SourceDisks

(* Of any partitioned disk, with its tables whole or damaged and any of    *)
(* its headers gone, the inspection lists every volume that a table or a   *)
(* header at a place looked at still tells of, and nothing else            *)
(* (inspect_potential_volumes, merge_volume).                              *)
THEOREM VolumesAreAlwaysFound == ReaderSpec => []VolumesAreFound
<1>1. ReaderInit => PartitionsInv
  BY DEF ReaderInit, PartitionsInv
<1>2. PartitionsInv /\ [ReaderNext]_readerVars => PartitionsInv'
  BY DEF PartitionsInv, ReaderNext, Chooses, readerVars
<1>3. PartitionsInv => VolumesAreFound
  BY SourceDiskAssumption, EveryVolumeIsFound DEF PartitionsInv, VolumesAreFound, Chosen
<1> QED
  BY <1>1, <1>2, <1>3, PTL DEF ReaderSpec
=============================================================================
