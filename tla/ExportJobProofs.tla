---------------------------- MODULE ExportJobProofs ----------------------------
(***************************************************************************)
(* What an export keeps, delivers and reports, proved for any results,     *)
(* selections, destinations and number of other programs' files.           *)
(***************************************************************************)
EXTENDS ExportJob, ListLemmas

Streams == UNION {Range(Results[id].streams) : id \in DOMAIN Results}
PartNames == {"main", "fork"} \cup Streams
Files == DOMAIN Results

Paths ==
    [dir : {RelativeDir(Results[id].path) : id \in Files} \cup {<<>>},
     name : {SafeName[Results[id].name] : id \in Files} \cup {"MANIFEST.json"},
     copy : Nat,
     side : {"main", "fork"} \cup {SafeName[s] : s \in Streams},
     n : Nat]

Contents ==
    [file : Files \cup {"user", "manifest"}, part : PartNames \cup {"file", "dir", "document"},
     whole : BOOLEAN]

Entries == [index : Nat, path : Paths, content : Contents]

Ending == {"ExportCompleted", "ExportFailed"}
Events == Ending \cup {"ExportStarted", "AuditExported"}

\* The places where the worker is busy with file number at, and those where it
\* is about to write a path.
FilePlaces == {"target", "copy", "check", "rename", "verify", "entries"}
WritePlaces == {"copy", "check", "rename"}
Places == FilePlaces \cup {"prepare", "next", "clean", "manifest", "publish", "finish",
                                  "done"}

TypeOK ==
    /\ job \in Seq(Files) /\ Len(job) <= MaxFiles
    /\ options \in [strategy : Strategies, preserve : BOOLEAN, verify : BOOLEAN]
    /\ IsFiniteSet(DOMAIN dest) /\ \A p \in DOMAIN dest : dest[p] \in Contents
    /\ temp \in {"none", "partial", "whole"} /\ strays \in Nat
    /\ place \in Places
    /\ at \in 1 .. Len(job) + 1
    /\ made \in Seq(Paths)
    /\ errors \in Seq(Nat) /\ exported \in Nat /\ stamped \in BOOLEAN
    /\ status \in {"preparing", "exporting", "verifying", "completed", "error"}
    /\ manifest \in Seq(Entries)
    /\ marked \in BOOLEAN /\ trail \in Seq(Events)

\* What the place of the worker says of its other variables.
PlaceOK ==
    /\ place \in FilePlaces => at <= Len(job) /\ Len(made) <= Len(Parts)
    /\ place \in WritePlaces => target \in Paths /\ Len(made) < Len(Parts)
    /\ place \in {"check", "rename", "publish"} => temp = "whole"
    /\ place \in {"verify", "entries"} => made # <<>> /\ Len(made) = Len(Parts)
    /\ place \in {"prepare", "next", "manifest", "publish", "finish"} => made = <<>>
    /\ place = "clean" => at <= Len(job) /\ doomed \subseteq Range(made)
    /\ place \in {"manifest", "publish", "finish"} => at = Len(job) + 1
    /\ place \in {"manifest", "publish"} => manifest # <<>> /\ target = ManifestPath
    /\ place = "prepare" => at = 1 /\ errors = <<>> /\ manifest = <<>> /\ exported = 0
    /\ stamped => place = "done" /\ made = <<>>

\* The files that stood in the destination are there, and no path that is
\* written or will be removed is theirs.
UserPaths == DOMAIN Occupied \ {ManifestPath}

UsersInv ==
    options.strategy # "overwrite" =>
        /\ \A p \in UserPaths : Exists(p) /\ dest[p] = Occupied[p]
        /\ \A k \in 1 .. Len(made) : made[k] \notin UserPaths
        /\ place \in WritePlaces => target \notin UserPaths

\* What has an entry is there, what is written for the current file is that
\* file until it is given up, and nothing that is written or removed has an entry.
Listed == {e.path : e \in Range(manifest)} \ {ManifestPath}

EntryOK(e) ==
    /\ e.content.file = job[e.index]
    /\ e.path # ManifestPath => Exists(e.path) /\ dest[e.path] = e.content

ListedInv ==
    options.strategy # "overwrite" =>
        /\ \A e \in Range(manifest) : EntryOK(e)
        /\ \A k \in 1 .. Len(made) : made[k] \notin Listed
        /\ place \notin {"clean", "done"} =>
              \A k \in 1 .. Len(made) : Exists(made[k]) /\ dest[made[k]].file = job[at]
        /\ place \in WritePlaces => target \notin Listed

\* The files before the current one are in the manifest or in the errors.
Indexes == {e.index : e \in Range(manifest)}

IndexInv ==
    /\ exported = Cardinality(Indexes)
    /\ Indexes \subseteq 1 .. at - 1
    /\ 1 .. at - 1 \subseteq Indexes \cup Range(errors)
    /\ Range(errors) \subseteq 0 .. at - 1 \cup {ManifestError}
    /\ place # "done" => SessionError \notin Range(errors)
    /\ ManifestError \in Range(errors) => manifest # <<>>

\* Artifacts that matter are in the manifest, written for the current file and not yet
\* removed, or could not be removed; and the side of a path tells which part is there.
Main == {"main", "fork"}
Artifact(p) == dest[p].file \in Files /\ dest[p].part \in Main

Pending == IF place = "clean" THEN doomed ELSE Range(made)

OwnedInv ==
    /\ \A p \in DOMAIN dest : Artifact(p) =>
          /\ p.side = dest[p].part
          /\ p \in Pending \cup unremoved \/ \E e \in Range(manifest) : e.path = p
    /\ \A k \in 1 .. Len(made) : Parts[k] \notin Main => made[k].side \notin Main
    /\ place \in WritePlaces => IF Part \in Main THEN target.side = Part ELSE target.side \notin Main

\* Every temporary file that was left has its error, but for that of the file that is
\* being given up.
StraysInv ==
    /\ place = "clean" => strays <= Len(errors) + 1
    /\ place # "clean" /\ (place # "done" \/ stamped) => strays <= Len(errors)

-----------------------------------------------------------------------------
(* The operators *)

LEMMA RangeOfConcat ==
    ASSUME NEW S, NEW s \in Seq(S), NEW t \in Seq(S)
    PROVE  Range(s \o t) = Range(s) \cup Range(t)
<1>1. /\ Len(s) \in Nat /\ Len(t) \in Nat /\ Len(s \o t) = Len(s) + Len(t)
      /\ DOMAIN s = 1 .. Len(s) /\ DOMAIN t = 1 .. Len(t)
      /\ DOMAIN (s \o t) = 1 .. Len(s) + Len(t)
    OBVIOUS
<1>2. \A i \in 1 .. Len(s) : i \in 1 .. Len(s) + Len(t) /\ (s \o t)[i] = s[i]
    BY <1>1
<1>3. \A i \in 1 .. Len(t) : Len(s) + i \in 1 .. Len(s) + Len(t) /\ (s \o t)[Len(s) + i] = t[i]
    BY <1>1
<1>4. \A i \in 1 .. Len(s) + Len(t) :
          i \in 1 .. Len(s) \/ (i - Len(s) \in 1 .. Len(t) /\ (s \o t)[i] = t[i - Len(s)])
    BY <1>1
<1> DEFINE c == s \o t
<1>5. \A x \in Range(c) : x \in Range(s) \cup Range(t)
    BY <1>1, <1>2, <1>4 DEF Range
<1>6. \A x \in Range(s) \cup Range(t) : x \in Range(c)
    BY <1>1, <1>2, <1>3 DEF Range
<1> QED
    BY <1>5, <1>6

LEMMA RangeOfAppend ==
    ASSUME NEW S, NEW s \in Seq(S), NEW x \in S
    PROVE  Range(Append(s, x)) = Range(s) \cup {x}
<1>1. /\ Len(s) \in Nat /\ DOMAIN s = 1 .. Len(s)
      /\ DOMAIN Append(s, x) = 1 .. Len(s) + 1
      /\ \A i \in 1 .. Len(s) : Append(s, x)[i] = s[i]
      /\ Append(s, x)[Len(s) + 1] = x
    OBVIOUS
<1> DEFINE a == Append(s, x)
<1>2. \A i \in 1 .. Len(s) + 1 : i \in 1 .. Len(s) \/ i = Len(s) + 1
    BY <1>1
<1>3. \A i \in 1 .. Len(s) : i \in 1 .. Len(s) + 1
    BY <1>1
<1>4. Len(s) + 1 \in 1 .. Len(s) + 1
    BY <1>1
<1>5. \A y \in Range(a) : y \in Range(s) \cup {x}
    BY <1>1, <1>2 DEF Range
<1>6. \A y \in Range(s) \cup {x} : y \in Range(a)
    BY <1>1, <1>3, <1>4 DEF Range
<1> QED
    BY <1>5, <1>6

LEMMA EmptyRange ==
    ASSUME NEW S, NEW s \in Seq(S)
    PROVE  Range(s) = {} <=> s = <<>>
<1>1. Len(s) \in Nat /\ DOMAIN s = 1 .. Len(s) /\ (s = <<>> <=> Len(s) = 0)
    OBVIOUS
<1>2. Len(s) # 0 => 1 \in DOMAIN s
    BY <1>1
<1>3. Len(s) = 0 => DOMAIN s = {}
    BY <1>1
<1> QED
    BY <1>1, <1>2, <1>3 DEF Range

\* A file has its main part first, then its fork, then its streams.
LEMMA PartsOfFile ==
    ASSUME job \in Seq(Files), at \in 1 .. Len(job)
    PROVE  /\ File \in {Results[id] : id \in Files} /\ job[at] \in Files
           /\ Parts \in Seq(PartNames) /\ Len(Parts) > 0 /\ Parts[1] = "main"
           /\ \A k \in 1 .. Len(Parts) :
                 \/ k = 1
                 \/ Parts[k] = "fork"
                 \/ Parts[k] \in Streams
<1>1. job[at] \in Files /\ File = Results[job[at]]
    BY DEF File
<1> DEFINE streams == File.streams
           fork == IF File.fork THEN <<"fork">> ELSE <<>>
<1>2. streams \in Seq(Range(streams)) /\ Range(streams) \subseteq Streams
    BY <1>1, ExportJobAssumption DEF Streams, Files
<1>3. streams \in Seq(Streams)
    <2>1. Len(streams) \in Nat /\ streams \in [1 .. Len(streams) -> Range(streams)]
        BY <1>2
    <2> HIDE DEF streams
    <2> QED
        BY <1>2, <2>1
<1>4. Parts = <<"main">> \o fork \o streams
    BY DEF Parts
<1>5. fork \in Seq({"fork"}) /\ Len(fork) \in Nat
    <2>1. fork = <<>> \/ fork = <<"fork">>
        OBVIOUS
    <2>2. <<>> \in Seq({"fork"}) /\ <<"fork">> \in Seq({"fork"})
        OBVIOUS
    <2> HIDE DEF fork
    <2> QED
        BY <2>1, <2>2
<1> HIDE DEF streams, fork
<1>6. <<"main">> \o fork \in Seq(PartNames) /\ Len(<<"main">> \o fork) = 1 + Len(fork)
    BY <1>5 DEF PartNames
<1>7. streams \in Seq(PartNames)
    BY <1>3 DEF PartNames
<1>8. /\ Parts \in Seq(PartNames) /\ Len(Parts) = 1 + Len(fork) + Len(streams)
    BY <1>4, <1>5, <1>6, <1>7
<1>9. \A k \in 1 .. Len(Parts) : \/ k = 1 /\ Parts[k] = "main"
                                 \/ Parts[k] = "fork"
                                 \/ Parts[k] \in Streams
    <2> SUFFICES ASSUME NEW k \in 1 .. Len(Parts)
                 PROVE  \/ k = 1 /\ Parts[k] = "main"
                        \/ Parts[k] = "fork"
                        \/ Parts[k] \in Streams
        OBVIOUS
    <2> DEFINE head == <<"main">> \o fork
    <2>1. Parts = head \o streams /\ head \in Seq(PartNames) /\ Len(head) = 1 + Len(fork)
        BY <1>4, <1>6
    <2>2. \A i \in 1 .. Len(head) : head[i] = IF i = 1 THEN "main" ELSE fork[i - 1]
        BY <1>5
    <2> HIDE DEF head
    <2>3. CASE k <= Len(head)
        <3>1. Parts[k] = head[k]
            BY <1>7, <2>1, <2>3
        <3>2. k = 1 \/ k - 1 \in 1 .. Len(fork)
            BY <1>5, <2>1, <2>3
        <3>3. \A i \in 1 .. Len(fork) : fork[i] = "fork"
            BY <1>5
        <3> QED
            BY <1>5, <2>1, <2>2, <2>3, <3>1, <3>2, <3>3
    <2>4. CASE k > Len(head)
        <3>1. Len(streams) \in Nat /\ Len(head) \in Nat /\ k - Len(head) \in 1 .. Len(streams)
            BY <1>3, <1>5, <1>8, <2>1, <2>4
        <3>2. Parts[k] = streams[k - Len(head)]
            BY <1>7, <2>1, <2>4, <3>1
        <3> QED
            BY <1>3, <3>1, <3>2
    <2> QED
        BY <1>5, <2>1, <2>3, <2>4
<1>10. Len(Parts) > 0
    BY <1>3, <1>5, <1>8
<1>11. Parts[1] = "main"
    <2>1. 1 \in 1 .. Len(Parts)
        BY <1>8, <1>10
    <2>2. Parts[1] = "main"
        BY <1>4, <1>5, <1>7
    <2> QED
        BY <2>2
<1> QED
    BY <1>1, <1>8, <1>9, <1>10, <1>11

\* A number that is free is found, and it gives a path of the same side.
LEMMA UniqueIsFree ==
    ASSUME NEW p \in Paths, IsFiniteSet(DOMAIN dest)
    PROVE  /\ UniqueTargetPath(p) \in Paths /\ ~Exists(UniqueTargetPath(p))
           /\ UniqueTargetPath(p).side = p.side
<1> DEFINE count == Cardinality(DOMAIN dest)
           free == {k \in 1 .. count + 1 : ~Exists(Numbered(p, k))}
<1>1. count \in Nat
    BY FS_CardinalityType
<1>2. \A k \in Nat : /\ Numbered(p, k) \in Paths /\ Numbered(p, k).side = p.side
                     /\ k = IF p.side = "main" THEN Numbered(p, k).copy ELSE Numbered(p, k).n
    BY DEF Numbered, Paths
<1> HIDE DEF count
<1>3. free # {}
    <2> SUFFICES ASSUME free = {} PROVE FALSE
        OBVIOUS
    <2> DEFINE f == [k \in 1 .. count + 1 |-> Numbered(p, k)]
    <2>1. \A k \in 1 .. count + 1 : f[k] = Numbered(p, k) /\ f[k] \in DOMAIN dest
        BY DEF Exists
    <2>2. f \in [1 .. count + 1 -> DOMAIN dest]
        BY <2>1
    <2>3. \A i, j \in 1 .. count + 1 : f[i] = f[j] => i = j
        BY <1>1, <1>2, <2>1
    <2> HIDE DEF f
    <2>4. f \in Injection(1 .. count + 1, DOMAIN dest)
        BY <2>2, <2>3 DEF Injection, IsInjective
    <2>5. Cardinality(1 .. count + 1) <= count
        BY <2>4, FS_Injection DEF count
    <2>6. Cardinality(1 .. count + 1) = count + 1
        BY <1>1, FS_Interval
    <2> QED
        BY <1>1, <2>5, <2>6
<1>4. PICK k \in free : \A j \in free : k <= j
    <2>1. free \in SUBSET Nat
        BY <1>1
    <2> HIDE DEF free
    <2> QED
        BY <1>3, <2>1, LeastNumber
<1>5. /\ k \in 1 .. count + 1 /\ ~Exists(Numbered(p, k))
      /\ \A j \in 1 .. k - 1 : Exists(Numbered(p, j))
    <2>1. k \in 1 .. count + 1 /\ ~Exists(Numbered(p, k))
        OBVIOUS
    <2>2. \A j \in 1 .. k - 1 : j \in 1 .. count + 1 /\ ~(k <= j)
        BY <1>1, <2>1
    <2>3. \A j \in 1 .. k - 1 : j \notin free
        BY <1>4, <2>2
    <2> QED
        BY <2>1, <2>2, <2>3
<1> DEFINE first == CHOOSE i \in 1 .. count + 1 :
                      /\ ~Exists(Numbered(p, i))
                      /\ \A j \in 1 .. i - 1 : Exists(Numbered(p, j))
<1>6. first \in 1 .. count + 1 /\ ~Exists(Numbered(p, first))
    BY <1>5
<1>7. UniqueTargetPath(p) = Numbered(p, first)
    BY DEF UniqueTargetPath, count
<1> HIDE DEF first
<1>8. first \in Nat
    BY <1>1, <1>6
<1> QED
    BY <1>2, <1>6, <1>7, <1>8

\* The path a part is written to: of its side, and free unless existing files
\* may be replaced.
LEMMA ResolvedPath ==
    ASSUME NEW p \in Paths, IsFiniteSet(DOMAIN dest), options.strategy \in Strategies,
           NEW q \in ResolveTargetPath(p)
    PROVE  /\ q \in Paths /\ q.side = p.side
           /\ options.strategy # "overwrite" => ~Exists(q)
<1>1. options.strategy \in {"rename", "skip", "overwrite"}
    BY ExportJobAssumption
<1> QED
    BY <1>1, UniqueIsFree DEF ResolveTargetPath

\* What a part is asked to be named.
LEMMA RequestedPath ==
    ASSUME TypeOK, at <= Len(job), Len(made) < Len(Parts)
    PROVE  /\ Requested \in Paths
           /\ Part \in PartNames
           /\ Part \in {"main", "fork"} => Requested.side = Part
           /\ Part \notin {"main", "fork"} => Requested.side \notin {"main", "fork"}
<1>1. /\ made \in Seq(Paths) /\ Len(made) \in Nat /\ at \in 1 .. Len(job) /\ job \in Seq(Files)
    BY DEF TypeOK
<1>2. /\ File \in {Results[id] : id \in Files}
      /\ Parts \in Seq(PartNames) /\ Len(Parts) > 0 /\ Parts[1] = "main"
      /\ \A k \in 1 .. Len(Parts) : k = 1 \/ Parts[k] = "fork" \/ Parts[k] \in Streams
    BY <1>1, PartsOfFile
<1>3. \A s \in Streams : s \notin {"main", "fork"} /\ SafeName[s] \notin {"main", "fork"}
    BY ExportJobAssumption DEF Streams
<1>4. Len(made) + 1 \in 1 .. Len(Parts) /\ Part = Parts[Len(made) + 1]
    BY <1>1, <1>2 DEF Part
<1>5. Part \in PartNames
    BY <1>2, <1>4
<1>6. CASE made = <<>>
    <2>1. Requested = RequestedTarget /\ Part = "main"
        BY <1>2, <1>4, <1>6 DEF Requested
    <2>2. PICK id \in Files : File = Results[id]
        BY <1>2
    <2>3. RequestedTarget \in Paths /\ RequestedTarget.side = "main"
        BY <2>2 DEF RequestedTarget, Paths
    <2> QED
        BY <1>5, <2>1, <2>3
<1>7. CASE made # <<>>
    <2>1. made[1] \in Paths /\ Len(made) # 0
        BY <1>1, <1>7
    <2>2. Part = "fork" \/ Part \in Streams
        BY <1>1, <1>2, <1>4, <2>1
    <2> DEFINE side == IF Part = "fork" THEN "fork" ELSE SafeName[Part]
    <2>3. side \in {"main", "fork"} \cup {SafeName[s] : s \in Streams}
        BY <2>2
    <2>4. Requested = [made[1] EXCEPT !.side = side]
        BY <1>7 DEF Requested, SidecarPath
    <2>5. side = IF Part = "fork" THEN "fork" ELSE SafeName[Part]
        OBVIOUS
    <2> HIDE DEF side
    <2>6. Requested \in Paths /\ Requested.side = side
        BY <2>1, <2>3, <2>4 DEF Paths
    <2> QED
        BY <1>3, <1>5, <2>2, <2>5, <2>6
<1> QED
    BY <1>6, <1>7

\* Putting a file, and taking files away.
LEMMA PutMakes ==
    ASSUME NEW p, NEW content, IsFiniteSet(DOMAIN dest)
    PROVE  /\ DOMAIN Put(p, content) = DOMAIN dest \cup {p}
           /\ IsFiniteSet(DOMAIN Put(p, content))
           /\ \A q \in DOMAIN dest \cup {p} :
                 Put(p, content)[q] = IF q = p THEN content ELSE dest[q]
<1>1. DOMAIN Put(p, content) = DOMAIN dest \cup {p}
    BY DEF Put
<1>2. IsFiniteSet(DOMAIN dest \cup {p})
    BY FS_AddElement
<1> QED
    BY <1>1, <1>2 DEF Put

LEMMA WithoutMakes ==
    ASSUME NEW gone, IsFiniteSet(DOMAIN dest)
    PROVE  /\ DOMAIN Without(gone) = DOMAIN dest \ gone
           /\ IsFiniteSet(DOMAIN Without(gone))
           /\ \A q \in DOMAIN dest \ gone : Without(gone)[q] = dest[q]
<1>1. DOMAIN Without(gone) = DOMAIN dest \ gone
    BY DEF Without
<1>2. IsFiniteSet(DOMAIN dest \ gone)
    BY FS_Subset
<1> QED
    BY <1>1, <1>2 DEF Without

-----------------------------------------------------------------------------
(* Types *)

LEMMA Lengths ==
    ASSUME TypeOK
    PROVE  /\ Len(job) \in Nat /\ Len(made) \in Nat /\ at \in 1 .. Len(job) + 1
           /\ at <= Len(job) => /\ Len(Parts) \in Nat /\ Len(Parts) > 0
                               /\ job[at] \in Files
<1>1. Len(job) \in Nat /\ Len(made) \in Nat /\ at \in 1 .. Len(job) + 1 /\ job \in Seq(Files)
    BY DEF TypeOK
<1>2. ASSUME at <= Len(job)
      PROVE  Len(Parts) \in Nat /\ Len(Parts) > 0 /\ job[at] \in Files
    BY <1>1, <1>2, PartsOfFile
<1> QED
    BY <1>1, <1>2

\* Emitting the terminal event keeps the trail a list of events.
LEMMA AuditTypes ==
    ASSUME TypeOK, NEW s, EmitTerminalAudit(s)
    PROVE  marked' \in BOOLEAN /\ trail' \in Seq(Events)
<1>1. TerminalEvent(s) \in Events
    BY DEF TerminalEvent, Events, Ending
<1>2. marked \in BOOLEAN /\ trail \in Seq(Events)
    BY DEF TypeOK
<1>3. CASE marked' = TRUE /\ trail' = Append(trail, TerminalEvent(s))
    <2>1. trail' \in Seq(Events)
        BY <1>1, <1>2, <1>3
    <2> QED
        BY <1>3, <2>1
<1>4. CASE UNCHANGED <<marked, trail>>
    BY <1>2, <1>4
<1> QED
    BY <1>3, <1>4, Zenon DEF EmitTerminalAudit

\* The files the worker puts and removes, and what is left, are as they should be.
LEMMA DestTypes ==
    ASSUME TypeOK
    PROVE  /\ ManifestPath \in Paths
           /\ \A gone : /\ IsFiniteSet(DOMAIN Without(gone))
                       /\ \A p \in DOMAIN Without(gone) : Without(gone)[p] \in Contents
           /\ \A p, content : content \in Contents =>
                 /\ IsFiniteSet(DOMAIN Put(p, content))
                 /\ \A q \in DOMAIN Put(p, content) : Put(p, content)[q] \in Contents
<1>1. IsFiniteSet(DOMAIN dest) /\ \A p \in DOMAIN dest : dest[p] \in Contents
    BY DEF TypeOK
<1>2. ManifestPath \in Paths
    BY DEF ManifestPath, Paths
<1>3. \A gone : /\ IsFiniteSet(DOMAIN Without(gone))
                /\ \A p \in DOMAIN Without(gone) : Without(gone)[p] \in Contents
    BY <1>1, WithoutMakes
<1>4. ASSUME NEW p, NEW content, content \in Contents
      PROVE  /\ IsFiniteSet(DOMAIN Put(p, content))
             /\ \A q \in DOMAIN Put(p, content) : Put(p, content)[q] \in Contents
    <2>1. /\ DOMAIN Put(p, content) = DOMAIN dest \cup {p} /\ IsFiniteSet(DOMAIN Put(p, content))
          /\ \A q \in DOMAIN dest \cup {p} :
                Put(p, content)[q] = IF q = p THEN content ELSE dest[q]
        BY <1>1, PutMakes, Zenon
    <2> QED
        BY <1>1, <1>4, <2>1
<1> QED
    BY <1>2, <1>3, <1>4

\* The worker's own steps that leave the files before the current one alone.
Quiet ==
    /\ UNCHANGED <<dest, strays, job, options, at, made, stamped, exported, errors, manifest>>
    /\ place' \in WritePlaces => place \in WritePlaces /\ target' = target
    /\ place = "done" <=> place' = "done"
    /\ place = "clean" <=> place' = "clean"
    /\ UNCHANGED cleaning

QuietStep ==
    \/ PrepareDestination \/ StartFile \/ BeginCopy \/ EndCopy
    \/ BeginVerify \/ VerifySucceeds
    \/ BeginManifest \/ SkipManifest \/ WriteManifest

GiveUpStep ==
    /\ place \in FilePlaces /\ strays' \in {strays, strays + 1} /\ temp' \in {temp, "none"}
    /\ GiveUp({}) \/ GiveUp(LostPaths)

FailStep == PrepareFails \/ WriteManifestFails \/ PublishManifestFails \/ FinishExport \/ Crash

\* What the worker and the others can do, as the proofs divide it.
LEMMA Steps ==
    ASSUME TypeOK, PlaceOK, Next
    PROVE  \/ QuietStep \/ ResolveTarget \/ CheckTarget \/ CheckManifest
           \/ RenameTarget \/ PublishManifest \/ ForeignWrite
           \/ GiveUpStep \/ RemovePart \/ Refuse \/ AddManifestEntries \/ FailStep
<1>1. CASE DirectoryRefused
    BY <1>1 DEF DirectoryRefused, GiveUpStep, FilePlaces
<1>2. CASE ResolveFails
    BY <1>2 DEF ResolveFails, GiveUpStep, FilePlaces
<1>3. CASE CopyFails
    BY <1>3 DEF CopyFails, DropTemporary, GiveUpStep, FilePlaces
<1>4. CASE CheckRefuses
    BY <1>4 DEF CheckRefuses, DropTemporary, GiveUpStep, FilePlaces
<1>5. CASE RenameFails
    BY <1>5 DEF RenameFails, DropTemporary, GiveUpStep, FilePlaces
<1>6. CASE VerifyFails
    BY <1>6 DEF VerifyFails, GiveUpStep, FilePlaces
<1>7. CASE AddManifestEntriesFails
    BY <1>7 DEF AddManifestEntriesFails, GiveUpStep, FilePlaces
<1> QED
    BY <1>1, <1>2, <1>3, <1>4, <1>5, <1>6, <1>7 DEF Next, WorkerStep, QuietStep, FailStep

LEMMA QuietTypes ==
    ASSUME TypeOK, PlaceOK, QuietStep
    PROVE  TypeOK' /\ PlaceOK' /\ Quiet
<1>1. Quiet
    <2>1. /\ UNCHANGED <<dest, strays, job, options, at, made, stamped, exported, errors, manifest>>
          /\ place' \in WritePlaces => place \in WritePlaces /\ target' = target
        BY DEF QuietStep, PrepareDestination, StartFile, BeginCopy, EndCopy, BeginVerify,
            VerifySucceeds, BeginManifest, SkipManifest, WriteManifest, Go, PlaceOK, session,
            WritePlaces, AllPartsWritten
    <2>2. place \notin {"done", "clean"} /\ place' \notin {"done", "clean"}
        BY DEF QuietStep, PrepareDestination, StartFile, BeginCopy, EndCopy, BeginVerify,
            VerifySucceeds, BeginManifest, SkipManifest, WriteManifest, Go, AllPartsWritten,
            FilesDone
    <2>3. UNCHANGED cleaning
        BY DEF QuietStep, PrepareDestination, StartFile, BeginCopy, EndCopy, BeginVerify,
            VerifySucceeds, BeginManifest, SkipManifest, WriteManifest
    <2> QED
        BY <2>1, <2>2, <2>3 DEF Quiet
<1>2. temp' \in {"none", "partial", "whole"} /\ place' \in Places
    BY DEF QuietStep, PrepareDestination, StartFile, BeginCopy, EndCopy, BeginVerify,
        VerifySucceeds, BeginManifest, SkipManifest, WriteManifest, Go, TypeOK, Places, FilePlaces
<1>3. status' \in {"preparing", "exporting", "verifying", "completed", "error"}
    BY DEF QuietStep, PrepareDestination, StartFile, BeginCopy, EndCopy, BeginVerify,
        VerifySucceeds, BeginManifest, SkipManifest, WriteManifest, session, AppendExportLog, TypeOK
<1>4. marked' \in BOOLEAN /\ trail' \in Seq(Events)
    <2>1. UNCHANGED <<marked, trail>> \/ \E s : EmitTerminalAudit(s)
        BY DEF QuietStep, PrepareDestination, StartFile, BeginCopy, EndCopy, BeginVerify,
            VerifySucceeds, BeginManifest, SkipManifest, WriteManifest, record, AppendExportLog,
            PersistExportSession
    <2> QED
        BY <2>1, AuditTypes DEF TypeOK
<1>5. TypeOK'
    BY <1>1, <1>2, <1>3, <1>4 DEF TypeOK, Quiet
<1>6. Parts' = Parts
    BY <1>1 DEF Quiet, Parts, File
<1>7. PlaceOK'
    <2>1. /\ Len(job) \in Nat /\ Len(made) \in Nat /\ at \in 1 .. Len(job) + 1
          /\ at <= Len(job) => Len(Parts) \in Nat /\ Len(Parts) > 0
        BY Lengths
    <2>2. CASE PrepareDestination
        BY <1>1, <1>6, <2>1, <2>2 DEF PrepareDestination, Go, Quiet, PlaceOK, FilePlaces, WritePlaces
    <2>3. CASE StartFile
        BY <1>1, <1>6, <2>1, <2>3 DEF StartFile, Go, Quiet, PlaceOK, FilePlaces, WritePlaces
    <2>4. CASE BeginCopy
        BY <1>1, <1>6, <2>1, <2>4 DEF BeginCopy, Go, Quiet, PlaceOK, FilePlaces, WritePlaces
    <2>5. CASE EndCopy
        BY <1>1, <1>6, <2>1, <2>5 DEF EndCopy, Go, Quiet, PlaceOK, FilePlaces, WritePlaces
    <2>6. CASE BeginVerify
        BY <1>1, <1>6, <2>1, <2>6 DEF BeginVerify, Go, Quiet, PlaceOK, FilePlaces, WritePlaces, AllPartsWritten
    <2>7. CASE VerifySucceeds
        BY <1>1, <1>6, <2>1, <2>7 DEF VerifySucceeds, Go, Quiet, PlaceOK, FilePlaces, WritePlaces
    <2>8. CASE BeginManifest
        BY <1>1, <1>6, <2>1, <2>8 DEF BeginManifest, Go, Quiet, PlaceOK, FilePlaces, WritePlaces, FilesDone, ManifestPath
    <2>9. CASE SkipManifest
        BY <1>1, <1>6, <2>1, <2>9 DEF SkipManifest, Go, Quiet, PlaceOK, FilePlaces, WritePlaces, FilesDone
    <2>10. CASE WriteManifest
        BY <1>1, <1>6, <2>1, <2>10 DEF WriteManifest, Go, Quiet, PlaceOK, FilePlaces, WritePlaces
    <2> QED
        BY <2>2, <2>3, <2>4, <2>5, <2>6, <2>7, <2>8, <2>9, <2>10 DEF QuietStep
<1> QED
    BY <1>1, <1>5, <1>7

LEMMA GiveUpTypes ==
    ASSUME TypeOK, PlaceOK, GiveUpStep
    PROVE  /\ TypeOK' /\ PlaceOK'
           /\ at \in 1 .. Len(job) /\ place \notin {"clean", "done"} /\ place' = "clean"
           /\ UNCHANGED <<dest, job, options, at, made, session, manifest, unremoved>>
           /\ strays' \in {strays, strays + 1}
           /\ \E kept \in {{}, LostPaths} : doomed' = Range(made) \ kept
<1>1. PICK kept \in {{}, LostPaths} : GiveUp(kept)
    BY DEF GiveUpStep
<1>2. /\ place' = "clean" /\ doomed' = Range(made) \ kept
      /\ UNCHANGED <<dest, job, options, at, made, session, manifest, unremoved, record>>
    BY <1>1 DEF GiveUp, Go, WrittenPaths
<1>3. at \in 1 .. Len(job) /\ Len(job) \in Nat
    BY Lengths DEF GiveUpStep, PlaceOK
<1>4. ~stamped /\ place \notin {"clean", "done"}
    BY DEF GiveUpStep, PlaceOK, FilePlaces
<1>5. temp' \in {"none", "partial", "whole"} /\ strays' \in Nat /\ place' \in Places
    BY <1>2 DEF GiveUpStep, TypeOK, Places
<1>6. TypeOK'
    BY <1>2, <1>5 DEF TypeOK, session, record
<1>7. PlaceOK'
    BY <1>2, <1>3, <1>4 DEF PlaceOK, FilePlaces, WritePlaces, session
<1>8. strays' \in {strays, strays + 1}
    BY DEF GiveUpStep
<1> QED
    BY <1>2, <1>3, <1>4, <1>6, <1>7, <1>8

\* One file of those that were written for a refused file goes, or stays.
LEMMA RemoveTypes ==
    ASSUME TypeOK, PlaceOK, RemovePart
    PROVE  /\ TypeOK' /\ PlaceOK' /\ place = "clean" /\ doomed \subseteq Range(made)
           /\ UNCHANGED <<strays, job, options, place, at, made, target, session, manifest, record>>
           /\ \E p \in doomed :
                 /\ doomed' = doomed \ {p}
                 /\ \/ dest' = Without({p}) /\ unremoved' = unremoved
                    \/ dest' = dest /\ unremoved' = unremoved \cup {p}
<1>1. /\ place = "clean"
      /\ UNCHANGED <<temp, strays, job, options, place, at, made, target, session, manifest, record>>
    BY DEF RemovePart
<1>2. PICK p \in doomed :
          /\ doomed' = doomed \ {p}
          /\ \/ dest' = Without({p}) /\ unremoved' = unremoved
             \/ dest' = dest /\ unremoved' = unremoved \cup {p}
    BY DEF RemovePart
<1>3. doomed \subseteq Range(made)
    BY <1>1 DEF PlaceOK
<1>4. IsFiniteSet(DOMAIN dest') /\ \A q \in DOMAIN dest' : dest'[q] \in Contents
    BY <1>2, DestTypes DEF TypeOK
<1>5. TypeOK'
    BY <1>1, <1>4 DEF TypeOK, session, record
<1>6. PlaceOK'
    BY <1>1, <1>2, <1>3 DEF PlaceOK, FilePlaces, WritePlaces, session
<1> QED
    BY <1>1, <1>2, <1>3, <1>5, <1>6

\* The file that is given up is reported.
LEMMA RefuseTypes ==
    ASSUME TypeOK, PlaceOK, Refuse
    PROVE  /\ TypeOK' /\ PlaceOK'
           /\ at \in 1 .. Len(job) /\ place = "clean" /\ doomed = {}
           /\ at' = at + 1 /\ made' = <<>> /\ place' = "next" /\ errors' = Append(errors, at)
           /\ UNCHANGED <<dest, job, options, strays, exported, stamped, manifest, unremoved>>
<1>1. /\ place = "clean" /\ doomed = {}
      /\ at' = at + 1 /\ made' = <<>> /\ place' = "next" /\ errors' = Append(errors, at)
      /\ UNCHANGED <<dest, temp, job, options, strays, exported, stamped, manifest, unremoved>>
    BY DEF Refuse, PushExportError, Go, cleaning
<1>2. at \in 1 .. Len(job) /\ Len(job) \in Nat
    BY <1>1, Lengths DEF PlaceOK
<1>3. ~stamped
    BY <1>1 DEF PlaceOK
<1>4. status' \in {"preparing", "exporting", "verifying", "completed", "error"}
    BY DEF Refuse, PushExportError, StatusAfterError, TypeOK
<1>5. marked' \in BOOLEAN /\ trail' \in Seq(Events)
    <2>1. \E s : EmitTerminalAudit(s)
        BY DEF Refuse, PushExportError, PersistExportSession
    <2> QED
        BY <2>1, AuditTypes
<1>6. errors' \in Seq(Nat) /\ made' \in Seq(Paths) /\ at' \in 1 .. Len(job) + 1
    <2>1. errors \in Seq(Nat) /\ at \in Nat
        BY <1>2 DEF TypeOK
    <2> QED
        BY <1>1, <1>2, <2>1
<1>7. TypeOK'
    BY <1>1, <1>4, <1>5, <1>6 DEF TypeOK, Places
<1>8. PlaceOK'
    BY <1>1, <1>3 DEF PlaceOK, FilePlaces, WritePlaces
<1> QED
    BY <1>1, <1>2, <1>7, <1>8

\* Where a part is written to.
LEMMA ResolveTypes ==
    ASSUME TypeOK, PlaceOK, ResolveTarget
    PROVE  /\ TypeOK' /\ PlaceOK'
           /\ UNCHANGED <<dest, job, options, at, made, strays, session, manifest, record, cleaning>>
           /\ place = "target" /\ place' = "copy"
           /\ options.strategy # "overwrite" => ~Exists(target')
           /\ IF Part \in {"main", "fork"} THEN target'.side = Part ELSE target'.side \notin {"main", "fork"}
<1>1. /\ UNCHANGED <<dest, job, options, at, made, strays, session, manifest, record, temp,
                     cleaning>>
      /\ place = "target" /\ place' = "copy" /\ Len(made) < Len(Parts)
      /\ target' \in ResolveTargetPath(Requested)
    BY DEF ResolveTarget, Go
<1>2. at <= Len(job)
    BY <1>1 DEF PlaceOK, FilePlaces
<1>3. /\ Requested \in Paths
      /\ Part \in {"main", "fork"} => Requested.side = Part
      /\ Part \notin {"main", "fork"} => Requested.side \notin {"main", "fork"}
    BY <1>1, <1>2, RequestedPath
<1>4. IsFiniteSet(DOMAIN dest) /\ options.strategy \in Strategies
    BY DEF TypeOK
<1>5. /\ target' \in Paths /\ target'.side = Requested.side
      /\ options.strategy # "overwrite" => ~Exists(target')
    BY <1>1, <1>3, <1>4, ResolvedPath
<1>6. TypeOK'
    BY <1>1 DEF TypeOK, session, record, Places, FilePlaces
<1>7. Parts' = Parts
    BY <1>1 DEF Parts, File
<1>8. PlaceOK'
    BY <1>1, <1>2, <1>5, <1>7, Lengths DEF PlaceOK, FilePlaces, WritePlaces, session
<1> QED
    BY <1>1, <1>3, <1>5, <1>6, <1>8

\* Making room for a file that is complete.
LEMMA CheckTypes ==
    ASSUME TypeOK, PlaceOK, CheckTarget \/ CheckManifest
    PROVE  /\ TypeOK' /\ PlaceOK'
           /\ UNCHANGED <<job, options, at, made, strays, session, manifest, record, target, cleaning>>
           /\ place' \in WritePlaces => place \in WritePlaces
           /\ \/ dest' = dest
              \/ /\ dest' = Without({target})
                 /\ options.strategy = "overwrite" \/ (target = ManifestPath /\ made = <<>>)
           /\ place \notin {"clean", "done"} /\ place' \notin {"clean", "done"}
<1>1. /\ UNCHANGED <<job, options, at, made, strays, session, manifest, record, target, temp, cleaning>>
      /\ \/ place = "check" /\ place' = "rename"
         \/ place = "manifest" /\ temp = "whole" /\ place' = "publish"
    BY DEF CheckTarget, CheckManifest, Go
<1>2. \/ dest' = dest
      \/ /\ dest' = Without({target})
         /\ options.strategy = "overwrite" \/ (target = ManifestPath /\ made = <<>>)
    BY DEF CheckTarget, CheckManifest, FinalizeCheck, MayReplace, PlaceOK
<1>3. IsFiniteSet(DOMAIN dest') /\ \A p \in DOMAIN dest' : dest'[p] \in Contents
    BY <1>2, DestTypes DEF TypeOK
<1>4. TypeOK'
    BY <1>1, <1>3 DEF TypeOK, session, record, Places, FilePlaces
<1>5. Parts' = Parts
    BY <1>1 DEF Parts, File
<1>6. PlaceOK'
    BY <1>1, <1>5, Lengths DEF PlaceOK, FilePlaces, WritePlaces, session, ManifestPath
<1>7. place' \in WritePlaces => place \in WritePlaces
    BY <1>1 DEF WritePlaces
<1> QED
    BY <1>1, <1>2, <1>4, <1>6, <1>7

LEMMA RenameTypes ==
    ASSUME TypeOK, PlaceOK, RenameTarget
    PROVE  /\ TypeOK' /\ PlaceOK'
           /\ UNCHANGED <<job, options, at, strays, session, manifest, record, cleaning>>
           /\ target \in Paths /\ Content \in Contents
           /\ Content.file = job[at] /\ Content.part = Part /\ Content.whole
           /\ dest' = Put(target, Content) /\ made' = Append(made, target)
           /\ place = "rename" /\ place' = "target" /\ at \in 1 .. Len(job)
           /\ Part = Parts[Len(made) + 1]
<1>1. /\ UNCHANGED <<job, options, at, strays, session, manifest, record, cleaning>>
      /\ place = "rename" /\ place' = "target" /\ temp' = "none"
      /\ dest' = Put(target, Content) /\ made' = Append(made, target)
    BY DEF RenameTarget, Go
<1>2. /\ target \in Paths /\ temp = "whole" /\ at \in 1 .. Len(job) /\ Len(made) < Len(Parts)
      /\ job[at] \in Files
    BY <1>1, Lengths DEF PlaceOK, FilePlaces, WritePlaces
<1>3. Content.file = job[at] /\ Content.part = Part /\ Content.whole
    BY <1>2 DEF Content
<1>4. Content \in Contents
    BY <1>2, RequestedPath DEF Content, Contents
<1>5. IsFiniteSet(DOMAIN dest') /\ \A p \in DOMAIN dest' : dest'[p] \in Contents
    BY <1>1, <1>4, DestTypes
<1>6. made' \in Seq(Paths) /\ Len(made') = Len(made) + 1
    BY <1>1, <1>2 DEF TypeOK
<1>7. TypeOK'
    BY <1>1, <1>5, <1>6 DEF TypeOK, session, record, Places, FilePlaces
<1>8. Parts' = Parts
    BY <1>1 DEF Parts, File
<1>9. ~stamped
    BY <1>1 DEF PlaceOK
<1>10. PlaceOK'
    BY <1>1, <1>2, <1>6, <1>8, <1>9, Lengths DEF PlaceOK, FilePlaces, WritePlaces, session
<1> QED
    BY <1>1, <1>2, <1>3, <1>4, <1>7, <1>10 DEF Part

LEMMA PublishTypes ==
    ASSUME TypeOK, PlaceOK, PublishManifest
    PROVE  /\ TypeOK' /\ PlaceOK'
           /\ UNCHANGED <<job, options, at, strays, session, manifest, made, marked, cleaning>>
           /\ dest' = Put(ManifestPath, ManifestDocument) /\ ManifestDocument \in Contents
           /\ ManifestDocument.file = "manifest" /\ ManifestDocument.whole
           /\ made = <<>> /\ place = "publish" /\ place' = "finish"
           /\ trail' = Append(trail, "AuditExported")
<1>1. /\ UNCHANGED <<job, options, at, strays, session, manifest, made, marked, cleaning>>
      /\ place = "publish" /\ place' = "finish" /\ temp' = "none"
      /\ dest' = Put(ManifestPath, ManifestDocument)
      /\ trail' = Append(trail, "AuditExported")
    BY DEF PublishManifest, Go
<1>2. temp = "whole" /\ made = <<>> /\ ~stamped
    BY <1>1 DEF PlaceOK
<1>3. ManifestDocument \in Contents /\ ManifestDocument.file = "manifest" /\ ManifestDocument.whole
    BY <1>2 DEF ManifestDocument, Contents
<1>4. IsFiniteSet(DOMAIN dest') /\ \A p \in DOMAIN dest' : dest'[p] \in Contents
    BY <1>1, <1>3, DestTypes
<1>5. trail' \in Seq(Events)
    <2>1. trail \in Seq(Events) /\ "AuditExported" \in Events
        BY DEF TypeOK, Events
    <2> QED
        BY <1>1, <2>1
<1>6. TypeOK'
    BY <1>1, <1>4, <1>5 DEF TypeOK, session, Places, FilePlaces
<1>7. PlaceOK'
    BY <1>1, <1>2 DEF PlaceOK, FilePlaces, WritePlaces, session
<1> QED
    BY <1>1, <1>2, <1>3, <1>6, <1>7

\* Another program's file stands where nothing stood.
LEMMA ForeignTypes ==
    ASSUME TypeOK, PlaceOK, ForeignWrite
    PROVE  /\ TypeOK' /\ PlaceOK'
           /\ UNCHANGED <<job, options, place, at, made, strays, target, session, manifest, record, cleaning>>
           /\ ~Exists(target) /\ dest' = Put(target, UserFile)
           /\ UserFile \in Contents /\ UserFile.whole /\ UserFile.file = "user"
           /\ place \in WritePlaces
<1>1. /\ UNCHANGED <<job, options, place, at, made, strays, target, session, manifest, record, temp,
                     cleaning>>
      /\ ~Exists(target) /\ dest' = Put(target, UserFile) /\ place \in WritePlaces
    BY DEF ForeignWrite, WritePlaces
<1>2. UserFile \in Contents /\ UserFile.whole /\ UserFile.file = "user"
    BY DEF UserFile, Contents
<1>3. IsFiniteSet(DOMAIN dest') /\ \A p \in DOMAIN dest' : dest'[p] \in Contents
    BY <1>1, <1>2, DestTypes
<1>4. TypeOK'
    BY <1>1, <1>3 DEF TypeOK, session, record
<1>5. Parts' = Parts
    BY <1>1 DEF Parts, File
<1>6. PlaceOK'
    BY <1>1, <1>5, Lengths DEF PlaceOK, session, ManifestPath, cleaning
<1> QED
    BY <1>1, <1>2, <1>4, <1>6

\* The entries of a file that was written in full.
LEMMA EntriesTypes ==
    ASSUME TypeOK, PlaceOK, AddManifestEntries
    PROVE  /\ TypeOK' /\ PlaceOK'
           /\ UNCHANGED <<dest, job, options, strays, stamped, errors, cleaning>>
           /\ at' = at + 1 /\ made' = <<>> /\ exported' = exported + 1
           /\ place = "entries" /\ place' = "next" /\ at \in 1 .. Len(job)
           /\ Len(made) > 0 /\ \A k \in 1 .. Len(made) : Exists(made[k])
           /\ Range(manifest') = Range(manifest) \cup {ManifestEntry(k) : k \in 1 .. Len(made)}
           /\ manifest' # <<>>
<1> DEFINE added == [k \in DOMAIN made |-> ManifestEntry(k)]
<1>1. /\ UNCHANGED <<dest, job, options, strays, stamped, errors, cleaning>>
      /\ at' = at + 1 /\ made' = <<>> /\ exported' = exported + 1
      /\ place = "entries" /\ place' = "next" /\ \A k \in DOMAIN made : Exists(made[k])
      /\ manifest' = manifest \o added /\ temp' = temp /\ status' = "exporting"
      /\ EmitTerminalAudit("exporting")
    BY DEF AddManifestEntries, Go, AppendExportLog, PersistExportSession
<1>2. /\ made \in Seq(Paths) /\ Len(made) \in Nat /\ DOMAIN made = 1 .. Len(made)
      /\ at \in 1 .. Len(job) /\ Len(job) \in Nat /\ manifest \in Seq(Entries)
    BY <1>1, Lengths DEF PlaceOK, TypeOK, FilePlaces
<1>3. Len(made) > 0 /\ ~stamped
    BY <1>1, <1>2 DEF PlaceOK
<1>4. \A k \in 1 .. Len(made) : ManifestEntry(k) \in Entries
    <2> SUFFICES ASSUME NEW k \in 1 .. Len(made) PROVE ManifestEntry(k) \in Entries
        OBVIOUS
    <2>1. made[k] \in Paths
        BY <1>2
    <2>2. made[k] \in DOMAIN dest
        BY <1>1, <1>2 DEF Exists
    <2>3. dest[made[k]] \in Contents
        BY <2>2 DEF TypeOK
    <2> QED
        BY <1>2, <2>1, <2>3 DEF ManifestEntry, Entries
<1>5. added \in Seq(Entries) /\ Len(added) = Len(made)
    <2>1. added = [k \in 1 .. Len(made) |-> ManifestEntry(k)]
        BY <1>2
    <2> HIDE DEF added
    <2> QED
        BY <1>2, <1>4, <2>1
<1>6. \A k \in 1 .. Len(made) : added[k] = ManifestEntry(k)
    BY <1>2
<1> HIDE DEF added
<1>7. manifest' \in Seq(Entries) /\ Len(manifest') = Len(manifest) + Len(made) /\ Len(manifest) \in Nat
    <2>1. manifest' = manifest \o added
        BY <1>1
    <2>2. Len(manifest') = Len(manifest) + Len(added)
        BY <1>2, <1>5, <2>1
    <2> QED
        BY <1>2, <1>5, <2>1, <2>2
<1>8. Range(manifest') = Range(manifest) \cup Range(added)
    BY <1>1, <1>2, <1>5, RangeOfConcat
<1>9. Range(added) = {ManifestEntry(k) : k \in 1 .. Len(made)}
    BY <1>2, <1>5, <1>6 DEF Range
<1>10. manifest' # <<>>
    BY <1>2, <1>3, <1>7
<1>11. marked' \in BOOLEAN /\ trail' \in Seq(Events)
    BY <1>1, AuditTypes
<1>12. at' \in 1 .. Len(job) + 1 /\ exported' \in Nat /\ made' \in Seq(Paths)
    BY <1>1, <1>2 DEF TypeOK
<1>13. TypeOK'
    BY <1>1, <1>7, <1>11, <1>12 DEF TypeOK, Places
<1>put. PlaceOK'
    BY <1>1, <1>3 DEF PlaceOK, FilePlaces, WritePlaces
<1> QED
    BY <1>1, <1>2, <1>3, <1>8, <1>9, <1>10, <1>13, <1>put

\* The ways an export ends, and the failures of its manifest.
LEMMA FailTypes ==
    ASSUME TypeOK, PlaceOK, FailStep
    PROVE  /\ TypeOK' /\ PlaceOK'
           /\ UNCHANGED <<dest, job, options, at, made, manifest, exported, cleaning>>
           /\ place # "done" /\ place' \in {"finish", "done"}
           /\ place' = "finish" => made = <<>>
           /\ \/ errors' = errors
              \/ /\ errors' = Append(errors, SessionError)
                 /\ place' = "done"
              \/ /\ errors' = Append(errors, ManifestError)
                 /\ manifest # <<>>
<1>1. /\ UNCHANGED <<dest, job, options, at, made, manifest, exported, cleaning>>
      /\ place # "done" /\ place' \in {"finish", "done"}
      /\ place' = "finish" => place \in {"manifest", "publish"} /\ stamped' = stamped
      /\ stamped' => place' = "done" /\ (stamped \/ place \in {"prepare", "finish"})
    <2>1. stamped => place = "done"
        BY DEF PlaceOK
    <2>2. CASE PrepareFails
        BY <2>1, <2>2 DEF PrepareFails, FailExportSession, Go
    <2>3. CASE WriteManifestFails
        BY <2>1, <2>3 DEF WriteManifestFails, Go, PushExportError
    <2>4. CASE PublishManifestFails
        BY <2>1, <2>4 DEF PublishManifestFails, Go, PushExportError
    <2>5. CASE FinishExport
        BY <2>1, <2>5 DEF FinishExport, Go
    <2>6. CASE Crash
        BY <2>1, <2>6 DEF Crash, Go, session
    <2> QED
        BY <2>2, <2>3, <2>4, <2>5, <2>6 DEF FailStep
<1>2. \/ errors' = errors
      \/ errors' = Append(errors, SessionError) /\ place' = "done"
      \/ errors' = Append(errors, ManifestError) /\ manifest # <<>>
    <2>1. place \in {"manifest", "publish"} => manifest # <<>>
        BY DEF PlaceOK
    <2>2. CASE PrepareFails
        BY <2>1, <2>2 DEF PrepareFails, FailExportSession, Go
    <2>3. CASE WriteManifestFails
        BY <2>1, <2>3 DEF WriteManifestFails, Go, PushExportError
    <2>4. CASE PublishManifestFails
        BY <2>1, <2>4 DEF PublishManifestFails, Go, PushExportError
    <2>5. CASE FinishExport
        BY <2>1, <2>5 DEF FinishExport, Go
    <2>6. CASE Crash
        BY <2>1, <2>6 DEF Crash, Go, session
    <2> QED
        BY <2>2, <2>3, <2>4, <2>5, <2>6 DEF FailStep
<1>3. temp' \in {"none", "partial", "whole"} /\ strays' \in Nat /\ stamped' \in BOOLEAN
    <2>1. temp \in {"none", "partial", "whole"} /\ strays \in Nat /\ stamped \in BOOLEAN
        BY DEF TypeOK
    <2>2. temp' \in {temp, "none"} /\ strays' \in {strays, strays + 1}
        BY DEF FailStep, PrepareFails, FailExportSession, WriteManifestFails, PublishManifestFails,
            FinishExport, Crash, DropTemporary
    <2>3. stamped' = TRUE \/ stamped' = stamped
        BY DEF FailStep, PrepareFails, FailExportSession, WriteManifestFails, PublishManifestFails,
            FinishExport, Crash, PushExportError, session
    <2>4. stamped' \in BOOLEAN
        BY <2>1, <2>3, Zenon
    <2>5. strays' \in Nat
        BY <2>1, <2>2
    <2> QED
        BY <2>1, <2>2, <2>4, <2>5, Zenon
<1>4. status' \in {"preparing", "exporting", "verifying", "completed", "error"}
    BY DEF FailStep, PrepareFails, FailExportSession, WriteManifestFails, PublishManifestFails,
        FinishExport, Crash, PushExportError, StatusAfterError, AppendExportLog, FinalStatus,
        session, TypeOK
<1>5. marked' \in BOOLEAN /\ trail' \in Seq(Events)
    <2>1. UNCHANGED <<marked, trail>> \/ \E s : EmitTerminalAudit(s)
        BY DEF FailStep, PrepareFails, FailExportSession, WriteManifestFails, PublishManifestFails,
            FinishExport, Crash, PushExportError, AppendExportLog, PersistExportSession, record
    <2> QED
        BY <2>1, AuditTypes DEF TypeOK
<1>6. errors' \in Seq(Nat)
    <2>1. SessionError \in Nat /\ ManifestError \in Nat /\ errors \in Seq(Nat)
        BY Lengths DEF SessionError, ManifestError, TypeOK
    <2> QED
        BY <1>2, <2>1
<1>7. TypeOK'
    BY <1>1, <1>3, <1>4, <1>5, <1>6 DEF TypeOK, Places
<1>8. PlaceOK'
    BY <1>1 DEF PlaceOK, FilePlaces, WritePlaces
<1>9. place' = "finish" => made = <<>>
    BY <1>1 DEF PlaceOK
<1> QED
    BY <1>1, <1>2, <1>7, <1>8, <1>9

\* The selected files are results of the scan, and not too many.
LEMMA SelectedFiles ==
    ASSUME NEW ids \in Selections, NEW list \in SelectFilesForExport(ids)
    PROVE  list \in Seq(Files) /\ Len(list) <= MaxFiles
<1>1. IsFiniteSet(Files) /\ Cardinality(Files) <= MaxFiles
    BY ExportJobAssumption DEF Files
<1>2. CASE ids # <<>>
    <2>1. list = ids /\ Range(ids) \subseteq Files
        BY <1>2 DEF SelectFilesForExport, Files
    <2>2. ids \in Seq(Range(ids)) /\ Len(ids) <= MaxFiles
        BY ExportJobAssumption
    <2>3. Len(ids) \in Nat /\ ids \in [1 .. Len(ids) -> Range(ids)]
        BY <2>2
    <2> QED
        BY <2>1, <2>2, <2>3
<1>3. CASE ids = <<>>
    <2> DEFINE n == Cardinality(Files)
    <2>1. list = CHOOSE f \in [1 .. n -> Files] : IsInjective(f)
        BY <1>3 DEF SelectFilesForExport, SetToSeq, Files
    <2>2. n \in Nat /\ ExistsBijection(1 .. n, Files)
        BY <1>1, FS_CardinalityType
    <2>3. PICK f \in [1 .. n -> Files] : IsInjective(f)
        BY <2>2 DEF ExistsBijection, Bijection, Injection
    <2>4. list \in [1 .. n -> Files]
        BY <2>1, <2>3
    <2> HIDE DEF n
    <2>5. list \in Seq(Files) /\ Len(list) = n
        BY <2>2, <2>4
    <2> QED
        BY <1>1, <2>5 DEF n
<1> QED
    BY <1>2, <1>3

LEMMA InitTypes ==
    ASSUME Init
    PROVE  TypeOK /\ PlaceOK
<1>1. job \in Seq(Files) /\ Len(job) <= MaxFiles
    BY SelectedFiles DEF Init
<1>2. Len(job) \in Nat
    BY <1>1
<1>3. IsFiniteSet(DOMAIN dest) /\ \A p \in DOMAIN dest : dest[p] \in Contents
    <2>1. \A p \in DOMAIN Occupied : Occupied[p] \in Contents
        <3> SUFFICES ASSUME NEW p \in DOMAIN Occupied PROVE Occupied[p] \in Contents
            OBVIOUS
        <3>1. Occupied[p] \in [file : {"user"}, part : {"file", "dir"}, whole : {TRUE}]
            BY ExportJobAssumption
        <3> QED
            BY <3>1 DEF Contents
    <2>2. dest = Occupied
        BY DEF Init
    <2> QED
        BY <2>1, <2>2, ExportJobAssumption
<1>4. <<"ExportStarted">> \in Seq(Events)
    BY DEF Events
<1>5. TypeOK
    <2>1. made \in Seq(Paths) /\ errors \in Seq(Nat) /\ manifest \in Seq(Entries)
        BY DEF Init
    <2>2. trail \in Seq(Events) /\ marked \in BOOLEAN /\ stamped \in BOOLEAN
        BY <1>4 DEF Init
    <2> QED
        BY <1>1, <1>2, <1>3, <2>1, <2>2 DEF Init, TypeOK, Places
<1>6. PlaceOK
    BY DEF Init, PlaceOK, FilePlaces, WritePlaces
<1> QED
    BY <1>5, <1>6

LEMMA TypesKept ==
    ASSUME TypeOK, PlaceOK, [Next]_vars
    PROVE  TypeOK' /\ PlaceOK'
<1>1. CASE UNCHANGED vars
    <2>1. TypeOK'
        BY <1>1 DEF TypeOK, vars, session, record
    <2>2. Parts' = Parts /\ ManifestPath' = ManifestPath
        BY <1>1 DEF Parts, File, vars, ManifestPath
    <2>3. PlaceOK'
        BY <1>1, <2>2 DEF PlaceOK, vars, session, record, cleaning
    <2> QED
        BY <2>1, <2>3
<1>2. CASE Next
    BY <1>2, Steps, QuietTypes, ResolveTypes, CheckTypes, RenameTypes, PublishTypes, ForeignTypes,
        GiveUpTypes, RemoveTypes, RefuseTypes, EntriesTypes, FailTypes
<1> QED
    BY <1>1, <1>2

\* Every step, also one that changes nothing, is of one of these kinds.
LEMMA StepKinds ==
    ASSUME TypeOK, PlaceOK, [Next]_vars
    PROVE  \/ Quiet \/ ResolveTarget \/ (CheckTarget \/ CheckManifest)
           \/ RenameTarget \/ PublishManifest \/ ForeignWrite
           \/ GiveUpStep \/ RemovePart \/ Refuse \/ AddManifestEntries \/ FailStep
<1>1. UNCHANGED vars => Quiet
    BY DEF vars, Quiet, session, WritePlaces
<1> QED
    BY <1>1, Steps, QuietTypes

-----------------------------------------------------------------------------
(* The destination *)

LEMMA WholeKept ==
    ASSUME TypeOK, PlaceOK, WholeArtifacts, [Next]_vars
    PROVE  WholeArtifacts'
<1> USE DEF WholeArtifacts
<1>1. IsFiniteSet(DOMAIN dest)
    BY DEF TypeOK
<1>2. ASSUME NEW gone, dest' = Without(gone)
      PROVE  WholeArtifacts'
    <2>1. /\ DOMAIN dest' = DOMAIN dest \ gone
          /\ \A q \in DOMAIN dest \ gone : dest'[q] = dest[q]
        BY <1>1, <1>2, WithoutMakes
    <2> QED
        BY <2>1
<1>3. ASSUME NEW p, NEW content, content.whole, dest' = Put(p, content)
      PROVE  WholeArtifacts'
    <2>1. /\ DOMAIN Put(p, content) = DOMAIN dest \cup {p}
          /\ \A q \in DOMAIN dest \cup {p} :
                Put(p, content)[q] = IF q = p THEN content ELSE dest[q]
        BY <1>1, PutMakes, Zenon
    <2> QED
        BY <1>3, <2>1
<1>4. CASE dest' = dest
    BY <1>4
<1>5. CASE CheckTarget \/ CheckManifest
    BY <1>2, <1>4, <1>5, CheckTypes
<1>6. CASE RenameTarget
    BY <1>3, <1>6, RenameTypes
<1>7. CASE PublishManifest
    BY <1>3, <1>7, PublishTypes
<1>8. CASE ForeignWrite
    BY <1>3, <1>8, ForeignTypes
<1>9. CASE RemovePart
    BY <1>2, <1>4, <1>9, RemoveTypes
<1>10. Quiet \/ ResolveTarget \/ GiveUpStep \/ Refuse \/ AddManifestEntries \/ FailStep => dest' = dest
    BY ResolveTypes, GiveUpTypes, RefuseTypes, EntriesTypes, FailTypes DEF Quiet
<1> QED
    BY <1>4, <1>5, <1>6, <1>7, <1>8, <1>9, <1>10, StepKinds

\* Whatever stands under its final name is whole.
LEMMA UsersKept ==
    ASSUME TypeOK, PlaceOK, UsersInv, [Next]_vars
    PROVE  UsersInv'
<1> SUFFICES ASSUME options'.strategy # "overwrite"
             PROVE  UsersInv'
    BY DEF UsersInv
<1>1. options' = options
    BY StepKinds, ResolveTypes, CheckTypes, RenameTypes, PublishTypes, ForeignTypes, GiveUpTypes,
        RemoveTypes, RefuseTypes, EntriesTypes, FailTypes DEF Quiet
<1>2. /\ options.strategy # "overwrite"
      /\ \A p \in UserPaths : p \in DOMAIN dest /\ dest[p] = Occupied[p]
      /\ \A k \in 1 .. Len(made) : made[k] \notin UserPaths
      /\ place \in WritePlaces => target \notin UserPaths
    BY <1>1 DEF UsersInv, Exists
<1>3. SUFFICES /\ \A p \in UserPaths : p \in DOMAIN dest' /\ dest'[p] = Occupied[p]
               /\ \A k \in 1 .. Len(made') : made'[k] \notin UserPaths
               /\ place' \in WritePlaces => target' \notin UserPaths
    BY DEF UsersInv, Exists, UserPaths, ManifestPath
<1>4. IsFiniteSet(DOMAIN dest) /\ made \in Seq(Paths) /\ ManifestPath \notin UserPaths
    BY DEF TypeOK, UserPaths
<1>put. ASSUME NEW q, NEW content, q \notin UserPaths, dest' = Put(q, content)
       PROVE  \A p \in UserPaths : p \in DOMAIN dest' /\ dest'[p] = Occupied[p]
    <2>1. /\ DOMAIN Put(q, content) = DOMAIN dest \cup {q}
          /\ \A p \in DOMAIN dest \cup {q} :
                Put(q, content)[p] = IF p = q THEN content ELSE dest[p]
        BY <1>4, PutMakes, Zenon
    <2> QED
        BY <1>2, <1>put, <2>1
<1>5. CASE Quiet
    BY <1>2, <1>5 DEF Quiet
<1>6. CASE ResolveTarget
    <2>1. target' \notin UserPaths
        BY <1>2, <1>6, ResolveTypes DEF Exists
    <2> QED
        BY <1>2, <1>6, <2>1, ResolveTypes
<1>7. CASE CheckTarget \/ CheckManifest
    <2>1. dest' = dest \/ dest' = Without({ManifestPath})
        BY <1>2, <1>7, CheckTypes
    <2>2. /\ DOMAIN Without({ManifestPath}) = DOMAIN dest \ {ManifestPath}
          /\ \A q \in DOMAIN dest \ {ManifestPath} : Without({ManifestPath})[q] = dest[q]
        BY <1>4, WithoutMakes
    <2>3. \A p \in UserPaths : p \in DOMAIN dest' /\ dest'[p] = Occupied[p]
        BY <1>2, <1>4, <2>1, <2>2
    <2> QED
        BY <1>2, <1>7, <2>3, CheckTypes
<1>8. CASE RenameTarget
    <2>1. /\ dest' = Put(target, Content) /\ made' = Append(made, target)
          /\ place' = "target" /\ target \in Paths /\ target \notin UserPaths
        BY <1>2, <1>8, RenameTypes DEF WritePlaces
    <2>2. \A p \in UserPaths : p \in DOMAIN dest' /\ dest'[p] = Occupied[p]
        BY <1>2, <1>put, <2>1
    <2>3. \A k \in 1 .. Len(made') : made'[k] \notin UserPaths
        BY <1>2, <1>4, <2>1
    <2> QED
        BY <2>1, <2>2, <2>3 DEF WritePlaces
<1>9. CASE PublishManifest
    <2>1. /\ dest' = Put(ManifestPath, ManifestDocument) /\ made' = made /\ place' = "finish"
        BY <1>9, PublishTypes
    <2>2. \A p \in UserPaths : p \in DOMAIN dest' /\ dest'[p] = Occupied[p]
        BY <1>4, <1>put, <2>1
    <2> QED
        BY <1>2, <2>1, <2>2 DEF WritePlaces
<1>10. CASE ForeignWrite
    <2>1. /\ dest' = Put(target, UserFile) /\ UNCHANGED <<made, place, target>>
          /\ target \notin UserPaths
        BY <1>2, <1>10, ForeignTypes
    <2>2. \A p \in UserPaths : p \in DOMAIN dest' /\ dest'[p] = Occupied[p]
        BY <1>2, <1>put, <2>1
    <2> QED
        BY <1>2, <2>1, <2>2
<1>11. CASE RemovePart
    <2>1. PICK p \in doomed : dest' = dest \/ dest' = Without({p})
        BY <1>11, RemoveTypes
    <2>2. UNCHANGED <<made, place, target>> /\ doomed \subseteq Range(made)
        BY <1>11, RemoveTypes
    <2>3. p \notin UserPaths
        BY <1>2, <1>4, <2>2 DEF Range
    <2>4. /\ DOMAIN Without({p}) = DOMAIN dest \ {p}
          /\ \A q \in DOMAIN dest \ {p} : Without({p})[q] = dest[q]
        BY <1>4, WithoutMakes
    <2>5. \A q \in UserPaths : q \in DOMAIN dest' /\ dest'[q] = Occupied[q]
        BY <1>2, <2>1, <2>3, <2>4
    <2> QED
        BY <1>2, <2>2, <2>5
<1>14. CASE GiveUpStep
    BY <1>2, <1>14, GiveUpTypes DEF WritePlaces
<1>15. CASE Refuse
    BY <1>2, <1>15, RefuseTypes DEF WritePlaces
<1>12. CASE AddManifestEntries
    BY <1>2, <1>12, EntriesTypes DEF WritePlaces
<1>13. CASE FailStep
    BY <1>2, <1>13, FailTypes DEF WritePlaces
<1> QED
    BY <1>5, <1>6, <1>7, <1>8, <1>9, <1>10, <1>11, <1>12, <1>13, <1>14, <1>15, StepKinds

\* What has an entry stays as its entry says.
LEMMA ListedKept ==
    ASSUME TypeOK, PlaceOK, ListedInv, [Next]_vars
    PROVE  ListedInv'
<1> SUFFICES ASSUME options'.strategy # "overwrite"
             PROVE  /\ \A e \in Range(manifest') : EntryOK(e)'
                    /\ \A k \in 1 .. Len(made') : made'[k] \notin Listed'
                    /\ place' \notin {"clean", "done"} =>
                          \A k \in 1 .. Len(made') :
                             made'[k] \in DOMAIN dest' /\ dest'[made'[k]].file = job'[at']
                    /\ place' \in WritePlaces => target' \notin Listed'
    BY DEF ListedInv, Exists
<1>1. options' = options /\ job' = job
    BY StepKinds, ResolveTypes, CheckTypes, RenameTypes, PublishTypes, ForeignTypes, GiveUpTypes,
        RemoveTypes, RefuseTypes, EntriesTypes, FailTypes DEF Quiet
<1>2. /\ options.strategy # "overwrite"
      /\ \A e \in Range(manifest) : EntryOK(e)
      /\ \A k \in 1 .. Len(made) : made[k] \notin Listed
      /\ place \notin {"clean", "done"} =>
            \A k \in 1 .. Len(made) : made[k] \in DOMAIN dest /\ dest[made[k]].file = job[at]
      /\ place \in WritePlaces => target \notin Listed
    BY <1>1 DEF ListedInv, Exists
<1>3. /\ IsFiniteSet(DOMAIN dest) /\ made \in Seq(Paths) /\ Len(made) \in Nat
      /\ DOMAIN made = 1 .. Len(made) /\ ManifestPath \notin Listed
    BY DEF TypeOK, Listed
<1>4. \A e : EntryOK(e) <=>
          /\ e.content.file = job[e.index]
          /\ e.path # ManifestPath => e.path \in DOMAIN dest /\ dest[e.path] = e.content
    BY Zenon DEF EntryOK, Exists
<1>5. \A e : EntryOK(e)' <=>
          /\ e.content.file = job[e.index]
          /\ e.path # ManifestPath => e.path \in DOMAIN dest' /\ dest'[e.path] = e.content
    BY <1>1, Zenon DEF EntryOK, Exists, ManifestPath
<1>6. \A e \in Range(manifest) : e.path # ManifestPath => e.path \in Listed
    BY DEF Listed
<1>7. ASSUME \A p \in Listed : p \in DOMAIN dest => p \in DOMAIN dest' /\ dest'[p] = dest[p]
      PROVE  \A e \in Range(manifest) : EntryOK(e)'
    <2> SUFFICES ASSUME NEW e \in Range(manifest) PROVE EntryOK(e)'
        OBVIOUS
    <2>1. /\ e.content.file = job[e.index]
          /\ e.path # ManifestPath => e.path \in DOMAIN dest /\ dest[e.path] = e.content
        BY <1>2, <1>4, Zenon
    <2> QED
        BY <1>5, <1>6, <1>7, <2>1, Zenon
<1>8. ASSUME manifest' = manifest PROVE Listed' = Listed
    BY <1>8 DEF Listed, ManifestPath
<1>put. ASSUME NEW q, NEW content, dest' = Put(q, content)
        PROVE  /\ DOMAIN dest' = DOMAIN dest \cup {q}
               /\ \A p \in DOMAIN dest \cup {q} : dest'[p] = IF p = q THEN content ELSE dest[p]
    <2>1. /\ DOMAIN Put(q, content) = DOMAIN dest \cup {q}
          /\ \A p \in DOMAIN dest \cup {q} :
                Put(q, content)[p] = IF p = q THEN content ELSE dest[p]
        BY <1>3, PutMakes, Zenon
    <2> QED
        BY <1>put, <2>1
<1>9. CASE /\ UNCHANGED <<dest, at, made, manifest>>
           /\ place' \in WritePlaces => place \in WritePlaces /\ target' = target
           /\ place \in {"clean", "done"} => place' \in {"clean", "done"} \/ made = <<>>
    BY <1>1, <1>2, <1>7, <1>8, <1>9
<1>10. CASE ResolveTarget
    <2>1. UNCHANGED <<dest, at, made, manifest>> /\ target' \notin DOMAIN dest /\ place = "target"
        BY <1>2, <1>10, ResolveTypes DEF Exists
    <2>2. Listed \subseteq DOMAIN dest
        <3> SUFFICES ASSUME NEW e \in Range(manifest), e.path # ManifestPath
                     PROVE  e.path \in DOMAIN dest
            BY DEF Listed
        <3> QED
            BY <1>2, <1>4, Zenon
    <2> QED
        BY <1>1, <1>2, <1>7, <1>8, <2>1, <2>2
<1>11. CASE CheckTarget \/ CheckManifest
    <2>1. /\ UNCHANGED <<at, made, manifest, target>> /\ (place' \in WritePlaces => place \in WritePlaces)
          /\ dest' = dest \/ (dest' = Without({ManifestPath}) /\ made = <<>>)
          /\ place \notin {"clean", "done"}
        BY <1>2, <1>11, CheckTypes
    <2>2. /\ DOMAIN Without({ManifestPath}) = DOMAIN dest \ {ManifestPath}
          /\ \A q \in DOMAIN dest \ {ManifestPath} : Without({ManifestPath})[q] = dest[q]
        BY <1>3, WithoutMakes
    <2>3. \A p \in Listed : p \in DOMAIN dest => p \in DOMAIN dest' /\ dest'[p] = dest[p]
        BY <1>3, <2>1, <2>2
    <2>4. \A k \in 1 .. Len(made) : made[k] \in DOMAIN dest' /\ dest'[made[k]].file = job[at]
        BY <1>2, <1>3, <2>1
    <2> QED
        BY <1>1, <1>2, <1>7, <1>8, <2>1, <2>3, <2>4
<1>12. CASE RenameTarget
    <2>1. /\ dest' = Put(target, Content) /\ made' = Append(made, target) /\ at' = at
          /\ place' = "target" /\ target \in Paths /\ target \notin Listed /\ manifest' = manifest
          /\ Content.file = job[at] /\ place = "rename"
        BY <1>2, <1>12, RenameTypes DEF WritePlaces
    <2>2. /\ DOMAIN dest' = DOMAIN dest \cup {target}
          /\ \A p \in DOMAIN dest \cup {target} : dest'[p] = IF p = target THEN Content ELSE dest[p]
        BY <1>put, <2>1
    <2>3. \A p \in Listed : p \in DOMAIN dest => p \in DOMAIN dest' /\ dest'[p] = dest[p]
        BY <2>1, <2>2
    <2>4. \A k \in 1 .. Len(made') : (k \in 1 .. Len(made) /\ made'[k] = made[k]) \/ made'[k] = target
        BY <1>3, <2>1
    <2>5. \A k \in 1 .. Len(made') :
              /\ made'[k] \in DOMAIN dest' /\ dest'[made'[k]].file = job[at]
              /\ made'[k] \notin Listed
        BY <1>2, <2>1, <2>2, <2>4
    <2> QED
        BY <1>1, <1>7, <1>8, <2>1, <2>3, <2>5 DEF WritePlaces
<1>13. CASE PublishManifest
    <2>1. /\ dest' = Put(ManifestPath, ManifestDocument) /\ made' = made /\ made = <<>>
          /\ place' = "finish" /\ manifest' = manifest
        BY <1>13, PublishTypes
    <2>2. /\ DOMAIN dest' = DOMAIN dest \cup {ManifestPath}
          /\ \A p \in DOMAIN dest \cup {ManifestPath} :
                dest'[p] = IF p = ManifestPath THEN ManifestDocument ELSE dest[p]
        BY <1>put, <2>1
    <2>3. \A p \in Listed : p \in DOMAIN dest => p \in DOMAIN dest' /\ dest'[p] = dest[p]
        BY <1>3, <2>2
    <2> QED
        BY <1>7, <2>1, <2>3 DEF WritePlaces
<1>14. CASE ForeignWrite
    <2>1. /\ dest' = Put(target, UserFile) /\ target \notin DOMAIN dest
          /\ UNCHANGED <<at, made, place, target, manifest>>
        BY <1>14, ForeignTypes DEF Exists
    <2>2. /\ DOMAIN dest' = DOMAIN dest \cup {target}
          /\ \A p \in DOMAIN dest \cup {target} : dest'[p] = IF p = target THEN UserFile ELSE dest[p]
        BY <1>put, <2>1
    <2>3. \A p \in DOMAIN dest : p \in DOMAIN dest' /\ dest'[p] = dest[p]
        BY <2>1, <2>2
    <2> QED
        BY <1>1, <1>2, <1>7, <1>8, <2>1, <2>3
<1>15. CASE RemovePart
    <2>1. PICK p \in doomed : dest' = dest \/ dest' = Without({p})
        BY <1>15, RemoveTypes
    <2>2. UNCHANGED <<made, at, place, target, manifest>> /\ place = "clean" /\ doomed \subseteq Range(made)
        BY <1>15, RemoveTypes
    <2>3. p \notin Listed
        BY <1>2, <1>3, <2>2 DEF Range
    <2>4. /\ DOMAIN Without({p}) = DOMAIN dest \ {p}
          /\ \A q \in DOMAIN dest \ {p} : Without({p})[q] = dest[q]
        BY <1>3, WithoutMakes
    <2>5. \A q \in Listed : q \in DOMAIN dest => q \in DOMAIN dest' /\ dest'[q] = dest[q]
        BY <2>1, <2>3, <2>4
    <2> QED
        BY <1>2, <1>7, <1>8, <2>2, <2>5 DEF WritePlaces
<1>18. CASE GiveUpStep
    <2>1. UNCHANGED <<dest, made, at, manifest>> /\ place' = "clean"
        BY <1>18, GiveUpTypes
    <2> QED
        BY <1>2, <1>7, <1>8, <2>1 DEF WritePlaces
<1>19. CASE Refuse
    <2>1. UNCHANGED <<dest, manifest>> /\ made' = <<>> /\ place' = "next"
        BY <1>19, RefuseTypes
    <2> QED
        BY <1>7, <2>1 DEF WritePlaces
<1>16. CASE AddManifestEntries
    <2>1. /\ dest' = dest /\ made' = <<>> /\ place = "entries" /\ place' = "next"
          /\ Range(manifest') = Range(manifest) \cup {ManifestEntry(k) : k \in 1 .. Len(made)}
        BY <1>16, EntriesTypes
    <2>2. \A e \in {ManifestEntry(k) : k \in 1 .. Len(made)} : EntryOK(e)'
        <3> SUFFICES ASSUME NEW k \in 1 .. Len(made), NEW e, e = ManifestEntry(k)
                     PROVE  EntryOK(e)'
            OBVIOUS
        <3>1. e.content.file = job[e.index] /\ e.path \in DOMAIN dest /\ dest[e.path] = e.content
            BY <1>2, <2>1 DEF ManifestEntry
        <3>2. /\ e.content.file = job[e.index]
              /\ e.path \in DOMAIN dest' /\ dest'[e.path] = e.content
            BY <2>1, <3>1
        <3> QED
            BY <1>5, <3>2, Zenon
    <2>3. \A e \in Range(manifest) : EntryOK(e)'
        BY <1>7, <2>1
    <2> QED
        BY <2>1, <2>2, <2>3 DEF WritePlaces
<1>17. CASE FailStep
    <2>1. /\ UNCHANGED <<dest, at, made, manifest>> /\ place' \notin WritePlaces
          /\ place' = "done" \/ made = <<>>
        BY <1>17, FailTypes DEF WritePlaces
    <2> QED
        BY <1>9, <2>1
<1> QED
    BY <1>9, <1>10, <1>11, <1>12, <1>13, <1>14, <1>15, <1>16, <1>17, <1>18, <1>19,
       StepKinds DEF Quiet

-----------------------------------------------------------------------------
(* The files, one after another *)

LEMMA IndexKept ==
    ASSUME TypeOK, PlaceOK, IndexInv, [Next]_vars
    PROVE  IndexInv'
<1>1. /\ Len(job) \in Nat /\ at \in 1 .. Len(job) + 1 /\ errors \in Seq(Nat)
      /\ ManifestError = Len(job) + 1 /\ SessionError = 0
    BY Lengths DEF TypeOK, ManifestError, SessionError
<1>2. /\ exported = Cardinality(Indexes)
      /\ Indexes \subseteq 1 .. at - 1
      /\ 1 .. at - 1 \subseteq Indexes \cup Range(errors)
      /\ Range(errors) \subseteq 0 .. at - 1 \cup {Len(job) + 1}
      /\ place # "done" => 0 \notin Range(errors)
      /\ Len(job) + 1 \in Range(errors) => manifest # <<>>
    BY <1>1 DEF IndexInv
<1>3. job' = job
    BY StepKinds, ResolveTypes, CheckTypes, RenameTypes, PublishTypes, ForeignTypes, GiveUpTypes,
        RemoveTypes, RefuseTypes, EntriesTypes, FailTypes DEF Quiet
<1>4. SUFFICES
      /\ exported' = Cardinality(Indexes')
      /\ Indexes' \subseteq 1 .. at' - 1
      /\ 1 .. at' - 1 \subseteq Indexes' \cup Range(errors')
      /\ Range(errors') \subseteq 0 .. at' - 1 \cup {Len(job) + 1}
      /\ place' # "done" => 0 \notin Range(errors')
      /\ Len(job) + 1 \in Range(errors') => manifest' # <<>>
    BY <1>1, <1>3 DEF IndexInv, ManifestError, SessionError
<1>5. manifest' = manifest => Indexes' = Indexes
    BY DEF Indexes
<1>6. \A n \in Nat : Range(Append(errors, n)) = Range(errors) \cup {n}
    BY <1>1, RangeOfAppend
<1>7. CASE /\ UNCHANGED <<at, exported, errors, manifest>>
           /\ place = "done" => place' = "done"
    <2>1. Indexes' = Indexes /\ Range(errors') = Range(errors) /\ at' = at
        BY <1>5, <1>7
    <2> QED
        BY <1>2, <1>7, <2>1
<1>8. Quiet \/ ResolveTarget \/ (CheckTarget \/ CheckManifest) \/ RenameTarget \/ PublishManifest \/ ForeignWrite
      \/ GiveUpStep \/ RemovePart
      => /\ UNCHANGED <<at, exported, errors, manifest>>
         /\ place = "done" => place' = "done"
    BY ResolveTypes, CheckTypes, RenameTypes, PublishTypes, ForeignTypes, GiveUpTypes, RemoveTypes
       DEF Quiet, session
<1>9. CASE Refuse
    <2>1. /\ at' = at + 1 /\ errors' = Append(errors, at) /\ UNCHANGED <<exported, manifest>>
          /\ at \in 1 .. Len(job) /\ place # "done" /\ place' = "next"
        BY <1>9, RefuseTypes
    <2>2. Range(errors') = Range(errors) \cup {at} /\ at # 0 /\ at # Len(job) + 1
        BY <1>1, <1>6, <2>1
    <2>3. 1 .. at' - 1 = 1 .. at - 1 \cup {at} /\ 0 .. at' - 1 = 0 .. at - 1 \cup {at}
        BY <1>1, <2>1
    <2> QED
        BY <1>2, <1>5, <2>1, <2>2, <2>3
<1>10. CASE AddManifestEntries
    <2>1. /\ at' = at + 1 /\ exported' = exported + 1 /\ errors' = errors
          /\ place = "entries" /\ place' = "next" /\ at \in 1 .. Len(job) /\ Len(made) > 0
          /\ Range(manifest') = Range(manifest) \cup {ManifestEntry(k) : k \in 1 .. Len(made)}
          /\ manifest' # <<>>
        BY <1>10, EntriesTypes
    <2>2. Indexes' = Indexes \cup {at}
        <3>1. \A k \in 1 .. Len(made) : ManifestEntry(k).index = at
            BY DEF ManifestEntry
        <3>2. 1 \in 1 .. Len(made)
            BY <2>1, Lengths
        <3> QED
            BY <2>1, <3>1, <3>2 DEF Indexes
    <2>3. 1 .. at' - 1 = 1 .. at - 1 \cup {at} /\ 0 .. at' - 1 = 0 .. at - 1 \cup {at}
        BY <1>1, <2>1
    <2>4. IsFiniteSet(Indexes) /\ at \notin Indexes
        <3>1. IsFiniteSet(1 .. at - 1) /\ at \notin 1 .. at - 1
            BY <1>1, FS_Interval
        <3> QED
            BY <1>2, <3>1, FS_Subset
    <2>5. Cardinality(Indexes') = Cardinality(Indexes) + 1
        BY <2>2, <2>4, FS_AddElement
    <2> QED
        BY <1>2, <2>1, <2>2, <2>3, <2>5
<1>11. CASE FailStep
    <2>1. /\ UNCHANGED <<at, manifest, exported>> /\ place # "done"
          /\ \/ errors' = errors
             \/ errors' = Append(errors, 0) /\ place' = "done"
             \/ errors' = Append(errors, Len(job) + 1) /\ manifest # <<>>
        BY <1>1, <1>11, FailTypes
    <2>2. /\ Range(Append(errors, 0)) = Range(errors) \cup {0}
          /\ Range(Append(errors, Len(job) + 1)) = Range(errors) \cup {Len(job) + 1}
          /\ 0 \in 0 .. at - 1
        BY <1>1, <1>6
    <2>3. 0 # Len(job) + 1
        BY <1>1
    <2> QED
        BY <1>2, <1>5, <2>1, <2>2, <2>3
<1> QED
    BY <1>7, <1>8, <1>9, <1>10, <1>11, StepKinds

-----------------------------------------------------------------------------
(* What an export leaves behind *)

\* An artifact of a main file or a fork is at a path of that side, and is in
\* the manifest, belongs to the current file or could not be removed.
Owned(p) ==
    /\ p.side = dest[p].part
    /\ p \in Pending \cup unremoved \/ \E e \in Range(manifest) : e.path = p

LEMMA ArtifactsOwned ==
    ASSUME TypeOK, PlaceOK, OwnedInv, [Next]_vars
    PROVE  \A p \in DOMAIN dest' : Artifact(p)' => Owned(p)'
<1> SUFFICES ASSUME NEW p \in DOMAIN dest', dest'[p].file \in Files, dest'[p].part \in Main
             PROVE  /\ p.side = dest'[p].part
                    /\ p \in Pending' \cup unremoved' \/ \E e \in Range(manifest') : e.path = p
    BY DEF Artifact, Owned
<1>1. /\ \A q \in DOMAIN dest : dest[q].file \in Files /\ dest[q].part \in Main => Owned(q)
      /\ \A k \in 1 .. Len(made) : Parts[k] \notin Main => made[k].side \notin Main
      /\ place \in WritePlaces => IF Part \in Main THEN target.side = Part ELSE target.side \notin Main
    BY DEF OwnedInv, Artifact, Owned
<1>2. IsFiniteSet(DOMAIN dest) /\ made \in Seq(Paths) /\ DOMAIN made = 1 .. Len(made) /\ Len(made) \in Nat
    BY DEF TypeOK
<1>3. "user" \notin Files /\ "manifest" \notin Files
    BY ExportJobAssumption DEF Files
<1>put. ASSUME NEW q, NEW content, dest' = Put(q, content)
        PROVE  (p = q /\ dest'[p] = content) \/ (p \in DOMAIN dest /\ dest'[p] = dest[p])
    <2>1. /\ DOMAIN Put(q, content) = DOMAIN dest \cup {q}
          /\ \A r \in DOMAIN dest \cup {q} :
                Put(q, content)[r] = IF r = q THEN content ELSE dest[r]
        BY <1>2, PutMakes, Zenon
    <2> QED
        BY <1>put, <2>1
<1>4. CASE /\ p \in DOMAIN dest /\ dest'[p] = dest[p]
           /\ p \in Pending => p \in Pending' \cup unremoved'
           /\ unremoved \subseteq unremoved'
           /\ Range(manifest) \subseteq Range(manifest')
    <2>1. Owned(p)
        BY <1>1, <1>4
    <2> QED
        BY <1>4, <2>1 DEF Owned
<1>5. CASE Quiet \/ ResolveTarget \/ FailStep
    <2>1. UNCHANGED <<dest, made, manifest, cleaning>>
        BY <1>5, ResolveTypes, FailTypes DEF Quiet
    <2>2. place' = "clean" <=> place = "clean" /\ ~FailStep
        BY <1>5, ResolveTypes, FailTypes DEF Quiet
    <2>3. Pending \subseteq Pending'
        BY <2>1, <2>2 DEF Pending, cleaning, PlaceOK
    <2> QED
        BY <1>4, <2>1, <2>3 DEF cleaning
<1>6. CASE CheckTarget \/ CheckManifest
    <2>1. /\ UNCHANGED <<made, manifest, cleaning>> /\ place # "clean" /\ place' # "clean"
          /\ dest' = dest \/ dest' = Without({target})
        BY <1>6, CheckTypes
    <2>2. /\ DOMAIN Without({target}) = DOMAIN dest \ {target}
          /\ \A q \in DOMAIN dest \ {target} : Without({target})[q] = dest[q]
        BY <1>2, WithoutMakes
    <2> QED
        BY <1>4, <2>1, <2>2 DEF Pending, cleaning
<1>7. CASE RenameTarget
    <2>1. /\ dest' = Put(target, Content) /\ made' = Append(made, target)
          /\ place = "rename" /\ place' = "target" /\ target \in Paths /\ UNCHANGED <<manifest, cleaning>>
          /\ Content.part = Part
        BY <1>7, RenameTypes
    <2>2. Range(made') = Range(made) \cup {target}
        BY <1>2, <2>1, RangeOfAppend
    <2>3. CASE p = target /\ dest'[p] = Content
        BY <1>1, <2>1, <2>2, <2>3 DEF WritePlaces, Pending
    <2>4. CASE p \in DOMAIN dest /\ dest'[p] = dest[p]
        BY <1>4, <2>1, <2>2, <2>4 DEF Pending, cleaning
    <2> QED
        BY <1>put, <2>1, <2>3, <2>4
<1>8. CASE PublishManifest
    <2>1. /\ dest' = Put(ManifestPath, ManifestDocument) /\ UNCHANGED <<made, manifest, cleaning>>
          /\ place = "publish" /\ place' = "finish"
          /\ ManifestDocument.file = "manifest"
        BY <1>8, PublishTypes
    <2>2. p \in DOMAIN dest /\ dest'[p] = dest[p]
        BY <1>3, <1>put, <2>1
    <2> QED
        BY <1>4, <2>1, <2>2 DEF Pending, cleaning
<1>9. CASE ForeignWrite
    <2>1. /\ dest' = Put(target, UserFile) /\ UNCHANGED <<made, manifest, place, cleaning>> /\ UserFile.file = "user"
        BY <1>9, ForeignTypes
    <2>2. p \in DOMAIN dest /\ dest'[p] = dest[p]
        BY <1>3, <1>put, <2>1
    <2> QED
        BY <1>4, <2>1, <2>2 DEF Pending, cleaning
<1>10. CASE GiveUpStep
    <2>1. PICK kept \in {{}, LostPaths} : doomed' = Range(made) \ kept
        BY <1>10, GiveUpTypes
    <2>2. UNCHANGED <<dest, manifest, unremoved>> /\ place # "clean" /\ place' = "clean"
        BY <1>10, GiveUpTypes
    <2>3. Owned(p)
        BY <1>1, <2>2
    <2>4. p \notin LostPaths
        <3> SUFFICES ASSUME p \in LostPaths PROVE FALSE
            OBVIOUS
        <3>1. PICK k \in 1 .. Len(made) : p = made[k] /\ Parts[k] \notin Main
            BY DEF LostPaths, Main
        <3>2. p.side \notin Main
            BY <1>1, <3>1
        <3> QED
            BY <2>2, <2>3, <3>2 DEF Owned
    <2>5. p \in Pending => p \in Pending'
        BY <2>1, <2>2, <2>4 DEF Pending
    <2> QED
        BY <1>4, <2>2, <2>5
<1>12. CASE RemovePart
    <2>1. place' = place /\ place = "clean" /\ manifest' = manifest
        BY <1>12, RemoveTypes
    <2>2. PICK q \in doomed :
              /\ doomed' = doomed \ {q}
              /\ \/ dest' = Without({q}) /\ unremoved' = unremoved
                 \/ dest' = dest /\ unremoved' = unremoved \cup {q}
        BY <1>12, RemoveTypes
    <2>3. /\ DOMAIN Without({q}) = DOMAIN dest \ {q}
          /\ \A r \in DOMAIN dest \ {q} : Without({q})[r] = dest[r]
        BY <1>2, WithoutMakes
    <2>4. p \in DOMAIN dest /\ dest'[p] = dest[p] /\ (p # q \/ p \in unremoved')
        BY <2>2, <2>3
    <2>5. p \in Pending => p \in Pending' \cup unremoved'
        BY <2>1, <2>2, <2>4 DEF Pending
    <2> QED
        BY <1>4, <2>1, <2>2, <2>4, <2>5
<1>13. CASE Refuse
    BY <1>4, <1>13, RefuseTypes DEF Pending
<1>11. CASE AddManifestEntries
    <2>1. /\ dest' = dest /\ UNCHANGED cleaning /\ place = "entries"
          /\ Range(manifest') = Range(manifest) \cup {ManifestEntry(k) : k \in 1 .. Len(made)}
        BY <1>11, EntriesTypes
    <2>2. Owned(p)
        BY <1>1, <2>1
    <2>3. ASSUME p \in Range(made) PROVE \E e \in Range(manifest') : e.path = p
        <3>1. PICK k \in 1 .. Len(made) : p = made[k]
            BY <1>2, <2>3 DEF Range
        <3>2. ManifestEntry(k).path = p /\ ManifestEntry(k) \in Range(manifest')
            BY <2>1, <3>1 DEF ManifestEntry
        <3> QED
            BY <3>2
    <2> QED
        BY <2>1, <2>2, <2>3 DEF Owned, Pending, cleaning
<1> QED
    BY <1>4, <1>5, <1>6, <1>7, <1>8, <1>9, <1>10, <1>11, <1>12, <1>13,
       StepKinds

LEMMA OwnedKept ==
    ASSUME TypeOK, PlaceOK, OwnedInv, [Next]_vars
    PROVE  OwnedInv'
<1>1. \A p \in DOMAIN dest' : Artifact(p)' => Owned(p)'
    BY ArtifactsOwned
<1>2. /\ \A k \in 1 .. Len(made) : Parts[k] \notin Main => made[k].side \notin Main
      /\ place \in WritePlaces => IF Part \in Main THEN target.side = Part ELSE target.side \notin Main
    BY DEF OwnedInv
<1>3. job' = job /\ (at' = at => Parts' = Parts)
    <2>1. job' = job
        BY StepKinds, ResolveTypes, CheckTypes, RenameTypes, PublishTypes, ForeignTypes, GiveUpTypes,
            RemoveTypes, RefuseTypes, EntriesTypes, FailTypes DEF Quiet
    <2> QED
        BY <2>1 DEF Parts, File
<1>4. at' = at /\ made' = made => Part' = Part
    BY <1>3 DEF Part
<1>5. /\ \A k \in 1 .. Len(made') : Parts'[k] \notin Main => made'[k].side \notin Main
      /\ place' \in WritePlaces =>
            IF Part' \in Main THEN target'.side = Part' ELSE target'.side \notin Main
    <2>1. CASE /\ UNCHANGED <<at, made>>
               /\ place' \in WritePlaces => place \in WritePlaces /\ target' = target
        BY <1>2, <1>3, <1>4, <2>1
    <2>2. \/ Quiet \/ PublishManifest \/ FailStep \/ (CheckTarget \/ CheckManifest) \/ ForeignWrite
          \/ GiveUpStep \/ RemovePart
          => /\ UNCHANGED <<at, made>>
             /\ place' \in WritePlaces => place \in WritePlaces /\ target' = target
        BY CheckTypes, PublishTypes, ForeignTypes, FailTypes, GiveUpTypes, RemoveTypes DEF Quiet, WritePlaces
    <2>3. CASE ResolveTarget
        BY <1>2, <1>3, <1>4, <2>3, ResolveTypes DEF Main
    <2>4. CASE Refuse \/ AddManifestEntries
        BY <2>4, RefuseTypes, EntriesTypes DEF WritePlaces
    <2>5. CASE RenameTarget
        <3>1. /\ made' = Append(made, target) /\ place = "rename" /\ place' = "target" /\ at' = at
              /\ Part = Parts[Len(made) + 1]
            BY <2>5, RenameTypes
        <3>2. \A k \in 1 .. Len(made') :
                  \/ k \in 1 .. Len(made) /\ made'[k] = made[k]
                  \/ k = Len(made) + 1 /\ made'[k] = target
            BY <3>1 DEF TypeOK
        <3>3. \A k \in 1 .. Len(made') : Parts[k] \notin Main => made'[k].side \notin Main
            BY <1>2, <3>1, <3>2 DEF WritePlaces
        <3> QED
            BY <1>3, <3>1, <3>3 DEF WritePlaces
    <2> QED
        BY <2>1, <2>2, <2>3, <2>4, <2>5, StepKinds
<1> QED
    BY <1>1, <1>5 DEF OwnedInv, Owned, Main

\* A temporary file stays only where an error is, or is about to be.
LEMMA StraysKept ==
    ASSUME TypeOK, PlaceOK, StraysInv, [Next]_vars
    PROVE  StraysInv'
<1> DEFINE n == Len(errors)
           m == Len(errors')
<1>1. /\ n \in Nat /\ strays \in Nat /\ errors \in Seq(Nat) /\ SessionError \in Nat /\ ManifestError \in Nat
      /\ at \in Nat
    BY Lengths DEF TypeOK, SessionError, ManifestError
<1>2. \A x \in Nat : errors' = Append(errors, x) => m = n + 1
    BY <1>1
<1>3. errors' = errors => m = n
    OBVIOUS
<1>4. /\ place = "clean" => strays <= n + 1
      /\ place # "clean" /\ (place # "done" \/ stamped) => strays <= n
      /\ stamped => place = "done"
    BY DEF StraysInv, PlaceOK
<1>5. SUFFICES /\ place' = "clean" => strays' <= m + 1
               /\ place' # "clean" /\ (place' # "done" \/ stamped') => strays' <= m
    BY DEF StraysInv
<1> HIDE DEF n, m
<1>6. CASE /\ UNCHANGED <<strays, errors, stamped>>
           /\ place' = "clean" <=> place = "clean"
           /\ place = "done" => place' = "done"
    BY <1>3, <1>4, <1>6
<1>7. \/ Quiet \/ ResolveTarget \/ (CheckTarget \/ CheckManifest) \/ RenameTarget \/ PublishManifest
      \/ ForeignWrite \/ RemovePart \/ AddManifestEntries
      => /\ UNCHANGED <<strays, errors, stamped>>
         /\ place' = "clean" <=> place = "clean"
         /\ place = "done" => place' = "done"
    BY ResolveTypes, CheckTypes, RenameTypes, PublishTypes, ForeignTypes, RemoveTypes, EntriesTypes
       DEF Quiet, session, WritePlaces
<1>8. CASE GiveUpStep
    <2>1. errors' = errors /\ strays' \in {strays, strays + 1} /\ place' = "clean" /\ strays <= n
        BY <1>4, <1>8, GiveUpTypes DEF session
    <2> QED
        BY <1>1, <1>3, <2>1
<1>9. CASE Refuse
    <2>1. errors' = Append(errors, at) /\ strays' = strays /\ place' = "next" /\ strays <= n + 1
        BY <1>4, <1>9, RefuseTypes
    <2> QED
        BY <1>1, <1>2, <2>1
<1>10. CASE FailStep
    <2>1. CASE Crash
        BY <1>4, <2>1 DEF Crash, session, Go
    <2>2. CASE WriteManifestFails \/ PublishManifestFails
        <3>1. /\ errors' = Append(errors, ManifestError) /\ strays' \in {strays, strays + 1}
              /\ place \in {"manifest", "publish"} /\ place' = "finish"
            BY <2>2 DEF WriteManifestFails, PublishManifestFails, PushExportError, DropTemporary, Go
        <3>2. m = n + 1 /\ strays <= n
            BY <1>1, <1>2, <1>4, <3>1
        <3> QED
            BY <1>1, <3>1, <3>2
    <2>3. CASE PrepareFails
        <3>1. /\ errors' = Append(errors, SessionError) /\ strays' = strays
              /\ place = "prepare" /\ place' = "done"
            BY <2>3 DEF PrepareFails, FailExportSession, Go
        <3>2. m = n + 1 /\ strays <= n
            BY <1>1, <1>2, <1>4, <3>1
        <3> QED
            BY <1>1, <3>1, <3>2
    <2>4. CASE FinishExport
        <3>1. errors' = errors /\ strays' = strays /\ place = "finish" /\ place' = "done"
            BY <2>4 DEF FinishExport, Go
        <3> QED
            BY <1>3, <1>4, <3>1
    <2> QED
        BY <1>10, <2>1, <2>2, <2>3, <2>4 DEF FailStep
<1> QED
    BY <1>6, <1>7, <1>8, <1>9, <1>10, StepKinds

-----------------------------------------------------------------------------
(* Every reachable state *)

ExportInv ==
    /\ TypeOK /\ PlaceOK /\ WholeArtifacts
    /\ UsersInv /\ ListedInv /\ IndexInv /\ OwnedInv /\ StraysInv

LEMMA ExportStarts ==
    ASSUME Init
    PROVE  ExportInv
<1>1. TypeOK /\ PlaceOK
    BY InitTypes
<1>2. /\ dest = Occupied /\ made = <<>> /\ place = "prepare" /\ manifest = <<>> /\ errors = <<>>
      /\ at = 1 /\ exported = 0 /\ stamped = FALSE /\ marked = FALSE /\ status = "preparing"
      /\ trail = <<"ExportStarted">> /\ strays = 0
    BY DEF Init
<1>3. Range(manifest) = {} /\ Range(errors) = {} /\ Len(made) = 0
    BY <1>2 DEF Range
<1>4. \A p \in DOMAIN dest : dest[p].whole /\ dest[p].file = "user"
    <2> SUFFICES ASSUME NEW p \in DOMAIN Occupied
                 PROVE  Occupied[p].whole /\ Occupied[p].file = "user"
        BY <1>2
    <2>1. Occupied[p] \in [file : {"user"}, part : {"file", "dir"}, whole : {TRUE}]
        BY ExportJobAssumption
    <2> QED
        BY <2>1
<1>5. WholeArtifacts
    BY <1>4 DEF WholeArtifacts
<1>6. UsersInv
    BY <1>2, <1>3 DEF UsersInv, UserPaths, Exists, WritePlaces
<1>7. ListedInv
    BY <1>2, <1>3 DEF ListedInv, WritePlaces
<1>8. IndexInv
    <2>1. Indexes = {} /\ Cardinality({}) = 0
        BY <1>3, FS_EmptySet DEF Indexes
    <2> QED
        BY <1>2, <1>3, <2>1 DEF IndexInv
<1>9. OwnedInv
    <2>1. "user" \notin Files
        BY ExportJobAssumption DEF Files
    <2> QED
        BY <1>2, <1>3, <1>4, <2>1 DEF OwnedInv, Artifact, WritePlaces
<1>10. StraysInv
    BY <1>2 DEF StraysInv
<1> QED
    BY <1>1, <1>5, <1>6, <1>7, <1>8, <1>9, <1>10 DEF ExportInv

\* Every step of a job, of its user and of the machine keeps each part of it.
LEMMA ExportSteps ==
    ASSUME ExportInv, [Next]_vars
    PROVE  ExportInv'
BY TypesKept, WholeKept, UsersKept, ListedKept, IndexKept, OwnedKept, StraysKept DEF ExportInv

\* Whatever the job writes, renames and reports, whichever step fails and
\* wherever the process ends, the files, the manifest in hand and the errors
\* agree: the inductive invariant the job's other theorems are read off.
THEOREM ExportInvHolds == Spec => []ExportInv
BY ExportStarts, ExportSteps, PTL DEF Spec

\* A file under its final name is complete, whatever fails and whenever the
\* process ends: only a temporary file is ever partial.
THEOREM ArtifactsAreWhole == Spec => []WholeArtifacts
<1>1. ExportInv => WholeArtifacts
    BY DEF ExportInv
<1> QED
    BY <1>1, ExportInvHolds, PTL

\* With "rename" and "skip", no failure and no clean-up of an export takes away
\* or changes a file that stood in the destination, but one named as the manifest.
THEOREM UserFilesAreKept == Spec => []UserFilesKept
<1>1. ExportInv => UserFilesKept
    BY DEF ExportInv, UsersInv, UserFilesKept, UserPaths
<1> QED
    BY <1>1, ExportInvHolds, PTL

\* The manifest has every file that was counted, and what it says of an
\* artifact is true of the destination.
THEOREM ManifestIsTruthful == Spec => []ManifestTruthful
<1>1. ExportInv => ManifestTruthful
    BY DEF ExportInv, IndexInv, Indexes, ListedInv, EntryOK, ManifestTruthful
<1> QED
    BY <1>1, ExportInvHolds, PTL

\* What an export that ended leaves in no manifest, but alternate data streams, is
\* a part of a refused file whose removal failed, and each temporary file it leaves
\* has an error of its own.
THEOREM EndsAreClean == Spec => []CleanEnd
<1>1. ASSUME ExportInv PROVE CleanEnd
    <2> SUFFICES ASSUME stamped PROVE CleanEnd
        BY DEF CleanEnd
    <2>1. made = <<>> /\ Range(made) = {}
        BY <1>1 DEF ExportInv, PlaceOK, Range
    <2>2. job \in Seq(Files)
        BY <1>1 DEF ExportInv, TypeOK
    <2>3. Range(job) \subseteq Files
        BY <2>2 DEF Range
    <2>4. /\ \A p \in DOMAIN dest : dest[p].file \in Files /\ dest[p].part \in {"main", "fork"}
                => p \in unremoved \/ \E e \in Range(manifest) : e.path = p
          /\ strays <= Len(errors)
        BY <1>1, <2>1 DEF ExportInv, OwnedInv, StraysInv, PlaceOK, Pending, Artifact, Main
    <2> QED
        BY <2>3, <2>4 DEF CleanEnd
<1> QED
    BY <1>1, ExportInvHolds, PTL

-----------------------------------------------------------------------------
(* The promise *)

\* What Promise sees of the state.
Decided ==
    [i \in 1 .. Len(job) |->
        IF \E e \in Range(manifest) : e.index = i THEN "exported"
        ELSE IF i \in Range(errors) THEN "refused" ELSE "open"]
EndingNow == IF stamped THEN status ELSE "running"

LEMMA DecidedIs ==
    ASSUME ExportInv
    PROVE  /\ Len(job) \in Nat /\ at \in 1 .. Len(job) + 1 /\ DOMAIN Decided = 1 .. Len(job)
           /\ \A i \in 1 .. Len(job) :
                 Decided[i] = IF i \in Indexes THEN "exported"
                              ELSE IF i \in Range(errors) THEN "refused" ELSE "open"
           /\ \A i \in 1 .. Len(job) : Decided[i] = "open" <=> ~(i < at)
<1>1. Len(job) \in Nat /\ at \in 1 .. Len(job) + 1
    BY Lengths DEF ExportInv
<1>2. \A i \in 1 .. Len(job) : Decided[i] = IF i \in Indexes THEN "exported"
                                          ELSE IF i \in Range(errors) THEN "refused" ELSE "open"
    BY DEF Decided, Indexes
<1>3. /\ Indexes \subseteq 1 .. at - 1
      /\ 1 .. at - 1 \subseteq Indexes \cup Range(errors)
      /\ Range(errors) \subseteq 0 .. at - 1 \cup {Len(job) + 1}
    BY DEF ExportInv, IndexInv, ManifestError
<1>4. \A i \in 1 .. Len(job) : Decided[i] = "open" <=> ~(i < at)
    <2> SUFFICES ASSUME NEW i \in 1 .. Len(job)
                 PROVE  (i \notin Indexes /\ i \notin Range(errors)) <=> ~(i < at)
        BY <1>2
    <2>1. i < at <=> i \in 1 .. at - 1
        BY <1>1
    <2>2. i # Len(job) + 1 /\ (i \in 0 .. at - 1 => i \in 1 .. at - 1)
        BY <1>1
    <2> QED
        BY <1>3, <2>1, <2>2
<1> QED
    BY <1>1, <1>2, <1>4 DEF Decided

LEMMA PromiseStarts ==
    ASSUME Init
    PROVE  Promise!Init
<1>1. /\ stamped = FALSE /\ Range(manifest) = {} /\ Range(errors) = {}
      /\ Len(job) \in 0 .. MaxFiles
    <2>1. job \in Seq(Files) /\ Len(job) <= MaxFiles /\ MaxFiles \in Nat
        BY InitTypes, ExportJobAssumption DEF TypeOK
    <2> QED
        BY <2>1 DEF Init, Range
<1>2. Decided = [i \in 1 .. Len(job) |-> "open"]
    BY <1>1 DEF Decided
<1>3. EndingNow = "running"
    BY <1>1 DEF EndingNow
<1> QED
    BY <1>1, <1>2, <1>3 DEF Promise!Init, Decided, EndingNow

\* A step that decides nothing and does not end the export is not seen.
LEMMA UnseenSteps ==
    ASSUME ExportInv, job' = job, Indexes' = Indexes, EndingNow' = EndingNow,
           \A i \in 1 .. Len(job) : i \in Range(errors') <=> i \in Range(errors)
    PROVE  UNCHANGED Promise!vars
<1>1. \A i : (\E e \in Range(manifest) : e.index = i) <=> i \in Indexes
    BY DEF Indexes
<1>2. \A i : (\E e \in Range(manifest') : e.index = i) <=> i \in Indexes'
    BY DEF Indexes
<1>3. Decided' = Decided
    BY <1>1, <1>2 DEF Decided
<1> QED
    BY <1>3 DEF Promise!vars, Decided, EndingNow

\* The step that exports or refuses the current file decides it.
LEMMA DecidingSteps ==
    ASSUME ExportInv, ExportInv', ~stamped, ~stamped', job' = job,
           at \in 1 .. Len(job), at' = at + 1,
           \/ Indexes' = Indexes \cup {at} /\ Range(errors') = Range(errors)
           \/ Indexes' = Indexes /\ Range(errors') = Range(errors) \cup {at}
    PROVE  Promise!Next
<1>1. /\ Len(job) \in Nat /\ DOMAIN Decided = 1 .. Len(job)
      /\ \A i \in 1 .. Len(job) :
            Decided[i] = IF i \in Indexes THEN "exported"
                         ELSE IF i \in Range(errors) THEN "refused" ELSE "open"
      /\ \A i \in 1 .. Len(job) : Decided[i] = "open" <=> ~(i < at)
    BY DecidedIs
<1>2. /\ DOMAIN Decided' = 1 .. Len(job)
      /\ \A i \in 1 .. Len(job) :
            Decided'[i] = IF i \in Indexes' THEN "exported"
                          ELSE IF i \in Range(errors') THEN "refused" ELSE "open"
    <2>1. \A i : (\E e \in Range(manifest') : e.index = i) <=> i \in Indexes'
        BY DEF Indexes
    <2> QED
        BY <2>1 DEF Decided
<1>3. Decided[at] = "open" /\ \A j \in 1 .. at - 1 : Decided[j] # "open"
    BY <1>1
<1>4. Decided'[at] \in {"exported", "refused"}
    BY <1>1, <1>2
<1>5. \A i \in 1 .. Len(job) : i # at => Decided'[i] = Decided[i]
    BY <1>1, <1>2
<1>6. Decided' = [Decided EXCEPT ![at] = Decided'[at]]
    <2>1. Decided = [i \in 1 .. Len(job) |-> Decided[i]] /\ Decided' = [i \in 1 .. Len(job) |-> Decided'[i]]
        BY DEF Decided
    <2> QED
        BY <1>5, <2>1
<1>7. EndingNow = "running" /\ EndingNow' = "running"
    BY DEF EndingNow
<1>8. /\ EndingNow = "running" /\ Decided[at] = "open"
      /\ \A j \in 1 .. at - 1 : Decided[j] # "open"
      /\ \E d \in {"exported", "refused"} : Decided' = [Decided EXCEPT ![at] = d]
      /\ EndingNow' = EndingNow
    BY <1>3, <1>4, <1>6, <1>7
<1>9. PICK i \in DOMAIN Decided : i = at
    BY <1>1
<1>10. Promise!Decide(i)
    BY <1>8, <1>9 DEF Promise!Decide, Decided, EndingNow
<1> QED
    BY <1>10 DEF Promise!Next, Decided

\* A worker that is done does nothing more, and its status stays.
LEMMA DoneIsDone ==
    ASSUME place = "done", [Next]_vars
    PROVE  status' = status
<1>1. ~WorkerStep
    BY DEF WorkerStep, PrepareDestination, PrepareFails, StartFile, DirectoryRefused, ResolveTarget,
        ResolveFails, BeginCopy, EndCopy, CopyFails, CheckTarget, CheckRefuses, RenameTarget,
        RenameFails, BeginVerify, AllPartsWritten, VerifySucceeds, VerifyFails, AddManifestEntries,
        AddManifestEntriesFails, RemovePart, Refuse, BeginManifest, FilesDone, SkipManifest,
        WriteManifest, WriteManifestFails, CheckManifest, PublishManifest, PublishManifestFails,
        FinishExport
<1>2. ~ForeignWrite /\ ~Crash
    BY DEF ForeignWrite, Crash
<1> QED
    BY <1>1, <1>2 DEF Next, vars, session

LEMMA PromiseStep ==
    ASSUME ExportInv, ExportInv', [Next]_vars
    PROVE  [Promise!Next]_(Promise!vars)
<1>1. TypeOK /\ PlaceOK /\ (stamped => place = "done") /\ (stamped' => place' = "done")
    BY DEF ExportInv, PlaceOK
<1>2. job' = job
    BY <1>1, StepKinds, ResolveTypes, CheckTypes, RenameTypes, PublishTypes, ForeignTypes, GiveUpTypes,
        RemoveTypes, RefuseTypes, EntriesTypes, FailTypes DEF Quiet
<1>3. /\ Len(job) \in Nat /\ at \in 1 .. Len(job) + 1 /\ errors \in Seq(Nat)
      /\ SessionError = 0 /\ ManifestError = Len(job) + 1
    BY <1>1, Lengths DEF TypeOK, SessionError, ManifestError
<1>4. \A n \in Nat : Range(Append(errors, n)) = Range(errors) \cup {n}
    BY <1>3, RangeOfAppend
<1>5. manifest' = manifest => Indexes' = Indexes
    BY DEF Indexes
<1>6. stamped => status' = status
    BY <1>1, DoneIsDone
<1>counted. exported = 0 <=> Indexes = {}
    <2>1. exported = Cardinality(Indexes) /\ Indexes \subseteq 1 .. at - 1
        BY DEF ExportInv, IndexInv
    <2>2. IsFiniteSet(1 .. at - 1)
        BY <1>3, FS_Interval
    <2>3. IsFiniteSet(Indexes)
        BY <2>1, <2>2, FS_Subset
    <2> QED
        BY <2>1, <2>3, FS_EmptySet
<1>7. CASE UNCHANGED <<manifest, errors, stamped>>
    <2>1. EndingNow' = EndingNow
        BY <1>6, <1>7 DEF EndingNow
    <2> QED
        BY <1>2, <1>5, <1>7, <2>1, UnseenSteps
<1>8. \/ Quiet \/ ResolveTarget \/ (CheckTarget \/ CheckManifest) \/ RenameTarget \/ PublishManifest
      \/ ForeignWrite \/ GiveUpStep \/ RemovePart \/ Crash
      => UNCHANGED <<manifest, errors, stamped>>
    BY <1>1, ResolveTypes, CheckTypes, RenameTypes, PublishTypes, ForeignTypes, GiveUpTypes, RemoveTypes
       DEF Quiet, session, Crash
<1>9. CASE Refuse
    <2>1. /\ at \in 1 .. Len(job) /\ at' = at + 1 /\ place # "done" /\ place' = "next"
          /\ errors' = Append(errors, at) /\ manifest' = manifest
        BY <1>1, <1>9, RefuseTypes
    <2>2. ~stamped /\ ~stamped' /\ Range(errors') = Range(errors) \cup {at}
        BY <1>1, <1>3, <1>4, <2>1
    <2> QED
        BY <1>2, <1>5, <2>1, <2>2, DecidingSteps
<1>10. CASE AddManifestEntries
    <2>1. /\ at \in 1 .. Len(job) /\ at' = at + 1 /\ place = "entries" /\ place' = "next"
          /\ errors' = errors /\ Len(made) > 0
          /\ Range(manifest') = Range(manifest) \cup {ManifestEntry(k) : k \in 1 .. Len(made)}
        BY <1>1, <1>10, EntriesTypes
    <2>2. Indexes' = Indexes \cup {at}
        <3>1. \A k \in 1 .. Len(made) : ManifestEntry(k).index = at
            BY DEF ManifestEntry
        <3>2. 1 \in 1 .. Len(made)
            BY <1>1, <2>1, Lengths
        <3> QED
            BY <2>1, <3>1, <3>2 DEF Indexes
    <2>3. ~stamped /\ ~stamped'
        BY <1>1, <2>1
    <2> QED
        BY <1>2, <2>1, <2>2, <2>3, DecidingSteps
<1>11. CASE WriteManifestFails \/ PublishManifestFails
    <2>1. /\ errors' = Append(errors, Len(job) + 1) /\ manifest' = manifest
          /\ place # "done" /\ place' = "finish"
        BY <1>3, <1>11 DEF WriteManifestFails, PublishManifestFails, PushExportError, Go
    <2>2. \A i \in 1 .. Len(job) : i \in Range(errors') <=> i \in Range(errors)
        BY <1>3, <1>4, <2>1
    <2>3. ~stamped /\ ~stamped'
        BY <1>1, <2>1
    <2>4. EndingNow' = EndingNow
        BY <2>3 DEF EndingNow
    <2> QED
        BY <1>2, <1>5, <2>1, <2>2, <2>4, UnseenSteps
<1>12. CASE PrepareFails
    <2>1. /\ place = "prepare" /\ stamped' = TRUE /\ status' = "error" /\ manifest' = manifest
          /\ errors' = Append(errors, 0)
        BY <1>3, <1>12 DEF PrepareFails, FailExportSession, AppendExportLog
    <2>2. at = 1 /\ ~stamped
        BY <1>1, <2>1 DEF ExportInv, PlaceOK
    <2>3. EndingNow = "running" /\ EndingNow' = "error"
        BY <2>1, <2>2 DEF EndingNow
    <2>4. \A i \in 1 .. Len(job) : i \in Range(errors') <=> i \in Range(errors)
        BY <1>3, <1>4, <2>1
    <2>5. Decided' = Decided
        <3>1. manifest' = manifest /\ job' = job
            BY <1>2, <2>1
        <3> QED
            BY <2>4, <3>1 DEF Decided
    <2>6. DOMAIN Decided = 1 .. Len(job) /\ \A i \in 1 .. Len(job) : Decided[i] = "open"
        BY <2>2, DecidedIs
    <2>7. {i \in DOMAIN Decided : Decided[i] = "open"} = DOMAIN Decided
        BY <2>6
    <2>8. Promise!Abort
        BY <2>3, <2>5, <2>7 DEF Promise!Abort, Promise!With, Decided, EndingNow
    <2> QED
        BY <2>8 DEF Promise!Next
<1>13. CASE FinishExport
    <2>1. /\ place = "finish" /\ stamped' = TRUE /\ status' = FinalStatus /\ manifest' = manifest
          /\ errors' = errors
        BY <1>13 DEF FinishExport, AppendExportLog
    <2>2. at = Len(job) + 1 /\ ~stamped
        BY <1>1, <2>1 DEF ExportInv, PlaceOK
    <2>3. EndingNow = "running" /\ EndingNow' = FinalStatus
        BY <2>1, <2>2 DEF EndingNow
    <2>4. Decided' = Decided
        BY <1>2, <2>1 DEF Decided
    <2>5. /\ DOMAIN Decided = 1 .. Len(job)
          /\ \A i \in 1 .. Len(job) : Decided[i] # "open"
          /\ \A i \in 1 .. Len(job) :
                Decided[i] = IF i \in Indexes THEN "exported"
                             ELSE IF i \in Range(errors) THEN "refused" ELSE "open"
        BY <2>2, DecidedIs
    <2>6. {i \in DOMAIN Decided : Decided[i] = "open"} = {}
        BY <2>5
    <2>7. exported = 0 <=> {i \in DOMAIN Decided : Decided[i] = "exported"} = {}
        <3>1. exported = Cardinality(Indexes) /\ Indexes \subseteq 1 .. Len(job)
            BY <1>3, <2>2 DEF ExportInv, IndexInv
        <3>2. exported = 0 <=> Indexes = {}
            BY <1>counted, <3>1
        <3> QED
            BY <2>5, <3>1, <3>2
    <2>8. exported = 0 =>
              (errors # <<>> <=> {i \in DOMAIN Decided : Decided[i] = "refused"} # {})
        <3> SUFFICES ASSUME exported = 0
                     PROVE  errors # <<>> <=> {i \in DOMAIN Decided : Decided[i] = "refused"} # {}
            OBVIOUS
        <3>1. Indexes = {}
            BY <1>counted
        <3>2. Range(errors) \subseteq 1 .. Len(job)
            <4>1. manifest = <<>>
                <5>1. Range(manifest) = {}
                    BY <3>1 DEF Indexes
                <5>2. manifest \in Seq(Entries)
                    BY <1>1 DEF TypeOK
                <5> QED
                    BY <5>1, <5>2, EmptyRange
            <4>2. Range(errors) \subseteq 0 .. Len(job) \cup {Len(job) + 1}
                BY <1>3, <2>2 DEF ExportInv, IndexInv
            <4>3. 0 \notin Range(errors) /\ Len(job) + 1 \notin Range(errors)
                BY <1>3, <2>1, <4>1 DEF ExportInv, IndexInv
            <4>4. \A i \in 0 .. Len(job) : i # 0 => i \in 1 .. Len(job)
                BY <1>3
            <4> QED
                BY <4>2, <4>3, <4>4
        <3>3. errors # <<>> <=> Range(errors) # {}
            BY <1>3, EmptyRange
        <3> QED
            BY <2>5, <3>1, <3>2, <3>3
    <2>9. FinalStatus = IF /\ {i \in DOMAIN Decided : Decided[i] = "exported"} = {}
                          /\ {i \in DOMAIN Decided : Decided[i] = "refused"} # {}
                        THEN "error" ELSE "completed"
        BY <2>7, <2>8 DEF FinalStatus
    <2>10. Promise!Finish
        BY <2>3, <2>4, <2>6, <2>9 DEF Promise!Finish, Promise!With, Decided, EndingNow
    <2> QED
        BY <2>10 DEF Promise!Next
<1> QED
    BY <1>1, <1>7, <1>8, <1>9, <1>10, <1>11, <1>12, <1>13, StepKinds DEF FailStep

\* Every export deals with its files one after another, each exported or
\* refused, and its final status is an error only if nothing was delivered.
THEOREM ExportKeepsItsPromise == Spec => ImplementsPromise
<1>1. ExportInv /\ [Next]_vars => [Promise!Next]_(Promise!vars)
    BY ExportSteps, PromiseStep
<1> QED
    BY <1>1, PromiseStarts, ExportInvHolds, PTL DEF Spec, ImplementsPromise, Promise!Spec

===============================================================================
