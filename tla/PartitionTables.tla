--------------------------- MODULE PartitionTables ---------------------------
(***************************************************************************)
(* The inspection of a raw source for volumes: the MBR, the GPT and its    *)
(* backup at the end, and the boot signatures on the first MiB multiples,  *)
(* merged into one volume for each start.                                  *)
(*                                                                         *)
(* A source is [size, known, bad, mbr, gpt, boots]: its sectors and        *)
(* whether its file tells how many, the sectors that cannot be read, the   *)
(* MBR's entries, the GPT headers by sector, and at each sector the        *)
(* file-system headers found from there on.  Sectors are counted; a MiB    *)
(* is MibSectors of them.                                                  *)
(***************************************************************************)
EXTENDS Integers, SequencesExt

CONSTANTS MibSectors, ScanLimit      \* 2048 and 128 MiB in the code

Unknown == "Unknown"

\* read_sector and read_exact_at fail at an unreadable sector and past the end.
Reads(source, at, count) == at + count <= source.size /\ (at..(at + count - 1)) \cap source.bad = {}

\* What the program knows of the end: a device file has no length.
PastKnownEnd(source, at) == source.known /\ at > source.size

(*----------------------------- Boot signatures ---------------------------*)
NoBoot == [signed |-> FALSE, headers |-> <<>>]

BootAt(source, at) == IF at \in DOMAIN source.boots THEN source.boots[at] ELSE NoBoot

\* The headers detect_boot_sector looks for, the first that fits wins: the
\* sectors it reads and whether the boot sector must be signed.
HeaderChecks ==
  << [fs |-> "Apfs", sectors |-> 8, signed |-> FALSE],
     [fs |-> "HfsPlus", sectors |-> 3, signed |-> FALSE],
     [fs |-> "Ntfs", sectors |-> 1, signed |-> TRUE],
     [fs |-> "Exfat", sectors |-> 1, signed |-> TRUE],
     [fs |-> "Fat32", sectors |-> 1, signed |-> TRUE] >>

FileSystems == {HeaderChecks[i].fs : i \in DOMAIN HeaderChecks}

\* The number of sectors a header claims is plausible: detect_apfs_container and
\* its like.  A header whose other fields are senseless claims none.
Fits(source, at, claimed) == claimed > 0 /\ ~PastKnownEnd(source, at + claimed)

\* A check that would read past the known end is skipped.
Skipped(source, at, check) == PastKnownEnd(source, at + check.sectors)

Matches(source, at, check) ==
  LET boot == BootAt(source, at)
  IN /\ ~Skipped(source, at, check)
     /\ check.fs \in DOMAIN boot.headers
     /\ check.signed => boot.signed
     /\ Fits(source, at, boot.headers[check.fs])

NoMatch == [ok |-> TRUE, fs |-> Unknown, sectors |-> 0]
ReadFailed == [ok |-> FALSE, fs |-> Unknown, sectors |-> 0]

\* detect_boot_sector: an unreadable sector before the first match is an error.
Detected(source, at, matching) ==
  LET last == Min(matching \cup {Len(HeaderChecks)})
      fs == HeaderChecks[last].fs
  IN IF \E i \in 1..last : /\ ~Skipped(source, at, HeaderChecks[i])
                           /\ ~Reads(source, at, HeaderChecks[i].sectors)
     THEN ReadFailed
     ELSE IF matching = {} THEN NoMatch
     ELSE [ok |-> TRUE, fs |-> fs, sectors |-> BootAt(source, at).headers[fs]]

DetectBootSector(source, at) ==
  Detected(source, at, {i \in DOMAIN HeaderChecks : Matches(source, at, HeaderChecks[i])})

(*--------------------------------- Tables --------------------------------*)
Volume(start, sectors, fs, confidence, method) ==
  [start |-> start, sectors |-> sectors, fs |-> fs, confidence |-> confidence, methods |-> {method}]

NoAccounts == <<>>

\* filesystem_from_mbr_type, filesystem_from_gpt_type.
FilesystemFromMbrType(type) ==
  IF type = "fat32" THEN "Fat32" ELSE IF type = "hfs" THEN "HfsPlus" ELSE Unknown
FilesystemFromGptType(type) == IF type = "apfs" THEN "Apfs" ELSE Unknown

FilesystemFromType(scheme, type) ==
  IF scheme = "mbr" THEN FilesystemFromMbrType(type) ELSE FilesystemFromGptType(type)

\* The accounts a table gives of volumes, by the number of the entry, or none when
\* the table is refused: one boot sector that cannot be read drops all of it.
NamedAs(entries, match, scheme, confidence, method) ==
  LET Fs(i) == IF match[i].fs = Unknown THEN FilesystemFromType(scheme, entries[i].type) ELSE match[i].fs
  IN IF \E i \in DOMAIN match : ~match[i].ok THEN NoAccounts
     ELSE [i \in DOMAIN match |-> Volume(entries[i].start, entries[i].sectors, Fs(i), confidence, method)]

Named(source, entries, unused, scheme, confidence, method) ==
  LET used == {i \in DOMAIN entries : /\ entries[i].type \notin unused
                                      /\ entries[i].sectors > 0 /\ entries[i].start > 0
                                      /\ ~PastKnownEnd(source, entries[i].start + 1)}
  IN NamedAs(entries, [i \in used |-> DetectBootSector(source, entries[i].start)],
             scheme, confidence, method)

\* As many entries as are looked at.
MbrEntries == 4
GptEntries == 256
FirstEntries(entries, most) == IF Len(entries) <= most THEN entries ELSE SubSeq(entries, 1, most)

\* The sectors of so many GPT entries, of 128 bytes each.
EntrySectors(count) == (count + 3) \div 4

\* parse_mbr_partitions: the entries but the one that protects a GPT.
MbrVolumes(source) ==
  IF Reads(source, 0, 1) /\ source.mbr.signed
  THEN Named(source, FirstEntries(source.mbr.entries, MbrEntries), {"empty", "protective"}, "mbr", 90, "mbr")
  ELSE NoAccounts

\* parse_gpt_partitions, of the header at one sector: all entries are read at once.
GptVolumes(source, at, confidence, method) ==
  LET header == source.gpt[at]
      entries == FirstEntries(header.entries, GptEntries)
  IN IF /\ at \in DOMAIN source.gpt /\ Reads(source, at, 1)
        /\ header.entries # <<>> /\ header.usable
        /\ Reads(source, header.entriesAt, EntrySectors(Len(entries)))
     THEN Named(source, entries, {"empty"}, "gpt", confidence, method) ELSE NoAccounts

\* The bug of reading the backup header one sector past the last.
BackupHeaderPastEnd(source) == IF source.known THEN {source.size} ELSE {}

\* Where the backup header is, when the size is known.
BackupHeader(source) == IF source.known /\ source.size > 0 THEN {source.size - 1} ELSE {}

BackupVolumes(source) ==
  IF BackupHeader(source) = {} THEN NoAccounts
  ELSE GptVolumes(source, CHOOSE at \in BackupHeader(source) : TRUE, 92, "gpt-backup")

(*-------------------------------- Merging --------------------------------*)
\* merge_volume, of one account after the other: the first account of a start is
\* kept, and made better by the later ones.
MergeVolumes(volumes, accounts) ==
  LET Here(at) == {i \in DOMAIN accounts : accounts[i].start = at}
      Told(at) == {i \in Here(at) : accounts[i].fs # Unknown}
      First(at) == IF at \in DOMAIN volumes THEN volumes[at] ELSE accounts[Min(Here(at))]
  IN [at \in DOMAIN volumes \cup {accounts[i].start : i \in DOMAIN accounts} |->
        [First(at) EXCEPT
           !.fs = IF @ # Unknown \/ Told(at) = {} THEN @ ELSE accounts[Min(Told(at))].fs,
           !.confidence = Max({@} \cup {accounts[i].confidence : i \in Here(at)}),
           !.methods = @ \cup UNION {accounts[i].methods : i \in Here(at)}]]

\* signature_scan_offsets.
ScanOffsets(source) ==
  LET end == IF source.known THEN Min({source.size, ScanLimit}) ELSE ScanLimit
  IN {k * MibSectors : k \in {k \in 1..(ScanLimit \div MibSectors) : k * MibSectors < end}}

NoVolumes == <<>>

Listing(ok, volumes) == [ok |-> ok, volumes |-> volumes]

\* What the tables name, merged in the order they are read.
TableVolumes(source) ==
  MergeVolumes(MergeVolumes(MergeVolumes(NoVolumes, MbrVolumes(source)), GptVolumes(source, 1, 96, "gpt")),
               BackupVolumes(source))

WithSigned(named, match) ==
  LET found == {at \in DOMAIN match : match[at].fs # Unknown}
  IN IF \E at \in DOMAIN match : ~match[at].ok THEN Listing(FALSE, NoVolumes)
     ELSE Listing(TRUE, MergeVolumes(named,
            [at \in found |-> Volume(at, match[at].sectors, match[at].fs, 74, "boot-signature")]))

\* inspect_potential_volumes: a boot signature is looked for only where no table
\* names a volume, and a sector that cannot be read there ends the inspection.
SignedToo(source, named) ==
  WithSigned(named, [at \in ScanOffsets(source) \ DOMAIN named |-> DetectBootSector(source, at)])

PotentialVolumes(source) == SignedToo(source, TableVolumes(source))

(*------------------------------ Its promise ------------------------------*)
\* A disk with the volumes [start, sectors, fs, type], named in an MBR or a GPT;
\* "damage" is which of "mbr", "gpt" and "backup" was overwritten, "wiped" the
\* starts of the volumes that lost their headers; a device file is not "known".
Partitioned(volumes, size, scheme, known, damage, wiped) ==
  LET entries == [i \in DOMAIN volumes |-> [start |-> volumes[i].start, sectors |-> volumes[i].sectors,
                                            type |-> volumes[i].type]]
      protective == [start |-> 1, sectors |-> size - 1, type |-> "protective"]
      headers == (IF scheme = "gpt" /\ "gpt" \notin damage THEN {1} ELSE {})
                 \cup (IF scheme = "gpt" /\ "backup" \notin damage THEN {size - 1} ELSE {})
      intact == {i \in DOMAIN volumes : volumes[i].start \notin wiped}
  IN [size |-> size, known |-> known, bad |-> {},
      mbr |-> [signed |-> "mbr" \notin damage,
               entries |-> IF scheme = "mbr" THEN entries ELSE <<protective>>],
      gpt |-> [at \in headers |-> [usable |-> TRUE, entries |-> entries,
                                   entriesAt |-> IF at = 1 THEN 2
                                                 ELSE size - 1 - EntrySectors(Len(volumes))]],
      boots |-> [at \in {volumes[i].start : i \in intact} |->
                   LET v == volumes[CHOOSE i \in DOMAIN volumes : volumes[i].start = at]
                   IN [signed |-> v.fs \notin {"Apfs", "HfsPlus"},
                       headers |-> [fs \in {v.fs} |-> v.sectors]]]]

\* Volumes with a start of their own, each large enough for its header, no more of
\* them than a table is read for, on a source that holds both GPTs and, where its
\* size is not known, goes on behind every place where the check of a header reads:
\* on a smaller device a check reads past the end, and the inspection fails.
IsPartitioned(disk) ==
  LET volumes == disk.volumes
      Far(at) == disk.known \/ at + 8 <= disk.size
      Room(fs) == IF fs = "Apfs" THEN 8 ELSE IF fs = "HfsPlus" THEN 3 ELSE 1
  IN /\ volumes \in Seq([start : Nat \ {0}, sectors : Nat \ {0}, fs : FileSystems,
                         type : STRING \ {"empty", "protective"}])
     /\ Len(volumes) <= (IF disk.scheme = "mbr" THEN MbrEntries ELSE GptEntries)
     /\ disk.size \in Nat /\ disk.size > 3 + 2 * EntrySectors(Len(volumes))
     /\ disk.known \in BOOLEAN /\ disk.scheme \in {"mbr", "gpt"}
     /\ \A i \in DOMAIN volumes :
          /\ volumes[i].start + volumes[i].sectors <= disk.size /\ Far(volumes[i].start)
          /\ volumes[i].sectors >= Room(volumes[i].fs)
     /\ \A i, j \in DOMAIN volumes : volumes[i].start = volumes[j].start => i = j
     /\ \A k \in 1..(ScanLimit \div MibSectors) : k * MibSectors < ScanLimit => Far(k * MibSectors)

\* Every volume a table left intact names, or whose header stands on a MiB
\* multiple below the limit, is listed at its start with its size and its file
\* system, as far as one is left that tells it; and nothing else is listed.
ListsVolumes(listed, kept, Fs(_)) ==
  /\ listed.ok
  /\ DOMAIN listed.volumes = {v.start : v \in kept}
  /\ \A v \in kept : /\ listed.volumes[v.start].sectors = v.sectors
                     /\ listed.volumes[v.start].fs = Fs(v)

FindsEveryVolume(volumes, size, scheme, known, damage, wiped) ==
  LET tabled == \/ scheme = "mbr" /\ "mbr" \notin damage
                \/ scheme = "gpt" /\ ("gpt" \notin damage \/ (known /\ "backup" \notin damage))
      Header(v) == v.start \notin wiped
      Kept(v) == tabled \/ (Header(v) /\ v.start % MibSectors = 0 /\ v.start < ScanLimit)
  IN ListsVolumes(PotentialVolumes(Partitioned(volumes, size, scheme, known, damage, wiped)),
                  {v \in Range(volumes) : Kept(v)},
                  LAMBDA v : IF Header(v) THEN v.fs ELSE FilesystemFromType(scheme, v.type))
=============================================================================
