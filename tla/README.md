# A TLA+ model of Récupère

Récupère recovers deleted files: it lists or images a device, analyses the
image, and exports what it finds.  This directory models two sides of its Rust
back end (`src-tauri/src`): the parts in which several threads, a crash or a
failing disk make the order of steps matter, and the parts that read what is on
the disk.  TLC checks both; TLAPS proves, for every value of the constants, what
matters most of the first, and of the second the promises of those readers that
are not recursions over a file system.

## 1. The system

| Component | State it keeps | Operations | What is hard about it | What makes it correct |
|---|---|---|---|---|
| Scan session (`commands/state.rs`, `commands/scan.rs`) | status, results, log, completion time; a control block with `paused` and `cancelled`; a record in the history archive | `start_scan`, `pause_scan`, `resume_scan`, `cancel_scan`, `get_results`, the persistence hook | one worker thread and any number of command threads; every command checks and stores in different critical sections | one truthful ending, no result changed after it, pause and cancel take effect, nobody sleeps for ever |
| Scan workers (`commands/scan.rs`, `commands/imaging_cmd`) | the image path and the files found so far | eleven programs: inventory, six deleted-entry scans, lost volume, carving, imaging with and without a rescue map | where each one asks for permission, and what it does after the last time | as above, for every program |
| Imaging engine (`imaging/mod.rs`) | `.partial` file, `.partial.json` checkpoint, finished image, write buffer, unreadable ranges | start, resume, copy, skip, refine, finalise | crash, cancellation or failed write between any two steps; what is in the buffer and what is on disk | no gap is presented as data, no unit is misplaced, captured units are kept |
| History archive (`commands/state.rs`) | one JSON file of records, newest first, truncated | upsert, load, purge | load, modify, write without a lock, one shared temporary file | no session's record is lost (not so: section 5) |
| Export job (`commands/export.rs`) | progress, errors, destination files, manifest | `start_export`, copy, verify, finalise, fail | transient error status, replace by remove and rename, conflicts | a file reported as exported is whole; the audit event says how it ended (not so: `export_audit`) |
| Audit trail (`audit/mod.rs`) | hash-chained records, next id | record, clear, verify, load | an unreadable file reads as an empty trail | the chain verifies, nothing recorded is lost (not so: section 5) |
| Filesystem memory (`filesystem_memory/`) | snapshots in a JSON-lines store; a scheduler thread and its policy | capture, persist, rotate, diff; start, stop, tick | stop and start in two critical sections; unlocked store | at most one scheduler, no snapshot lost (not so: section 5) |
| Remote registry and client (`remote/`) | agents in memory, in a file, tokens in the keyring | add, remove, list, call | three stores changed one after another | a removed agent stays away, a wanted one stays (not so: section 5) |
| Remote agent (`crates/recupere-agent`) | a token; a directory for each pull | an HTTP route for each command | runs commands on a thread pool, so they are concurrent; its answer can come after the client has given up | a pulled file is whole and the one that was asked for (not so: section 5) |
| Imported sources (`imported_sources/`) | a register; a read-only image of each container | import, remove, prepare for analysis | the image is a cache of a file that others write; a copy can be interrupted and resumed | analysis sees what the container holds |
| Containers (`virtual_disk/`) | header, tables and position of an open container | open, seek, read of VHD, VMDK, E01 and raw images | blocks, bitmaps, chunks, reads across them | reads give what was written (not so: `vhd_bitmap`, and section 5 for E01) |
| Partition tables (`partitioning/`) | none | list the volumes of a source | a damaged table, header or backup | every volume a sound table names, each once |
| RAID (`raid/`) | the configuration | read, reconstruct, write out | parity moves with the row; lost members | the array reads as it was written |
| File systems (`analyzers/`) | none | list the files, recover deleted ones, of NTFS, FAT32, exFAT, ext4, HFS+, APFS; change journals | a deleted file's clusters, records and names may belong to others | nothing foreign called whole, nothing that is left missed |
| Carving (`carving/`) | what it has found | scan in windows and segments, find the end, validate, remove gaps | headers across windows; a candidate that swallows the next | no header is passed over |
| Correlation (`correlation/`) | none | put together what analyser, journal and fallback found | three passes drop files by three likenesses | the best copy survives |

Parts without such behaviour are listed in `PROJECT.json` as not modelled, each
with its reason: device detection, previews, scoring, AI summaries, licences and
encryption, and the user interface.

Interactions.  A command starts a session and spawns its worker.  The worker
runs the imaging engine, whose progress callback is where most workers ask for
permission; the commands talk to the worker through the control block alone, a
mutex with a condition variable.  Everyone who changes a session calls
`persist_scan_session`, which writes the record to the archive and then emits
the terminal audit event.  The desktop runs its synchronous commands one after
another; the remote agent runs each in `run_blocking`
(`crates/recupere-agent/src/http.rs:251-262`), so several can be inside the
same session at once.  That is why `ScanSession` has a set of callers.

## 2. Plan

Done:

1. **`ScanSession`** with `ScanWorkers`, implementing `CancellableJob`; its
   proofs in `ScanSessionProofs`.
2. **`PartialImage`**: one destination of the imaging engine; its proofs in
   `PartialImageProofs`.
3. **`ExportJob`**, implementing `ExportPromise`; its proofs, the refinement
   among them, in `ExportJobProofs`.
4. **The stores**: `HistoryArchive`, `AuditChain`, `MemoryScheduler`,
   `MemoryStore`, `RemoteRegistry`, `RemotePull`, `ImportedSources`, in one run;
   their proofs in `StoreProofs`.
5. **The readers**: `RaidArray`, `VirtualDisks`, `PartitionTables`, `Ntfs`,
   `Fat32`, `Exfat`, `Ext4`, `HfsPlus`, `Apfs`, `Carving`, `Correlation`,
   `SnapshotDiff`, each against what was written, in the same run.  Six of them are
   put together in `SourceReaders`, whose inputs are constants; the proofs of their
   promises are in `ReaderProofs`, `CarvingProofs` and `RaidProofs`.

To do, in this order:

6. The rescue map of the imaging engine (`refinement_chunks_for_range`,
   `build_imaging_map_blocks`, `parse_external_rescue_map`) against reference
   definitions.
7. The raw scans of the fallback module, and the HFS+ journal once its record
   type is the one that occurs on disk (see section 5).
8. Theorems about what the analysers share: runs of bytes (`ByteRuns`) and chains of
   clusters (`ClusterChains`), whose steps do not recur over a whole volume.

## 3. Modules

| Module | What it is |
|---|---|
| `ScanWorkers` | the eleven worker programs, as sequences of the steps that touch a session |
| `ScanSession` | one session, its worker, its callers, its record and its audit events |
| `CancellableJob` | what a session promises to those who watch it |
| `ScanSessionProofs` | theorems about `ScanSession` |
| `PartialImage` | one image destination, the process that fills it, and its crashes |
| `PartialImageProofs` | theorems about `PartialImage` |
| `ExportJob` | one export: its worker, the files of its destination, its manifest, its record and its audit events |
| `ExportPromise` | what an export promises to those who watch it |
| `ExportJobProofs` | theorems about `ExportJob`, and that it implements `ExportPromise` |
| `TempFile` | a file rewritten through a temporary name, as inodes and names |
| `StableSort` | what `slice::sort_by` does |
| `ListLemmas` | what is defined by recursion over a list exists; a sorted list exists, has what was sorted, and is in order; so has the ranking of a set |
| `HistoryArchive` | the archive of sessions under several threads, purges, crashes and full disks |
| `AuditChain` | the hash-chained trail in memory and on disk |
| `MemoryScheduler` | the scheduler thread of the filesystem memory and the saves that start and stop it |
| `MemoryStore` | the snapshots on disk, and the command and the tick that write them |
| `RemoteRegistry` | remote agents in memory, in a file and in the keyring |
| `RemotePull` | one file pulled from an agent: two processes and their timeouts |
| `ImportedSources` | the register of containers and the image each is analysed through |
| `StoreProofs` | theorems about `HistoryArchive`, `AuditChain`, `MemoryScheduler`, `MemoryStore`, `RemoteRegistry`, `RemotePull` and `ImportedSources` |
| `RaidArray`, `VirtualDisks`, `PartitionTables` | what turns members, VHD and VMDK containers and disks into volumes |
| `ByteRuns`, `ClusterChains` | what the analysers share: runs of bytes; chains of the two FATs |
| `Ntfs`, `Fat32`, `Exfat`, `Ext4`, `HfsPlus`, `Apfs` | the analysers |
| `Carving`, `Correlation`, `SnapshotDiff` | carving, the putting together of what was found, the comparison of two snapshots |
| `SourceReaders` | arrays, captures, carved images, containers, partitioned disks and lists of recovered files, each read once: the promises that are theorems |
| `ReaderProofs` | theorems about `SourceReaders`: `SnapshotDiff`, `Correlation`, `VirtualDisks` and `PartitionTables` |
| `CarvingProofs` | the theorem about `SourceReaders` and `Carving` |
| `RaidProofs` | the theorem about `SourceReaders` and `RaidArray` |
| `MCScanSession`, `MCPartialImage`, `MCExportJob` | values for their runs |
| `MCReaders` | the inputs of all readers, and the promises of the analysers |
| `MCParts` | the stores and the readers, side by side |

### ScanSession

A step is a critical section.  Wherever the code releases the session mutex or
the control mutex, the operation is cut in two, so every interleaving of the
code is an interleaving of the model.  `request_scan_pause`, for instance, is
`PauseCheck` (lines 786-797), `PauseControl` (799-803), `PauseStatus` (805-812)
and then the persistence hook.

* `status`, `stamped`, `files` are `progress.status`, `completed_at_ms` and the
  number of results; `paused`, `cancelled` are the control block and `asleep`
  says that the worker is parked in its condition variable.
* `pc`, `back`, `held` place a thread in its operation: where it is, where it
  continues after `persist_scan_session`, which status it copied out last.
* `program`, `at`, `left`, `found` are the worker's locals.  `Log`, `Begin`,
  `Work`, `CopyChunk`, `Gate...`, `CatalogEntry` and `Publish` interpret the
  steps of its program; `FailCheck` and `FailStatus` are `fail_scan_session`,
  `FinalizeCancelled` is `finalize_cancelled_scan`.
* `Snapshot`, `Write`, `AuditRead`, `Mark` are `persist_scan_session`.  The
  archive is this session's record only, and its update is one step.
* `outcome` and `late` are history: how the worker ended, and how many results
  were pushed since the control block was closed.

The initial state is the one `initialize_scan_session` leaves when its first
write has succeeded or failed.  A spurious wake-up of the condition variable is
a step of its own.  Stage names, percentages, byte counters and log texts are
left out.

### PartialImage

A step changes at most one file, so that a crash can fall between any two.  A
crash ends the process and not the machine: what was handed to the operating
system stays, what is in the `BufWriter` is gone.  (`flush` does not call
`fsync`; a power failure is not modelled.)

* `partial`, `checkpoint`, `image` are the three files, `Absent` when they do
  not exist; `Torn` is a checkpoint between truncation and writing.  A unit of a
  file is `<<source, offset>>` or `Zero`.
* `buffer` is the `BufWriter`, modelled after the standard library: it flushes
  when the data do not fit, and data as large as the buffer pass it by.
* `ranges`, `lastEnd`, `tally`, `passes`, `work` are the locals of the copy and
  of the refinement; `told` is what the caller got with the finished image.
* `Resume`, `Discard`, `Fresh` are `prepare_partial_image_destination`;
  `ReadChunk` to `EndCopy` the copy loop; `BeginPass` to `EndRefinement` the
  refinement; `Replace`, `Rename`, `Clean` are `finalize_partial_image`.

A `source` stands for what a checkpoint identifies: path, start, requested and
actual length.  Reads may fail at the offsets in `Bad`, and may succeed there
later.  A refinement pass may patch any part of an unreadable range; its block
sizes and its order are left open, and so is how much of it succeeds.

### ExportJob

One worker runs `run_export_job`; others may put files into the destination, and
the process may die between any two steps.  A step changes at most one file.

* `dest` maps a path to what stands there, `temp` is the temporary file of the
  copy under way, `strays` counts those that stayed behind, `doomed` is what is
  left to remove of a refused file and `unremoved` what could not be.  `status`,
  `stamped`, `exported`, `errors` are the `ExportSession`, `manifest` its
  entries, `archive` its record, `marked` and `trail` its audit events.
* `place`, `at`, `made`, `target` are the worker's locals.  `StartFile` to
  `RenameFails` are `export_recovered_file` with its resource fork and alternate
  streams, `GiveUp`, `RemovePart` and `Refuse` the cleaning up after a refusal, one
  removal at a time, `BeginVerify` to
  `AddManifestEntriesFails` verification and the entry, `BeginManifest` to
  `PublishManifestFails` the manifest, `FinishExport` the end.
* Nobody but the worker writes to an export session, so
  `persist_export_session` is part of the step that calls it.
* Every call that can fail has a step in which it fails, the removals among them:
  nobody looks at whether one succeeded, so a refused part, or a temporary file
  (`DropTemporary`), may stay.

`ImplementsPromise` maps the session to `ExportPromise`: every file is exported or
refused and never both, and an export is an error only if it delivered nothing.

### The stores

* `TempFile` has names and inodes, a set `Inodes` of them: two writers that open one temporary name share
  its inode, so that one may rename what the other is still filling.
* `HistoryArchive`: `cycle` places a thread in
  `upsert_scan_history_record` (take, load, open, fill, rename);
  `expected` and `overlapped` are history.
* `AuditChain`: `trail`, `nextId` are the state under the mutex, `trailFile` the
  file.  A hash is the hashed record itself.  `EditFile` is somebody with an
  editor, which is what the chain is there for; `forgedFile`, `forgedTrail`
  remember what was edited.  A start may fail to read the file.
* `MemoryScheduler`: `SavePolicy`, `TakeHandle`, `JoinThread`, `SpawnThread`,
  `InstallHandle` are the steps of `save_policy` and `start_with_policy`;
  `PollChannel`, `EndTick` those of the thread.
* `MemoryStore`: each of the two writers goes twice through load, open, fill,
  rename, once to add and once to rotate.
* `RemoteRegistry`: a command is one step, as the mutex makes it; each of its
  saves may fail to open the file (`OpenFails`) or stop half-way (`WriteTears`), a
  token may not be deleted, and a start may be unable to read the file or any of
  the tokens.  `wanted`, `wasRemoved`, `hidden`, `clinging` are history.
* `RemotePull`: `jobs` are the agent's pulls, each with its export, which writes
  the file, a sidecar and the manifest part by part into the pull's directory
  (`artifacts`) through temporary files; `desktop`, `local`, `outcome` are the
  client's.  Either side may give up waiting, and the export goes on.
* `ImportedSources`: commands follow one another; containers are written by
  others at any time, and modification times are compared as the code does.

### The readers

A reader has no state that outlives a call, so each is an operator from what is
on the disk to what the code returns, errors included: `Failed` is an `Err`
which ends everything, where the code propagates it.  A cell of an image is not
a byte but what the reader tells apart: a record of the file table, an entry of
a directory, a node of a tree, a piece of a file's data.  Names are numbers or
short strings, dates are left out, and so is everything said to the user.  Sizes,
offsets, clusters, runs, fix-ups, allocation maps and the order in which things
are looked at are kept.

The last part of each module writes a volume as its file system would
(`Formatted`, `Written`) and states the promise: what was written is what is
read.  Where the code promises less, the promise says so at its definition.

* `RaidArray` computes in the field of 256 elements; the tables of `raid/gf.rs` are
  modelled by the product, power and quotient they hold.  The exclusive-or is a
  parameter, `ByteXor`, of which `RaidAssumption` says what it is, digit by digit
  (`IsExclusiveOr`); the runs give it the bitwise operator.
* `VirtualDisks`: `VhdCell`, `VmdkDisk` read one cell; `ReadSource` repeats reads
  as `Read` does.
* `PartitionTables`: at most 4 entries of an MBR and 256 of a GPT, the latter read
  as all their sectors at once.
* `SnapshotDiff`: the content of a file is a sequence of windows of 64 KiB, of which
  `PartialHash` looks at the first, the last and their number once there are more
  than two.
* `Ntfs`: `ParseRecord` with `FixedUp`, `LoadRecordsAndIndex`, `DeletedRuns` and
  `VisibleRuns` for plain, compressed and resident data,
  `RecoverUsnJournalFiles` for the change journal.
* `Fat32`, `Exfat`: `ScanDirectory`, `DeletedCandidate`, `VisibleCandidate`.
* `Ext4`: `CollectTree`, `DeletedCandidate`, `RecoverJournalFiles`.
* `HfsPlus`: `InspectVolume` with its wrapper, `ResolveExtents` with the overflow
  file, `StaleFiles` for the slack of a leaf.
* `Apfs` begins with what the crate `apfs` returns.
* `Carving`: `CarveSegment` is the loop over windows, `StrategyEnd` the strategies
  that find an end, `FragmentedPieces` the removal of gaps, `Segments` the division of
  an image among threads and `Merged` what is made of their candidates.  `SubFollows`
  is the sub-header some headers need (RIFF, PK): only the first place of a header
  in a window is tried.

### Composition

The stores and the readers share no state, so `MCParts` chooses one of them in
its first state and runs it alone: the run is a union of small ones.
A reader's behaviour is two states long: it chooses an input, and the promise is
an invariant of the second state.  `SourceReaders` takes the inputs from the
constants `RaidArrays`, `Captures`, `CarvedImages`, `DiskFiles`, `SourceDisks` and
`ScanResults`, and a named assumption says of each what its members are: an array of
whole rows (`IsArray`), two folders (`Folder`), an image and a number of threads (`IsCarvable`; the sizes of
windows and pages are those of `WindowsOverlap`), a disk in a container (`IsDiskFile`), volumes that lie on their disk
and begin in different places (`IsPartitioned`), lists of files (`IsFileList`).  TLC
evaluates the assumptions on the small sets of `MCReaders`; the theorems are about
any sets that satisfy them.

## 4. Runs

| Run | Bounds | States | Shows |
|---|---|---|---|
| `session_race` | 2 callers, 2 programs, 2 units, 2 commands, failing writes | 945 000 | `TypeOK`; `AuditTruthful`: one terminal event at most, and the true one; `ArchiveTruthful`: stale snapshots never report an ending that did not happen; `CompletedIsWhole`: an export that sees `completed` takes all results; `PromptStop`: at most one result after a pause or cancel |
| `session_workers` | 1 caller, all 11 programs, 1 unit, 3 commands, fair | 245 000 | `ResultsFrozen`; `ImplementsJob`: the session implements `CancellableJob`; `CancelStopsWorker`, `RunsToEnd` |
| `session_pause_ended` | 1 caller, 1 command | violation | `OnlyActivePaused` |
| `session_resume` | 1 caller, 2 commands | violation | `ResumeTakesEffect` |
| `image_resume` | 2 sources of 4 units, 2 unreadable, buffer 3, skip 2, 2 passes, 3 starts, failing writes | 432 000 | `NoSilentGap`, `InPlace`, `TallyMatches`, `ReplaceLast`, `CapturedKept`, `Ends` |
| `export_job` | 2 results of one name, one with a fork and two streams whose names become one; 4 selections, 3 strategies, 2 pairs of devices, one of which is refused; 3 things already in the destination; 1 file of others; every failure; a crash | 295 000 | `WholeArtifacts`, `ManifestTruthful`, `UserFilesKept`, `CleanEnd`; `ImplementsPromise`; `ExportEnds` |
| `export_audit` | the same | violation | `EndsInLockStep` |
| `parts` | see below | 702 000 | `SerialHistoryKept`, `ArchiveWellFormed`, `EditsAreNamed`, `NoStrayScheduler`, `SchedulerFollowsPolicy`, `NewestSnapshotsKept`, `RegistryKept`, `PullVerified`, `AnalysisSeesTheSource`; `RaidBuildsBack`, `VirtualDisksReadBack`, `VolumesAreFound`, `NtfsFilesAreRecovered`, `FilesAreRecovered`, `HeadersAreMet`, `BestCopiesSurvive`, `DiffTellsTheTruth` |
| `raid_degraded` | arrays of 4 members | violation | `DegradedRaid6BuildsBack` |
| `vhd_bitmap` | dynamic VHDs of 20 sectors in blocks of 16 | violation | `BitmapIsOneSector` |
| `image_gap` | 1 source of 2 units, 2 starts | violation | `ZerosTraced` |
| `image_count` | 1 source of 2 units, 2 starts | violation | `CountsHoles` |

What the properties of `parts` say, each at the code it is about:

| Property | Says |
|---|---|
| `SerialHistoryKept` | as long as no cycle began inside another, the archive is what the completed upserts and purges make of it, whatever crashes, full disks and left-over temporary files came between |
| `ArchiveWellFormed` | however cycles overlap, a readable archive has each session once, newest first, within its limit |
| `EditsAreNamed` | the verifier names the record after each edited one and no other; ids grow along a trail |
| `NoStrayScheduler` | however saves overlap, a scheduler nobody has told to leave is in the slot or about to be |
| `SchedulerFollowsPolicy` | after saves that follow one another, what runs is what the policy file says |
| `NewestSnapshotsKept` | a snapshot is only pushed out by enough newer ones of its own target, whatever fails |
| `RegistryKept` | a removed agent comes back only if neither its token nor its entry could be removed; one whose addition succeeded is missing only if some start could not read its token or the file |
| `PullVerified` | a pull that succeeds left, complete, a file that this request's own export wrote, whatever the export of one that timed out still does |
| `AnalysisSeesTheSource` | the image given for a container holds what the container holds, after removals, interrupted copies and restarts |
| `RaidBuildsBack` | an array, complete or degraded, reads as it was written (single-failure RAID 6 and wide mirrors apart) |
| `VirtualDisksReadBack` | so does a disk in a VHD or VMDK, from any position on and at any length (wide VHD blocks apart) |
| `VolumesAreFound` | every volume an intact table names, or whose header is left where it is looked for, is listed once, and nothing else; at most as many volumes as a table is read for |
| `NtfsFilesAreRecovered` | every deleted file with a readable record is found with what nobody has overwritten, and is called whole only if that is all of it; without torn records a deletion in the journal goes to its file |
| `FilesAreRecovered` | the same of FAT32, exFAT, ext4, HFS+ and APFS, as far as each analyser promises it |
| `HeadersAreMet` | no header with room for a file is passed over, whatever window or segment it falls into, but for one with a sub-header that another header near it hides; what is called intact or reassembled validates |
| `BestCopiesSurvive` | a file is dropped only for one that stands for it and, without a journal, is as good |
| `DiffTellsTheTruth` | of two complete captures, what is called lost is nowhere, what is called moved is where it is said to be, as far as size, first and last window tell files apart |

Why the bounds are enough.  Two callers and one worker are three threads that
persist: one can hold a stale snapshot, one be about to mark the event and one
change the status.  Two commands are enough to pause and cancel, or to pause
and resume, or to cancel twice; three, in `session_workers`, to pause, resume
and cancel.  Two units let the worker be inside the first while the second is
ahead of it.  The two programs of `session_race` are one that pushes results as
it goes and one that publishes them at its end from a polled copy; the others
are built of the same steps and run in `session_workers`, whose one caller is enough
for liveness: what keeps a worker from ending is a flag that a command left, and
commands change the flags one at a time under their lock.  In `image_resume` the
source is longer than the buffer, the skip is cut short at the end of the
source, two unreadable offsets are far enough apart for two ranges and near
enough for one merged range, and three starts allow two interruptions before
the acquisition that finishes, or a finished image that is then replaced.

In `export_job` two results of one name meet each other and a file that was
there, so that "rename" counts, "skip" skips and "overwrite" replaces; the fork
and the two streams give the first a sidecar of each kind and two that collide;
a selection that names nothing known, or a destination on the device being
recovered, is refused; an empty selection exports everything.

Bounds of `parts`.  *History*: 3 sessions, 2 threads, a limit of 2 records, 3
cycles or purges: two cycles overlap and a third sees what they left, and one
record is truncated.  *Audit*: 4 ids, 3 starts: a trail is edited at its
beginning, in the middle and at its end, and purged, and used again after a
restart. *Scheduler*: 2 saves at once, 3 threads, 2 polls to a tick: a handle is
overwritten while another save waits for a thread to end.  *Store*: 2 targets, 2
snapshots of each kept, 3 snapshots: one is rotated away while the other target's
must stay. *Registry*: 2 agents, 5 operations: an addition, a removal that fails and a
start, with a save between.  *Pull*: 2 pulls, so that the export of the first can still
write under the second.  *Sources*: 1 container, 4 writes or older
copies. *RAID*: 2 to 4 members, every set of lost ones that leaves one, stripes of 1
and 2 units, enough rows for the parity to go round.  *Containers*: every order of
allocation of 3 or 4 blocks, sizes that end inside a block or a table;
every first position and length of a read.  *Captures*: contents of up to three windows,
so that two files can differ in what no hash looks at, and folders that cannot be read.  *Partitions*: three volumes that touch
or leave a gap, every combination of damaged tables and wiped boot sectors,
sources of known and unknown size.  *File systems*: two files, each there or
deleted, with clusters in a row, backwards and apart, sizes that end inside a
cluster, clusters taken by others; fragmented and torn file tables (NTFS); extent
trees with an index (ext4); stale copies in the leaf before, of and after the live
record (HFS+).  *Carving*: 17 pieces before and after each other, with the window
at 6 cells and the overlap at 3, so that every header and footer falls across a
boundary somewhere; 1 to 3 threads, so that the segments divide the image with and
without a remainder.  *Correlation*: up to four files that agree
or differ in name, size, place, hash and score.

Symmetry is used in `session_race`, where the commands treat their threads alike,
and in `parts`, for the threads of the archive and the saves of the scheduler;
neither checks liveness.  Deadlock is not checked in the runs whose behaviours end:
a finished session, image or export, a store that has used its operations, a
reader that has read.

Fairness.  `session_workers` assumes weak fairness of the worker's steps and of
each command that was issued: an operating-system thread that can run does run.
Nobody is assumed to issue a command.  Writes, reads and analyses are assumed
to return.  The condition variable is fair only through the worker: the step
that wakes it belongs to `resume` or `cancel`.  `PartialImage` assumes the same
of the acquisition, and nothing of crashes or of whoever starts it again;
`ExportJob` of the export's worker, and nothing of crashes or of other programs.

Properties that may look stronger than they are.  `RunsToEnd` speaks of the
flag `paused`, not of the status: the two can disagree (see below).  `Ends` says
that an acquisition returns, not that it returns promptly after a cancellation:
the refinement passes never ask.  `CapturedKept` is about files that can be
resumed: a crash while the checkpoint is being rewritten leaves one that does
not parse, and then the captured units are given up.  `ArchiveTruthful` allows a
record to be older than the session.  `SerialHistoryKept` and
`NewestSnapshotsKept` speak of cycles that do not overlap, crashes and full disks
included: of two that do overlap the code loses one, without a lock to prevent it
(section 5).
`SchedulerFollowsPolicy` likewise.  `AnalysisSeesTheSource` leaves out a container
that was written during an unfinished copy.  `CleanEnd` leaves out alternate
streams: when one cannot be written, the caller does not learn of those before it
and cannot remove them (`commands/export.rs:2917`); and it lets stay what the program
tried in vain to remove.  `PullVerified` does not say which part of the export was
delivered (section 5).

A reader's promise holds for the volumes the module writes; damage other than what the
inputs contain is not covered.  `VolumesAreFound` has no bad sectors, and no device of
unknown size so small that the check of a header reads past its end.
`NtfsFilesAreRecovered` takes resident cells for whole though they have the update
sequence number still in them, and finds a deleted compressed file with a hole never,
of which only `SizeLeft` speaks; no run reaches out of the volume, where the code
checks only the first cluster before it reads.  In `FilesAreRecovered` a block of a
deleted file was given to another file on FAT32, exFAT and ext4 only: HFS+ and APFS
look at no free map and would call such a file intact.  `DiffTellsTheTruth` is about
complete captures (section 5), and two long files of one size with the same ends
are the same file to it, as to the code (`LooksLike`).  In `HeadersAreMet` a header
that needs a sub-header is left out where the same header without it stands before it
in reach of one window, or another header begins before its sub-header ends
(`Hidden`): there the scan does pass it over.

## 5. What the code does otherwise

* **A pause can undo an ending** (`session_pause_ended`).  `request_scan_pause`
  looks at the status and stores `paused` in two critical sections.  If the
  scan ends in between, its status is `paused` for good.  The code's message is
  "Only an active scan can be paused." (`commands/state.rs:792`).  The mirror
  image also exists: a scan whose cancellation arrives after its last gate is
  published as completed after `cancel_scan` answered Ok.
* **A resume can do nothing** (`session_resume`).  Every worker stores
  `scanning` when it begins.  After a pause given before that, the control block
  is paused and the status is not: `resume_scan` answers Ok, changes nothing,
  and the worker parks at its first gate.  The test says "paused scan should
  resume" (`commands/tests.rs:324`).
* **A gap can go untraced** (`image_gap`).  The zeros of a skip go to the write
  buffer before the checkpoint that lists them is written.  If that write fails
  without truncating the old checkpoint, the early return flushes the zeros and
  the next acquisition resumes after them.  `PLANS.md:2748` promises "zero-fill
  trace".  When only the filling fails, the torn checkpoint saves the day: that
  case is in `image_resume` and `NoSilentGap` holds.
* **A hole can be counted twice** (`image_count`).  After a crash between the
  checkpoint of a skip and the flush of its zeros, the resumed copy meets the
  same offset and lists it again.  `PLANS.md:2850` says the final
  `unreadable_bytes` is the holes that remain.
* **A degraded RAID 6 is not built back** (`raid_degraded`).  With one member
  lost, `reconstruct_block` takes the exclusive-or of all survivors, the second
  parity among them.  Its comment says "This works for RAID 5 (P parity) and
  RAID 6 (when only 1 disk lost)" (`raid/mod.rs:307`).
* **Wide blocks of a dynamic VHD are read from the wrong place** (`vhd_bitmap`).
  The bitmap is taken for `block_size / 512 / 8` sectors; it has that many bytes.
  With the usual blocks of 2 MiB the reader is 511 sectors off.
* **The audit trail and the archive can differ about an ending** (`export_audit`).
  A first file that fails makes the status "error" for a moment
  (`export.rs:2637`); `ExportFailed` is recorded, once and for all, and the export
  goes on and completes.  `commands/state.rs:545` wants the trail "in lock-step with
  the persisted archive".

Not turned into runs, met while reading, for those who maintain the code:

* *Export.*  With "overwrite", a later file of the same name makes an earlier entry
  of the manifest untrue (`export.rs:798`).  What cannot be removed of a refused file
  stays without a word.
* *Sessions.*  Ids are milliseconds: two sessions of one millisecond share a key
  (`state.rs:287`).  A scan that runs when the process dies stays "scanning" in the
  history (`scan.rs:331`).  `cancel_scan` records `ScanCanceled` before it is
  decided whether the scan can be cancelled (`scan.rs:323`).  After their last
  gate the deleted-file scans still run a fallback and a correlation
  (`scan.rs:1512`).  Two acquisitions to one destination share its partial file
  (`imaging/mod.rs:768`), and the privileged helper never looks at the control block
  (`imaging_cmd/mod.rs:123`).
* *Audit.*  The header of `audit/mod.rs` says that rewriting a record invalidates
  every hash downstream; the verifier marks its successor alone, and an edit of
  the last record is not seen.  A purge followed by a restart gives ids a second
  time (`audit/mod.rs:177`).  A trail that cannot be read at the start counts as an
  empty one with next id 1 (`audit/mod.rs:275`); the next record is written over it
  and verifies, though the module calls itself "Immutable, append-only".
* *History.*  A live session's next log line brings its record back after a purge
  (`commands/state.rs:998`).  The archive is loaded, changed and written without a
  lock and through one temporary name: one session's write overwrites what another
  added, or renames the file another has just truncated, so that a completed record,
  or after a crash every record, is lost (`commands/state.rs:1015`), though
  `PLANS.md:856` says that completed exports "sont persistés et relus".  The store of
  snapshots is written the same way (`filesystem_memory/store.rs:213`); its header
  says that a crash "cannot leave the store half-populated".
* *Remote.*  `/v1/health` asks for no token, so adding an agent does not try the
  token as its comment says.  An empty file cannot be pulled.  The directory of a pull
  "contains exactly one materialized file" (`http.rs:691`), but `MANIFEST.json` is
  there too and is the first regular file whenever the pulled file lies in a folder:
  then the pull succeeds with the manifest.  Any error of the keyring at a start is no
  token, any error of the file no agents (`remote/registry.rs:76-120`), and the next
  save writes the file without them; the comment there speaks only of agents "whose
  token is no longer in the keyring".
* *Filesystem memory.*  Snapshot ids clash within a millisecond.  A lost copy whose
  twin stayed is not reported; files of more than 128 KiB that differ in the middle
  only are the same file.  The files below a folder that the second capture could not
  read are "missing" with high confidence, though "the product never claims certainty
  when the heuristic is ambiguous" (`filesystem_memory/types.rs:57`).
* *RAID.*  In the last row of a rotation `n - 2 - (row % n)` (`raid/mod.rs:200`, `255`)
  falls below zero: a panic where overflow is checked, and elsewhere the right column
  for the second parity only if n divides 2^64 (4, 8, 16 members).  A mirror of
  three without its first member gives the exclusive-or of the copies; members are
  used in the order listed.
* *Carving.*  One candidate below its minimum ends the whole carve with an error; a
  64-bit atom of size 0 is read for ever (`carving/mod.rs:4757`); windows of
  more than four fifths of zeros are passed over; the last bytes of an image, fewer
  than there are threads, begin in no segment (`carving/mod.rs:3924`); a sub-header is
  looked for at the first place of its header in a window only (4034); parallel and
  sequential carving can differ.
* *Containers and sources.*  No E01 file as the format lays it out is read back: the
  size of a section is taken from offset 16, where the next offset stands, and the
  other way round; the size of a chunk from the number of chunks, the number of sectors
  from the two fields before it (`e01.rs:110-128`); the entries of a table from 20 bytes
  behind its start instead of 24 (`167`).  The checksum behind a chunk that is not
  compressed counts as data, the last compressed chunk is read at full length (`189`),
  and every table section forgets the chunks of the one before.  VHD: the blocks of a parent read as zeros.  The cache of a container is judged by modification
  time alone.
* *Partitions.*  Logical partitions are not walked; one boot sector that cannot be
  read drops the whole table; checksums are not checked.
* *NTFS.*  The change journal's index goes by position although unreadable records
  were skipped; the sequence number of a reference is ignored; a run outside the
  bitmap in one deleted record fails the whole recovery; the bytes of resident data
  are taken from the record before its fix-ups.
* *FAT32, exFAT.*  A deleted file of one cluster whose cluster was given away is
  called intact on FAT32; on exFAT, or with more clusters, it can fail the
  whole listing of deleted files.
* *ext4.*  Holes move later data forward; indirect blocks and the high words of
  descriptors are not read; one block pointer outside the volume fails everything.
* *HFS+.*  The allocation file is never consulted, so an overwritten file is called
  intact; a file whose record moved to a later leaf is also reported deleted; the
  journal is searched for a record type that does not occur on disk.
* *APFS.*  One volume of a container is read; the logical address of an extent is
  ignored; one bad extent fails the whole recovery.
* *Correlation.*  "the highest-scoring version is kept" (`correlation/mod.rs:28`)
  is not so in its last phase: a journal's file goes whatever its score.
* *Fallback.*  `scan_raw_inodes` reads the fields of an extent at the wrong
  offsets; the slack scanner is called by nothing.

## 6. Proofs

`ScanSessionProofs` proves, for any set of callers, any bounds and any set of
worker programs that publish once and at their end (`SessionAssumption`, which
the eleven programs satisfy: TLC evaluates it on every run):

* `TypeCorrect`: `Spec => []TypeOK`.  `TypeOK` alone is not inductive: a worker
  that advances needs a next step, and one inside a unit needs a unit left.
  `TypeInv` adds `Places`, which says where each kind of thread can be.
* `SafeInvariant`: `Spec => []SafeInv`, where `SafeInv` adds four parts.
  `Truth` says that every copy of the status, in the session, in a thread's
  hand or on disk, that shows an ending shows one that happened, and that only a
  cancelled session is being finalised.  `Trail` says that nothing was recorded
  before the session's key was marked.  `Whole` says that a completed worker's
  results are the ones it published.  `Prompt` says that a worker holding a
  permission from before the gate closed has not used one since.  None of the
  safety properties is inductive without `Truth`: a step that writes or marks
  uses a status read earlier.
* `AuditIsTruthful`, `ArchiveIsTruthful`, `ExportSeesAll`, `StopsPromptly`: the
  safety invariants of `session_race`, from `SafeInvariant`.
* `ResultsAreFrozen`: the action property of `session_workers`.
* `SessionImplementsJob`: `Spec => ImplementsJob`.  The refinement maps the
  worker's outcome to the job's phase, `cancelled` and `paused` to its requests,
  and the audit counts to its announcement; every step of a session is one step
  of the job or a stutter (`JobStep`).

`PartialImageProofs` proves, for any sources, lengths, unreadable units, buffer and
bounds that `PartialImageAssumption` allows:

* `ImageTypeCorrect`: `Spec => []TypeOK`.  That no file outgrows the source is not
  inductive alone: a flush appends the buffer to the partial file, whatever both
  hold.  `StreamInv` ties the locals to the two: what was copied ends where file and
  buffer end, except after a skip whose zeros are in the buffer and not yet
  counted; an acquisition that refines has the whole source on disk.
* `TallyIsRight`: `TallyMatches`.  The totals are computed anew whenever the ranges
  change, so what has to be proved is about the ranges: that merging and splitting
  them keeps them within the source (`MergedUpTo`, `Segment`).
* `UnitsAreInPlace`: `InPlace`, from `ImageInvHolds`.  `SavedInv` says when the
  checkpoint on disk says what the process has in memory, and that its source is
  the one of the file beside it; `AlignInv` that every unit of the file, the
  buffer and the image is where it belongs; every step but the one that adds
  zeros extends the stream by the source's own units (`GrowsInPlace`).
* `NoGapIsSilent`: `NoSilentGap`, if creating a checkpoint cannot fail
  (`"truncate" \notin CheckpointFailsAt`).  The hypothesis is needed: without it the
  run `image_gap` shows the violation.  `TraceInv` says that each zero of the file is
  in a range of its checkpoint and each zero of the buffer in a range in memory; a
  crash, a cancellation or a failed write between the two leaves at worst a torn
  checkpoint, beside which nothing is resumed.
* `ImagesAreReplacedLast` and `CapturesAreKept`: the action properties `ReplaceLast`
  and `CapturedKept`.  The second rests on `StreamInv`, by which a resumed file is
  opened at its end and only appended to, and on `AlignInv`, by which a patch that
  reaches beyond what is missing writes what was there.

`ExportJobProofs` proves, for any results, parts, selection, strategy, contents
of the destination and failures that `ExportJobAssumption` allows:

* `ExportInvHolds`: `Spec => []ExportInv`.  Its first parts are `TypeOK` and
  `PlaceOK`, which says what the worker has in its hands at each place.
  `UsersInv` says that no path being written, or kept to be removed, is one of
  the user's.  `ListedInv` says that the content of each manifest entry is that
  of the result it names and stands at its path, and that what is made for the
  current result is in no entry yet: without the second half, giving up on a
  file could remove one that was listed.  `IndexInv` says that every result
  before the current one is in the manifest or in the errors.  `OwnedInv` says
  that an artifact stands where its side says and belongs to an entry, to the
  current result or to what is still, or could not be, removed.  `StraysInv` counts
  the temporary files left behind against the errors: a file that is being refused
  may have left one more.
* `ArtifactsAreWhole`, `UserFilesAreKept`, `ManifestIsTruthful`, `EndsAreClean`: the
  safety invariants of `export_job`, from `ExportInvHolds`, with removals that fail.
* `ExportKeepsItsPromise`: `Spec => ImplementsPromise`.  A step that adds an
  entry or an error decides one file of the promise, the last step ends it, and
  all others stutter.

The stores, each for any set of threads, sessions, agents or containers:

* `HistoryIsSerial`: `SerialHistoryKept`.  `ArchiveInv` says that every document
  anywhere is well formed and who holds which inode; `SerialInv` says where the
  one cycle is that no other overlaps, and that what it holds is what it will
  make of the history.  `ArchiveIsWellFormed` needs `ArchiveInv` alone, and that
  sorting and truncating keep a document well formed (`ListLemmas`).
* `EditsAreAlwaysNamed`: `EditsAreNamed`.  Each record commits to its
  predecessor as it was when it was written, so the first edit in a trail shows
  at the record after it; `AuditInv` says so of the trail in memory and of the
  file, and that the last record of the trail is not an edited one.
* `NoSchedulerStrays`: `NoStrayScheduler`, which is inductive with the type of
  the scheduler.  `SchedulerIsWhatWasSaved`: `SchedulerFollowsPolicy`, from
  `SaveInv`, which says what runs at each step of a save that nothing overlaps.
* `NewestAreKept`: `NewestSnapshotsKept`.  `StoreInv` says, as long as nothing has
  raced, that one writer at most is at work, that what it holds is the store with
  its snapshot added or rotated, under an inode nobody else holds, and that the
  store has every snapshot added or enough newer ones (`HoldsNewest`).  Adding
  keeps that because the new snapshot is younger than all (`AddedKeeps`); rotation
  because what it removes has `MAX_SNAPSHOTS_PER_TARGET` finished ones of its target
  behind it in the sorted list (`RotatedKeeps`).
* `RegistryIsKept`: `RegistryKept`, whatever reads and saves fail.  A removed agent
  is in the file or in the keyring, in both only if both halves of its removal
  failed; a wanted one has its token, and leaves the file only after a start that
  could not read it or beside a torn file.
* `PullIsVerified`: `PullVerified`.  What is in the directory of a pull was written by
  its own export, so what is downloaded of a reply was; and the command ends well
  only with a complete copy of what the reply named.
* `ImagesAreCurrent`: `AnalysisSeesTheSource`.  What was copied of a container
  nobody wrote to is what the container holds; no file is newer than the last
  write.

Six of the readers.  Their specification is `ReaderSpec`, and each invariant is what
its lemma says of one input, for every input that the assumption allows; the
inductive part only says where the chosen input comes from.

* `DiffAlwaysTells`: `DiffTellsTheTruth`, from `DiffIsAlwaysTrue`.  Of two complete
  snapshots of any two folders, what is called missing is all that is gone and that
  nothing there looks like, what is called moved looks like what it is said to be now,
  and the hint a recovered file gets is the one about it.  That two records with one
  hash look alike is what the partial hash is worth (`LooksLike`).
* `BestCopiesAlwaysSurvive`: `BestCopiesSurvive`.  After n files of a phase the index
  of a key names the best file of that key so far (`DeduplicatedUpToIs`).  That a
  dropped file has a survivor behind it, directly or through others, is stated as
  closedness: a set that has the survivors and, with a file, all those it may be kept
  for, has every file.  That form needs no transitive closure, so that TLC and
  the proof speak of the same formula.
* `VirtualDisksAlwaysReadBack`: `VirtualDisksReadBack`.  A fixed VHD; a sparse VMDK,
  whatever the order its grains were stored in and however many tables list them
  (`GrainTableIs`); a dynamic VHD, its footer damaged or not, with blocks of fewer than
  16 sectors, where the code passes over the one sector of bitmap there is (usual
  blocks have 4096: `vhd_bitmap`).  `DisksAreReadBack` says the same for cells of any
  kind.  E01 files are not modelled (section 5).
* `VolumesAreAlwaysFound`: `VolumesAreFound`, for any volumes, up to the 4 or 256 a table
  is read for, places, tables, damage and wiped headers; the device is of known size, or
  large enough that no check of a header reads past its end (`Far`).  An account of a volume is true if it says what the volume
  is; the merging keeps true accounts true, adds no start that nobody named, and keeps
  a file system once one account knows it (`MergedOf`).  The scan then visits each
  multiple of a mebibyte below the limit and finds a header where one was written, and
  none elsewhere.
* `HeadersAreAlwaysMet` (`CarvingProofs`): `HeadersAreMet`, for every image, number of
  threads, size of window, overlap, page, gap and segment that satisfies
  `WindowsOverlap`: a window holds whole pages and is longer than the overlap, and the
  overlap is no shorter than a header with its sub-header.  Erased pages apart (the scan
  skips them by design), no header is passed over but by a carve that gives up, and but
  for the last cells of an image, which may begin in no segment (`InSomeSegment`), and
  for the headers with a sub-header that others hide (`Hidden`).

  *Walks.*  A scan, and the strategies that look for an end, are recursions that only go
  forward.  Such a function exists (`Unwinds`), and what holds at a place when it holds
  at every later one holds everywhere (`Backwards`); the two take the place of an
  induction over the image.

  *Candidates.*  Whatever the strategy, an end lies within the limit (`StrategyEnds`).
  The pieces left of a candidate without some gaps are pieces of the image, and those
  that are chosen validate (`PiecesAre`, `FragmentsValidate`, `CandidateIs`).  Of the
  choices of gaps that work one comes first (`FewestGapsIs`).

  *Scans.*  `StepIs` says what a window can ask for: to stop, to move on by less than
  would pass over a header, or to carve at the first header there is.  `SegmentIs`
  follows a segment, `SegmentsAre` shows that the segments cover the image,
  and `MergedIs` that putting their candidates together loses none: at one place there
  is one candidate only (`CandidatesDiffer`).
* `RaidAlwaysBuildsBack` (`RaidProofs`): `RaidBuildsBack`, for every level, number of
  members, stripe, offset, contents and loss.  It has three parts.

  *Arithmetic.*  From the one equation of `IsExclusiveOr` follow, by doubling the range
  eight times, that the exclusive-or of bytes is a byte, commutes, associates and undoes
  itself (`XorOn`).  Doubling modulo 0x11d is linear and loses nothing; the product,
  by halving one factor, distributes and commutes, so division undoes it (`GfDivIs`).
  The powers of the generator that a row can use differ: a table of them is computed
  in the proof.  Two unknown bytes are then the solution of two equations
  (`TwoUnknown`).

  *Layout.*  The division of a position into stripe, column and row is undone
  (`Split`, `TranslateIs`); stepping over one parity column or two gives the i-th data
  column, which is the one with i data columns to its left (`DataColumnIs`,
  `IndexIs`).  In the last row of a rotation the code's column of the second parity is
  the right one only if n divides 2^64, and `IsArray` asks that of a RAID 6 array
  (`WordModulo(n) = 0`: 4, 8, 16 and so on up to 256 members).

  *Losses.*  A running exclusive-or without one block is the whole without it
  (`XorOfMore`), so one lost block is what the others leave (`LeftOverOne`) and of two
  the parities leave what `SolvedIs` solves, with data, P or Q lost in any
  combination.  `Readable` says what the losses are that the dialog allows (`Degraded`),
  RAID 6 without one member (`raid_degraded`) and a mirror of three or more without
  its first apart; for these the whole build is followed: the members are recognised
  as alike and in order, the configuration is the one they were written in, and
  what is read in pieces or written out is the data.

`ListLemmas` proves what the others need of lists, by the least number that would be
an exception (`LeastNumber`), which takes the place of induction: a function
defined from each place to the next exists (`Iterates`), the permutation a stable
sort chooses exists (`SortExists`), and what it yields (`SortedIsOrdered`).

The assumptions are the ones the modules state: sets are finite where a set of
positions is sorted or a file is chosen, the values that stand for "nothing" are
none of the others, bounds are numbers, and what is read was written as its
format says.  TLC evaluates them on every run.

Only model-checked:

* liveness (`CancelStopsWorker`, `RunsToEnd`, `Ends`, `ExportEnds`), which needs
  fairness and is out of the prover's reach;
* `NtfsFilesAreRecovered` and `FilesAreRecovered`: the analysers are recursions over
  directories, trees, journals and chains (those of `ClusterChains`, `Fat32`, `Exfat`,
  `Ext4` and `HfsPlus` are RECURSIVE operators, the path of an NTFS record is a recursion
  over its parents), and what they compute for every volume needs an induction over data;
* of a RAID array, a last row that is not whole: `IsArray` leaves it out, and the runs
  have none.

## 7. Not modelled

*Of the parts that are modelled.*  Power failure and `fsync`; two processes on one
destination; checkpoints of the older format, whose totals exceed what they list;
external rescue maps; an archive whose reading fails though it is whole; sources that turn out shorter than announced; removal errors
that the code ignores when it discards a partial image; two sessions of one id; a
session listed by another client before `start_scan` has returned its id; the
extra log lines and the separate process of the macOS privileged imager.  What an
analyser finds is, for a session, a number of files.  Reports, the CSV list and
the lab bundle, which read a session and write one file.  Of the analysers: the
HFS+ journal, the dates, the characters of names, and everything the crate `apfs`
does.  The calls of the remote client that are one request and its answer.  The
raw scans of the fallback module.  E01 files: nothing true can be said of reading
them but that it fails (section 5).

*Whole parts.*  Device detection and its watcher are lists of what system tools
print.  Previews, scoring, repair, reports, AI assistance and telemetry are
functions without state that produce wording, pictures or a request to a service.
Licences, encryption and the start-up guard are a check of a signature or a call
into a library.  The user interface shows what the commands return.

## 8. Running it

    tlc -config ScanSession_race.cfg MCScanSession
    tlc -config PartialImage_resume.cfg MCPartialImage
    tlc -config ExportJob_promise.cfg MCExportJob
    tlc -config MCParts.cfg MCParts
    tlc -config MCParts_raid6.cfg MCParts
    tlc -config MCParts_vhd.cfg MCParts
    tlc -config ExportJob_audit.cfg MCExportJob
    tlapm ScanSessionProofs.tla
    tlapm ExportJobProofs.tla
    tlapm ListLemmas.tla
    tlapm PartialImageProofs.tla
    tlapm StoreProofs.tla
    tlapm ReaderProofs.tla
    tlapm CarvingProofs.tla
    tlapm RaidProofs.tla

`PROJECT.json` lists the runs with their configurations, the source lines behind
each definition, and for each property a faulty variant of a definition that
violates it.  The variants stand in the modules, each before the definition it
spoils and introduced by "The bug of ...".
