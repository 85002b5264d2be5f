------------------------------ MODULE ExportJob ------------------------------
(***************************************************************************)
(* One export of commands/export.rs: a worker thread copies the selected   *)
(* files of a completed scan, with their sidecars, to a destination where  *)
(* other files exist and appear, verifies them, writes a manifest, and     *)
(* persists its session after every log line and every error.              *)
(*                                                                         *)
(* A step changes at most one file of the destination, so that a crash can *)
(* fall between any two.  Nobody but the worker writes to an export        *)
(* session, so persist_export_session is part of the step that calls it.   *)
(* A path is a directory, a file name and a rename counter, with a sidecar *)
(* name and its own counter.                                               *)
(***************************************************************************)
EXTENDS Integers, Sequences, SequencesExt, FiniteSets

CONSTANTS
    Results,      \* results of the scan: id -> [name, path, image, fork, streams]
    SafeName,     \* safe_export_file_name, sanitize_sidecar_component
    Selections,   \* lists of ids a user may select
    Strategies,   \* conflict strategies
    Destinations, \* <<device of the destination, device of the source>>
    Occupied,     \* the destination at the start: path -> content
    MaxForeign,   \* bound: files others create in the destination meanwhile
    MaxFiles,     \* bound: files of an export
    Unresolved    \* a device that cannot be resolved

ASSUME ExportJobAssumption ==
    /\ MaxForeign \in Nat /\ MaxFiles \in Nat
    /\ Strategies \subseteq {"rename", "skip", "overwrite"}
    /\ IsFiniteSet(DOMAIN Results) /\ Cardinality(DOMAIN Results) <= MaxFiles
    /\ {"user", "manifest"} \cap DOMAIN Results = {}
    /\ \A id \in DOMAIN Results :
        /\ Results[id].image \in BOOLEAN /\ Results[id].fork \in BOOLEAN
        /\ Results[id].streams \in Seq(Range(Results[id].streams))
        \* the names of the sidecars are told apart by what the code puts around them
        /\ \A s \in Range(Results[id].streams) :
              s \notin {"main", "fork"} /\ SafeName[s] \notin {"main", "fork"}
    /\ \A ids \in Selections : ids \in Seq(Range(ids)) /\ Len(ids) <= MaxFiles
    /\ IsFiniteSet(DOMAIN Occupied)
    /\ \A p \in DOMAIN Occupied :
        Occupied[p] \in [file : {"user"}, part : {"file", "dir"}, whole : {TRUE}]

VARIABLES
    dest,      \* the destination: path -> content
    temp,      \* the temporary file: "none", "partial" or "whole"
    strays,    \* temporary files left behind
    job,       \* ids of the files to export
    options,   \* strategy, preserve_structure, verify_integrity
    place,     \* where the worker is
    at,        \* index of the current file
    made,      \* paths written for it
    target,    \* path being written
    status, stamped, exported, errors, \* ExportSession
    manifest,  \* entries of the manifest
    archive,   \* status in this session's record of the history
    marked,    \* whether its terminal audit event was emitted
    trail,     \* audit events of this session
    foreign,   \* files others have created
    doomed,    \* paths of a refused file still to be removed
    unremoved  \* history: the paths whose removal failed

session == <<status, stamped, exported, errors>>
record == <<archive, marked, trail>>
cleaning == <<doomed, unremoved>>
vars == <<dest, temp, strays, job, options, place, at, made, target, session, manifest,
          record, foreign, cleaning>>

-----------------------------------------------------------------------------
(* Starting *)

\* The list to export: all results if none is selected, and none, an error, if
\* one that is selected is no result.
SelectFilesForExport(ids) ==
    IF ids = <<>> THEN {SetToSeq(DOMAIN Results)}
    ELSE IF Range(ids) \subseteq DOMAIN Results THEN {ids} ELSE {}

ValidateExportDestination(devices) ==
    Unresolved \notin {devices[1], devices[2]} /\ devices[1] # devices[2]

Init ==
    /\ \E ids \in Selections, devices \in Destinations :
        ValidateExportDestination(devices) /\ job \in SelectFilesForExport(ids)
    /\ options \in [strategy : Strategies, preserve : BOOLEAN, verify : BOOLEAN]
    /\ dest = Occupied /\ temp = "none" /\ strays = 0
    /\ place = "prepare" /\ at = 1 /\ made = <<>> /\ target = <<>>
    /\ status = "preparing" /\ stamped = FALSE /\ exported = 0 /\ errors = <<>>
    /\ manifest = <<>>
    /\ archive \in {"none", "preparing"} /\ marked = FALSE /\ trail = <<"ExportStarted">>
    /\ foreign = 0
    /\ doomed = {} /\ unremoved = {}

-----------------------------------------------------------------------------
(* Persistence and the session *)

TerminalEvent(s) == IF s = "completed" THEN "ExportCompleted" ELSE "ExportFailed"

\* emit_export_terminal_audit: the first time the status looks terminal.
EmitTerminalAudit(s) ==
    IF s \in {"completed", "error"} /\ ~marked
    THEN marked' = TRUE /\ trail' = Append(trail, TerminalEvent(s))
    ELSE UNCHANGED <<marked, trail>>

\* The write can fail; the audit event is emitted all the same.
PersistExportSession(s) ==
    /\ archive' \in {archive, s}
    /\ EmitTerminalAudit(s)

\* A log line, with a new status or the old one.
AppendExportLog(s) == status' = s /\ PersistExportSession(s)

SessionError == 0
ManifestError == Len(job) + 1

\* While nothing has been exported, the status is an error already.
StatusAfterError == IF exported = 0 THEN "error" ELSE status

PushExportError(i) ==
    /\ errors' = Append(errors, i)
    /\ status' = StatusAfterError
    /\ PersistExportSession(StatusAfterError)
    /\ UNCHANGED <<stamped, exported>>

Go(p) == place' = p

FailExportSession ==
    /\ errors' = Append(errors, SessionError) /\ stamped' = TRUE
    /\ AppendExportLog("error")
    /\ Go("done")
    /\ UNCHANGED <<dest, temp, strays, job, options, at, made, target, exported, manifest, foreign,
                   cleaning>>

-----------------------------------------------------------------------------
(* Paths *)

File == Results[job[at]]

RelativeDir(path) == SelectSeq(path, LAMBDA c : c \notin {"..", ".", "/"})

RequestedTarget ==
    [dir |-> IF options.preserve THEN RelativeDir(File.path) ELSE <<>>,
     name |-> SafeName[File.name], copy |-> 0, side |-> "main", n |-> 0]

ManifestPath == [dir |-> <<>>, name |-> "MANIFEST.json", copy |-> 0, side |-> "main", n |-> 0]

\* The parts of a file, in the order they are written.
Parts == <<"main">> \o (IF File.fork THEN <<"fork">> ELSE <<>>) \o File.streams
Part == Parts[Len(made) + 1]

SidecarPath == [made[1] EXCEPT !.side = IF Part = "fork" THEN "fork" ELSE SafeName[Part]]

Exists(p) == p \in DOMAIN dest

Numbered(p, k) == IF p.side = "main" THEN [p EXCEPT !.copy = k] ELSE [p EXCEPT !.n = k]

\* The first number whose path is free.
UniqueTargetPath(p) ==
    LET k == CHOOSE k \in 1 .. Cardinality(DOMAIN dest) + 1 :
                /\ ~Exists(Numbered(p, k))
                /\ \A j \in 1 .. k - 1 : Exists(Numbered(p, j))
    IN Numbered(p, k)

\* The paths an existing or a free target resolves to: none is an error.
ResolveTargetPath(p) ==
    IF ~Exists(p) THEN {p}
    ELSE CASE options.strategy = "rename" -> {UniqueTargetPath(p)}
           [] options.strategy = "skip" -> {}
           [] options.strategy = "overwrite" -> IF dest[p].part = "dir" THEN {} ELSE {p}

Content == [file |-> job[at], part |-> Part, whole |-> temp = "whole"]
UserFile == [file |-> "user", part |-> "file", whole |-> TRUE]
ManifestDocument == [file |-> "manifest", part |-> "document", whole |-> temp = "whole"]

Put(p, content) == [q \in DOMAIN dest \cup {p} |-> IF q = p THEN content ELSE dest[q]]

Without(paths) == [p \in DOMAIN dest \ paths |-> dest[p]]

-----------------------------------------------------------------------------
(* The worker *)

PrepareDestination ==
    /\ place = "prepare"
    /\ AppendExportLog("exporting") /\ Go("next")
    /\ UNCHANGED <<dest, temp, strays, job, options, at, made, target, stamped, exported,
                   errors, manifest, foreign, cleaning>>

\* The directory cannot be made or resolved, or is on the source after all.
PrepareFails == place = "prepare" /\ FailExportSession

StartFile ==
    /\ place = "next" /\ at <= Len(job)
    /\ AppendExportLog("exporting") /\ Go("target")
    /\ made' = <<>>
    /\ UNCHANGED <<dest, temp, strays, job, options, at, target, stamped, exported, errors,
                   manifest, foreign, cleaning>>

\* The bug of cleaning up the path that was asked for.
RequestedPaths == {RequestedTarget}

WrittenPaths == Range(made)

\* Give up the current file: what was written for it, but for what is kept, is to go.
GiveUp(kept) ==
    /\ doomed' = WrittenPaths \ kept /\ Go("clean")
    /\ UNCHANGED <<dest, job, options, at, made, target, session, manifest, record, foreign,
                   unremoved>>

\* One of the removals, whose failure nobody looks at.
RemovePart ==
    /\ place = "clean"
    /\ \E p \in doomed :
        /\ doomed' = doomed \ {p}
        /\ \/ dest' = Without({p}) /\ UNCHANGED unremoved
           \/ dest' = dest /\ unremoved' = unremoved \cup {p}
    /\ UNCHANGED <<temp, strays, job, options, place, at, made, target, session, manifest,
                   record, foreign>>

\* The error is reported once everything has been tried.
Refuse ==
    /\ place = "clean" /\ doomed = {}
    /\ PushExportError(at)
    /\ at' = at + 1 /\ made' = <<>> /\ Go("next")
    /\ UNCHANGED <<dest, temp, strays, job, options, target, manifest, foreign, cleaning>>

\* The temporary file is removed, if that succeeds.
DropTemporary == temp' = "none" /\ strays' \in {strays, strays + 1}

\* The bug of cleaning up nothing when a sidecar fails.
KeepAllPaths == Range(made)

\* A stream that fails leaves the streams before it: their paths are lost
\* with the early return of export_alternate_data_stream_sidecars.
LostPaths ==
    {made[k] : k \in {k \in 1 .. Len(made) : Parts[k] \notin {"main", "fork"}}}

DirectoryRefused ==
    /\ place = "target" /\ made = <<>>
    /\ GiveUp({}) /\ UNCHANGED <<temp, strays>>

\* The main file comes from an image or from the live source; sidecars need
\* an image.
Requested == IF made = <<>> THEN RequestedTarget ELSE SidecarPath
HasSource == made = <<>> \/ File.image

ResolveTarget ==
    /\ place = "target" /\ Len(made) < Len(Parts) /\ HasSource
    /\ \E p \in ResolveTargetPath(Requested) : target' = p
    /\ Go("copy")
    /\ UNCHANGED <<dest, temp, strays, job, options, at, made, session, manifest, record, foreign,
                   cleaning>>

ResolveFails ==
    /\ place = "target" /\ Len(made) < Len(Parts)
    /\ HasSource => ResolveTargetPath(Requested) = {}
    /\ GiveUp(LostPaths) /\ UNCHANGED <<temp, strays>>

BeginCopy ==
    /\ place = "copy" /\ temp = "none"
    /\ temp' = "partial"
    /\ UNCHANGED <<dest, strays, job, options, place, at, made, target, session, manifest,
                   record, foreign, cleaning>>

\* The bug of renaming a copy that was cut short.
EndCopyEarly ==
    /\ place = "copy" /\ temp = "partial"
    /\ UNCHANGED temp /\ Go("check")
    /\ UNCHANGED <<dest, strays, job, options, at, made, target, session, manifest, record, foreign,
                   cleaning>>

EndCopy ==
    /\ place = "copy" /\ temp = "partial"
    /\ temp' = "whole" /\ Go("check")
    /\ UNCHANGED <<dest, strays, job, options, at, made, target, session, manifest, record, foreign,
                   cleaning>>

\* The bug of trying again, for ever.
CopyRetries ==
    /\ place = "copy" /\ temp = "partial"
    /\ temp' = "none"
    /\ UNCHANGED <<dest, strays, job, options, place, at, made, target, session, manifest,
                   record, foreign, cleaning>>

\* The source cannot be read in full, or the destination is full.
CopyFails ==
    /\ place = "copy" /\ temp = "partial"
    /\ DropTemporary /\ GiveUp(LostPaths)

MayReplace == options.strategy = "overwrite"

\* finalize_temporary_file: look at the target and remove what may be replaced.
FinalizeCheck(replace) ==
    \/ /\ ~Exists(target) /\ UNCHANGED dest
    \/ /\ Exists(target) /\ replace /\ dest[target].part # "dir"
       /\ dest' = Without({target})

CheckTarget ==
    /\ place = "check" /\ FinalizeCheck(MayReplace) /\ Go("rename")
    /\ UNCHANGED <<temp, strays, job, options, at, made, target, session, manifest, record, foreign,
                   cleaning>>

\* What is there may not be, or cannot be, replaced.
CheckRefuses ==
    /\ place = "check" /\ Exists(target)
    /\ DropTemporary /\ GiveUp(LostPaths)

\* rename(2) replaces a file that appeared since the check.
RenameTarget ==
    /\ place = "rename"
    /\ Exists(target) => dest[target].part # "dir"
    /\ dest' = Put(target, Content)
    /\ temp' = "none" /\ made' = Append(made, target) /\ Go("target")
    /\ UNCHANGED <<strays, job, options, at, target, session, manifest, record, foreign, cleaning>>

RenameFails ==
    /\ place = "rename"
    /\ DropTemporary /\ GiveUp(LostPaths)

AllPartsWritten == place = "target" /\ made # <<>> /\ Len(made) = Len(Parts)

BeginVerify ==
    /\ AllPartsWritten
    /\ IF options.verify THEN AppendExportLog("verifying") ELSE UNCHANGED <<status, record>>
    /\ Go(IF options.verify THEN "verify" ELSE "entries")
    /\ UNCHANGED <<dest, temp, strays, job, options, at, made, target, stamped, exported,
                   errors, manifest, foreign, cleaning>>

\* A copy of a live file is compared by hash, a reconstructed part by size.
Verified(k) ==
    /\ Exists(made[k])
    /\ ~File.image => dest[made[k]].file = job[at]

VerifySucceeds ==
    /\ place = "verify" /\ \A k \in DOMAIN made : Verified(k)
    /\ PersistExportSession(status) /\ Go("entries")
    /\ UNCHANGED <<dest, temp, strays, job, options, at, made, target, session, manifest, foreign,
                   cleaning>>

VerifyFails ==
    /\ place = "verify"
    /\ GiveUp({}) /\ UNCHANGED <<temp, strays>>

\* The bug of listing the name that was asked for, not the one it got.
RequestedEntry(k) ==
    [index |-> at, content |-> dest[made[k]],
     path |-> IF k = 1 THEN RequestedTarget ELSE made[k]]

\* The artifact is measured and hashed as it is now.
ManifestEntry(k) == [index |-> at, path |-> made[k], content |-> dest[made[k]]]

AddManifestEntries ==
    /\ place = "entries" /\ \A k \in DOMAIN made : Exists(made[k])
    /\ manifest' = manifest \o [k \in DOMAIN made |-> ManifestEntry(k)]
    /\ exported' = exported + 1
    /\ AppendExportLog("exporting")
    /\ at' = at + 1 /\ made' = <<>> /\ Go("next")
    /\ UNCHANGED <<dest, temp, strays, job, options, target, stamped, errors, foreign, cleaning>>

AddManifestEntriesFails ==
    /\ place = "entries"
    /\ GiveUp({}) /\ UNCHANGED <<temp, strays>>

-----------------------------------------------------------------------------
(* The manifest and the end *)

FilesDone == place = "next" /\ at > Len(job)

BeginManifest ==
    /\ FilesDone /\ manifest # <<>>
    /\ temp' = "partial" /\ target' = ManifestPath /\ Go("manifest")
    /\ UNCHANGED <<dest, strays, job, options, at, made, session, manifest, record, foreign,
                   cleaning>>

SkipManifest ==
    /\ FilesDone /\ manifest = <<>> /\ Go("finish")
    /\ UNCHANGED <<dest, temp, strays, job, options, at, made, target, session, manifest,
                   record, foreign, cleaning>>

WriteManifest ==
    /\ place = "manifest" /\ temp = "partial"
    /\ temp' = "whole"
    /\ UNCHANGED <<dest, strays, job, options, place, at, made, target, session, manifest,
                   record, foreign, cleaning>>

\* An early return: the temporary file stays behind.
WriteManifestFails ==
    /\ place = "manifest" /\ temp = "partial"
    /\ temp' = "none" /\ strays' = strays + 1 /\ Go("finish")
    /\ PushExportError(ManifestError)
    /\ UNCHANGED <<dest, job, options, at, made, target, manifest, foreign, cleaning>>

\* An earlier manifest, or any file of that name, is replaced.
CheckManifest ==
    /\ place = "manifest" /\ temp = "whole"
    /\ FinalizeCheck(TRUE) /\ Go("publish")
    /\ UNCHANGED <<temp, strays, job, options, at, made, target, session, manifest, record, foreign,
                   cleaning>>

PublishManifest ==
    /\ place = "publish"
    /\ dest' = Put(ManifestPath, ManifestDocument)
    /\ temp' = "none" /\ Go("finish")
    /\ trail' = Append(trail, "AuditExported")
    /\ archive' \in {archive, status}
    /\ UNCHANGED <<strays, job, options, at, made, target, session, manifest, marked, foreign,
                   cleaning>>

PublishManifestFails ==
    /\ place \in {"manifest", "publish"} /\ temp = "whole"
    /\ place = "manifest" => Exists(ManifestPath)
    /\ DropTemporary /\ Go("finish")
    /\ PushExportError(ManifestError)
    /\ UNCHANGED <<dest, job, options, at, made, target, manifest, foreign, cleaning>>

\* The bug of an error although files were delivered.
StrictStatus == IF errors # <<>> THEN "error" ELSE "completed"

FinalStatus == IF exported = 0 /\ errors # <<>> THEN "error" ELSE "completed"

FinishExport ==
    /\ place = "finish"
    /\ stamped' = TRUE /\ AppendExportLog(FinalStatus) /\ Go("done")
    /\ UNCHANGED <<dest, temp, strays, job, options, at, made, target, exported, errors,
                   manifest, foreign, cleaning>>

-----------------------------------------------------------------------------
(* The environment *)

\* Another program creates a file where the worker is about to write.
ForeignWrite ==
    /\ place \in {"copy", "check", "rename"} /\ foreign < MaxForeign /\ ~Exists(target)
    /\ dest' = Put(target, UserFile) /\ foreign' = foreign + 1
    /\ UNCHANGED <<temp, strays, job, options, place, at, made, target, session, manifest, record,
                   cleaning>>

\* The process ends; what is on disk stays.
Crash ==
    /\ place # "done"
    /\ Go("done") /\ temp' = "none"
    /\ strays' = IF temp = "none" THEN strays ELSE strays + 1
    /\ UNCHANGED <<dest, job, options, at, made, target, session, manifest, record, foreign,
                   cleaning>>

WorkerStep ==
    \/ PrepareDestination \/ PrepareFails \/ StartFile \/ DirectoryRefused
    \/ ResolveTarget \/ ResolveFails \/ BeginCopy \/ EndCopy \/ CopyFails
    \/ CheckTarget \/ CheckRefuses \/ RenameTarget \/ RenameFails
    \/ BeginVerify \/ VerifySucceeds \/ VerifyFails
    \/ AddManifestEntries \/ AddManifestEntriesFails \/ RemovePart \/ Refuse
    \/ BeginManifest \/ SkipManifest \/ WriteManifest \/ WriteManifestFails
    \/ CheckManifest \/ PublishManifest \/ PublishManifestFails \/ FinishExport

Next == WorkerStep \/ ForeignWrite \/ Crash

\* The worker is an operating-system thread; its reads and writes return.
Spec == Init /\ [][Next]_vars /\ WF_vars(WorkerStep)
-----------------------------------------------------------------------------
(* Properties *)

\* Whatever stands under its final name is whole, also after a crash: the
\* temporary file of export_recovered_file is renamed only when it is complete.
WholeArtifacts == \A p \in DOMAIN dest : dest[p].whole

\* The manifest has the files that were counted as exported.  Unless existing
\* files may be overwritten, it is true of the destination from the moment an
\* entry is made: the artifact is there, it is what was hashed, and it is the
\* file that was selected.
ManifestTruthful ==
    /\ exported = Cardinality({e.index : e \in Range(manifest)})
    /\ options.strategy # "overwrite" =>
          \A e \in Range(manifest) :
              /\ e.content.file = job[e.index]
              /\ e.path # ManifestPath => Exists(e.path) /\ dest[e.path] = e.content

\* With "rename" and "skip" nothing that stood in the destination is lost,
\* however the copies, the sidecars and their cleaning up fail; only the
\* manifest replaces a file of its name.
UserFilesKept ==
    options.strategy # "overwrite" =>
        \A p \in DOMAIN Occupied \ {ManifestPath} : Exists(p) /\ dest[p] = Occupied[p]

\* When an export has ended by itself, a main file or a resource fork that is in no
\* manifest is one whose removal was tried and failed, and there is no more than
\* one temporary file for each error that was reported.
CleanEnd ==
    stamped =>
        /\ \A p \in DOMAIN dest :
              dest[p].file \in Range(job) /\ dest[p].part \in {"main", "fork"}
              => p \in unremoved \/ \E e \in Range(manifest) : e.path = p
        /\ strays <= Len(errors)

\* "Driving the audit event off the persistence hook keeps the audit trail in
\* lock-step with the persisted archive" (state.rs:545-547): what the trail says of an
\* export that ended is how it ended.
EndsInLockStep ==
    stamped => \A i \in DOMAIN trail :
        trail[i] \in {"ExportCompleted", "ExportFailed"} => trail[i] = TerminalEvent(status)

\* An export that is not killed ends, whatever fails.
ExportEnds == <>(place = "done")

\* Every file is exported or refused, once and in order, and the final status
\* is an error only if nothing was delivered.
Promise ==
    INSTANCE ExportPromise WITH
        MaxFiles <- MaxFiles,
        ending <- IF stamped THEN status ELSE "running",
        decided <- [i \in 1 .. Len(job) |->
            IF \E e \in Range(manifest) : e.index = i THEN "exported"
            ELSE IF i \in Range(errors) THEN "refused" ELSE "open"]

ImplementsPromise == Promise!Spec

=============================================================================
