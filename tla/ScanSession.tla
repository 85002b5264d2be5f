----------------------------- MODULE ScanSession -----------------------------
(***************************************************************************)
(* One scan session of commands/state.rs: its worker thread (a program of  *)
(* ScanWorkers), the threads that run pause_scan, resume_scan and          *)
(* cancel_scan on it, the control block both share, its record in the      *)
(* persisted archive and its events in the audit trail.                    *)
(*                                                                         *)
(* A step is one critical section: every operation is cut where the code   *)
(* releases the session mutex or the control mutex.  The archive is the    *)
(* single record of this session and its update is one step.               *)
(***************************************************************************)
EXTENDS Naturals, Sequences, ScanWorkers

CONSTANTS
    Callers,        \* threads that run the session commands
    Worker,         \* the worker thread
    Programs,       \* the worker programs the session may be started with
    MaxUnits,       \* bound: directory entries, or image chunks, of one walk or copy
    MaxCalls,       \* bound: session commands issued
    DiskMayFail     \* whether writing the archive can fail

ASSUME SessionAssumption ==
    /\ Worker \notin Callers
    /\ MaxUnits \in Nat
    /\ MaxCalls \in Nat
    /\ DiskMayFail \in BOOLEAN
    /\ \A p \in Programs : /\ p \in Seq(Steps)
                           /\ p # <<>>
                           /\ p[Len(p)] = "publish"
                           /\ \A i \in 1 .. Len(p) : p[i] = "publish" => i = Len(p)

VARIABLES
    (* the session *)
    status,      \* progress.status
    stamped,     \* completed_at_ms is set
    files,       \* number of results visible to get_results and start_export
    (* the control block *)
    paused, cancelled,
    asleep,      \* the worker is parked in the condition variable
    (* threads *)
    pc,          \* where each thread is
    back,        \* where it continues after persist_scan_session
    held,        \* the status it last copied out of the session
    reply,       \* what a caller's last command returned
    calls,       \* commands issued so far
    (* the worker's locals *)
    program, at, \* its steps, and the index of the current one
    left,        \* units left of the current walk or copy
    found,       \* files it holds and has not published (batch workers)
    (* outside the session *)
    archive,     \* status of the session's persisted record
    emitted,     \* the session's key is in the terminal audit set
    audit,       \* events recorded, by kind
    (* history *)
    outcome,     \* how the worker ended
    late         \* results pushed since the control block was last closed

session == <<status, stamped, files>>
control == <<paused, cancelled, asleep>>
locals  == <<program, at, left, found>>
outside == <<archive, emitted, audit>>
history == <<outcome, late>>
vars == <<status, stamped, files, paused, cancelled, asleep, pc, back, held, reply, calls,
          program, at, left, found, archive, emitted, audit, outcome, late>>

Threads  == Callers \cup {Worker}
Statuses == {"preparing", "scanning", "paused", "completed", "error", "cancelled"}
Terminal == {"completed", "error", "cancelled"}
Events   == {"ScanCanceled", "ScanCompleted", "ScanFailed"}
Persisting == {"snapshot", "write", "audit", "mark"}
CallerPlaces == {"idle", "pauseControl", "pauseStatus", "resumeControl",
                 "resumeStatus", "cancelCheck", "cancelControl", "finalize"}
WorkerPlaces == {"run", "chunk", "entry", "finalize", "fail", "failStatus", "ended"}
Replies  == {"none", "paused", "resumed", "cancelled", "refused"}
Outcomes == {"running", "completed", "failed", "stopped"}

-----------------------------------------------------------------------------
(* initialize_scan_session: the session is registered and persisted once   *)
(* before its worker is spawned.                                           *)
Init ==
    /\ status = "preparing" /\ stamped = FALSE /\ files = 0
    /\ paused = FALSE /\ cancelled = FALSE /\ asleep = FALSE
    /\ pc = [t \in Threads |-> IF t = Worker THEN "run" ELSE "idle"]
    /\ back = pc
    /\ held = [t \in Threads |-> "preparing"]
    /\ reply = [c \in Callers |-> "none"]
    /\ calls = 0
    /\ program \in Programs /\ at = 1 /\ left = 0 /\ found = 0
    /\ \/ archive = "preparing"
       \/ DiskMayFail /\ archive = "absent"
    /\ emitted = FALSE
    /\ audit = [e \in Events |-> 0]
    /\ outcome = "running" /\ late = 0

Goto(t, place) == pc' = [pc EXCEPT ![t] = place]

(* Calling persist_scan_session: the thread takes its snapshot next and    *)
(* continues at place.                                                     *)
PersistThen(t, place) ==
    /\ pc' = [pc EXCEPT ![t] = "snapshot"]
    /\ back' = [back EXCEPT ![t] = place]

-----------------------------------------------------------------------------
(* persist_scan_session: snapshot under the session lock, write the        *)
(* record, read the status again, emit the terminal event once.            *)

Snapshot(t) ==
    /\ pc[t] = "snapshot"
    /\ held' = [held EXCEPT ![t] = status]
    /\ Goto(t, "write")
    /\ UNCHANGED <<session, control, back, reply, calls, locals, outside, history>>

(* A failed write is logged and nothing else.                              *)
Write(t) ==
    /\ pc[t] = "write"
    /\ \/ archive' = held[t]
       \/ DiskMayFail /\ UNCHANGED archive
    /\ Goto(t, "audit")
    /\ UNCHANGED <<session, control, back, held, reply, calls, locals,
                   emitted, audit, history>>

AuditRead(t) ==
    /\ pc[t] = "audit"
    /\ held' = [held EXCEPT ![t] = status]
    /\ Goto(t, IF status \in {"completed", "error"} THEN "mark" ELSE back[t])
    /\ UNCHANGED <<session, control, back, reply, calls, locals, outside, history>>

TerminalEvent(s) == IF s = "completed" THEN "ScanCompleted" ELSE "ScanFailed"

(* The bug of recording without asking whether the key was new.            *)
MarkUnguarded(t) ==
    /\ pc[t] = "mark"
    /\ emitted' = TRUE
    /\ audit' = [audit EXCEPT ![TerminalEvent(held[t])] = @ + 1]
    /\ Goto(t, back[t])
    /\ UNCHANGED <<session, control, back, held, reply, calls, locals, archive, history>>

(* mark_terminal_emitted inserts the key and reports whether it was new;   *)
(* only then is the event recorded, with the status read before.           *)
Mark(t) ==
    /\ pc[t] = "mark"
    /\ emitted' = TRUE
    /\ audit' = IF emitted THEN audit
                ELSE [audit EXCEPT ![TerminalEvent(held[t])] = @ + 1]
    /\ Goto(t, back[t])
    /\ UNCHANGED <<session, control, back, held, reply, calls, locals, archive, history>>

Persist(t) == Snapshot(t) \/ Write(t) \/ AuditRead(t) \/ Mark(t)

-----------------------------------------------------------------------------
(* The worker.                                                             *)

Running(step) == pc[Worker] = "run" /\ program[at] = step

(* The next step starts; a walk or a copy has some number of units.        *)
Advance ==
    /\ at' = at + 1
    /\ left' \in IF program[at + 1] \in {"polled", "catalog"} THEN 0 .. MaxUnits ELSE {0}

Log ==
    /\ Running("log") \/ Running("log?")
    /\ Advance
    /\ PersistThen(Worker, "run")
    /\ UNCHANGED <<session, control, held, reply, calls, program, found, outside, history>>

SkipLog ==
    /\ Running("log?")
    /\ Advance
    /\ UNCHANGED <<session, control, pc, back, held, reply, calls, program, found,
                   outside, history>>

(* The first update_progress stores "scanning" whatever the status is.     *)
Begin ==
    /\ Running("begin")
    /\ status' = "scanning"
    /\ Advance
    /\ UNCHANGED <<stamped, files, control, pc, back, held, reply, calls, program,
                   found, outside, history>>

(* Work that takes no part in the control protocol, and how it can fail.   *)
Work ==
    /\ \/ (Running("copy") \/ Running("check") \/ (Running("polled") /\ left = 0))
          /\ UNCHANGED found
       \/ Running("analyse") /\ found' \in found .. MaxUnits
       \/ Running("fallback") /\ found' \in 0 .. MaxUnits
       \/ Running("catalog") /\ left = 0 /\ UNCHANGED found
    /\ Advance
    /\ UNCHANGED <<session, control, pc, back, held, reply, calls, program, outside,
                   history>>

WorkFails ==
    /\ \E step \in {"copy", "check", "polled", "analyse"} : Running(step)
    /\ Goto(Worker, "fail")
    /\ UNCHANGED <<session, control, back, held, reply, calls, locals, outside, history>>

CopyChunk ==
    /\ Running("polled") /\ left > 0
    /\ Goto(Worker, "chunk")
    /\ UNCHANGED <<session, control, back, held, reply, calls, locals, outside, history>>

-----------------------------------------------------------------------------
(* wait_for_scan_permission, under the control mutex.                      *)

(* The bug of a walk that asks for one entry more than there are.          *)
AtGateOnceMore ==
    /\ ~asleep
    /\ \/ Running("gate") \/ Running("catalog")
       \/ pc[Worker] = "chunk"

AtGate ==
    /\ ~asleep
    /\ \/ Running("gate")
       \/ Running("catalog") /\ left > 0
       \/ pc[Worker] = "chunk"

(* The bug of a gate that answers a pause like a cancellation.             *)
GateInterrupted ==
    /\ AtGate /\ (cancelled \/ paused)
    /\ Goto(Worker, "finalize")
    /\ UNCHANGED <<session, control, back, held, reply, calls, locals, outside, history>>

(* The cancellation sentinel ends every caller of the gate the same way.   *)
GateCancelled ==
    /\ AtGate /\ cancelled
    /\ Goto(Worker, "finalize")
    /\ UNCHANGED <<session, control, back, held, reply, calls, locals, outside, history>>

(* The bug of testing paused before cancelled.                             *)
GateParkFirst ==
    /\ AtGate /\ paused
    /\ asleep' = TRUE
    /\ UNCHANGED <<session, paused, cancelled, pc, back, held, reply, calls, locals,
                   outside, history>>

GatePark ==
    /\ AtGate /\ ~cancelled /\ paused
    /\ asleep' = TRUE
    /\ UNCHANGED <<session, paused, cancelled, pc, back, held, reply, calls, locals,
                   outside, history>>

(* The bug of a pause that only changes what is displayed.                 *)
OpenWhilePaused == ~cancelled

Open == ~cancelled /\ ~paused

GateOpen ==
    /\ AtGate /\ Open
    /\ \/ /\ Running("gate")
          /\ Advance
          /\ UNCHANGED pc
       \/ /\ Running("catalog")
          /\ Goto(Worker, "entry")
          /\ UNCHANGED <<at, left>>
       \/ /\ pc[Worker] = "chunk"
          /\ Goto(Worker, "run")
          /\ left' = left - 1
          /\ UNCHANGED at
    /\ UNCHANGED <<session, control, back, held, reply, calls, program, found, outside,
                   history>>

(* Condvar::wait may return without a notification.                        *)
SpuriousWake ==
    /\ asleep
    /\ asleep' = FALSE
    /\ UNCHANGED <<session, paused, cancelled, pc, back, held, reply, calls, locals,
                   outside, history>>

-----------------------------------------------------------------------------
(* The body of run_inventory_scan's loops: one entry becomes a result (with *)
(* a log line at every hundredth), a counted error, or nothing.            *)
CatalogEntry ==
    /\ pc[Worker] = "entry"
    /\ left' = left - 1
    /\ \/ /\ files' = files + 1
          /\ late' = IF paused \/ cancelled THEN late + 1 ELSE late
          /\ \/ PersistThen(Worker, "run")
             \/ Goto(Worker, "run") /\ UNCHANGED back
       \/ /\ UNCHANGED <<files, late>>
          /\ \/ PersistThen(Worker, "run")
             \/ Goto(Worker, "run") /\ UNCHANGED back
    /\ UNCHANGED <<status, stamped, control, held, reply, calls, program, at, found,
                   outside, outcome>>

(* Batch workers replace the results, the catalog keeps what it pushed.    *)
Published == IF \E i \in DOMAIN program : program[i] = "catalog" THEN files ELSE found

(* The bug of a status stored without the results it announces.            *)
InstallNothing == UNCHANGED files

Install == files' = Published

Publish ==
    /\ Running("publish")
    /\ Install
    /\ status' = "completed"
    /\ stamped' = TRUE
    /\ outcome' = "completed"
    /\ PersistThen(Worker, "ended")
    /\ UNCHANGED <<control, held, reply, calls, locals, outside, late>>

(* fail_scan_session: the status is checked in one critical section and    *)
(* replaced in the next.                                                   *)
FailCheck ==
    /\ pc[Worker] = "fail"
    /\ IF status = "cancelled"
       THEN Goto(Worker, "ended") /\ outcome' = "stopped"
       ELSE Goto(Worker, "failStatus") /\ UNCHANGED outcome
    /\ UNCHANGED <<session, control, back, held, reply, calls, locals, outside, late>>

FailStatus ==
    /\ pc[Worker] = "failStatus"
    /\ status' = "error"
    /\ stamped' = TRUE
    /\ outcome' = "failed"
    /\ PersistThen(Worker, "ended")
    /\ UNCHANGED <<files, control, held, reply, calls, locals, outside, late>>

(* finalize_cancelled_scan, run by the worker and by request_scan_cancel.  *)
(* A cancelled session keeps the results it has.                           *)
DropResults == files' = 0

KeepResults == UNCHANGED files

FinalizeCancelled(t) ==
    /\ pc[t] = "finalize"
    /\ status' = "cancelled"
    /\ KeepResults
    /\ stamped' = TRUE
    /\ PersistThen(t, IF t = Worker THEN "ended" ELSE "idle")
    /\ outcome' = IF t = Worker THEN "stopped" ELSE outcome
    /\ reply' = IF t = Worker THEN reply ELSE [reply EXCEPT ![t] = "cancelled"]
    /\ UNCHANGED <<control, held, calls, locals, outside, late>>

WorkerStep ==
    \/ Log \/ SkipLog \/ Begin \/ Work \/ WorkFails \/ CopyChunk
    \/ GateCancelled \/ GatePark \/ GateOpen
    \/ CatalogEntry \/ Publish \/ FailCheck \/ FailStatus
    \/ FinalizeCancelled(Worker) \/ Persist(Worker)

-----------------------------------------------------------------------------
(* The session commands.  Each first looks at the status, then changes the *)
(* control block, then stores a status without looking at it again.        *)

Return(c, answer) ==
    /\ Goto(c, "idle")
    /\ reply' = [reply EXCEPT ![c] = answer]

Call(c) == pc[c] = "idle" /\ calls < MaxCalls /\ calls' = calls + 1

(* request_scan_pause *)
PauseCheck(c) ==
    /\ Call(c)
    /\ \/ status \in Terminal /\ Return(c, "refused")
       \/ status = "paused" /\ Return(c, "paused")
       \/ /\ status \notin Terminal \cup {"paused"}
          /\ Goto(c, "pauseControl")
          /\ reply' = [reply EXCEPT ![c] = "none"]
    /\ UNCHANGED <<session, control, back, held, locals, outside, history>>

Close == late' = IF paused \/ cancelled THEN late ELSE 0

PauseControl(c) ==
    /\ pc[c] = "pauseControl"
    /\ paused' = TRUE
    /\ Close
    /\ Goto(c, "pauseStatus")
    /\ UNCHANGED <<session, cancelled, asleep, back, held, reply, calls, locals,
                   outside, outcome>>

PauseStatus(c) ==
    /\ pc[c] = "pauseStatus"
    /\ status' = "paused"
    /\ reply' = [reply EXCEPT ![c] = "paused"]
    /\ PersistThen(c, "idle")
    /\ UNCHANGED <<stamped, files, control, held, calls, locals, outside, history>>

(* request_scan_resume: any other live status is answered without a change. *)
ResumeCheck(c) ==
    /\ Call(c)
    /\ \/ status \in Terminal /\ Return(c, "refused")
       \/ status \notin Terminal \cup {"paused"} /\ Return(c, "resumed")
       \/ /\ status = "paused"
          /\ Goto(c, "resumeControl")
          /\ reply' = [reply EXCEPT ![c] = "none"]
    /\ UNCHANGED <<session, control, back, held, locals, outside, history>>

(* notify_all on the condition variable; and the bug of leaving it out.    *)
NotifyNobody == UNCHANGED asleep

NotifyAll == asleep' = FALSE

ResumeControl(c) ==
    /\ pc[c] = "resumeControl"
    /\ paused' = FALSE
    /\ NotifyAll
    /\ Goto(c, "resumeStatus")
    /\ UNCHANGED <<session, cancelled, back, held, reply, calls, locals, outside, history>>

ResumeStatus(c) ==
    /\ pc[c] = "resumeStatus"
    /\ status' = "scanning"
    /\ reply' = [reply EXCEPT ![c] = "resumed"]
    /\ PersistThen(c, "idle")
    /\ UNCHANGED <<stamped, files, control, held, calls, locals, outside, history>>

(* cancel_scan records ScanCanceled before request_scan_cancel looks at    *)
(* the session.                                                            *)
CancelRecord(c) ==
    /\ Call(c)
    /\ audit' = [audit EXCEPT !["ScanCanceled"] = @ + 1]
    /\ Goto(c, "cancelCheck")
    /\ reply' = [reply EXCEPT ![c] = "none"]
    /\ UNCHANGED <<session, control, back, held, locals, archive, emitted, history>>

(* The bug of a cancellation that never reaches the control block.         *)
CancelStatusOnly(c) ==
    /\ pc[c] = "cancelCheck"
    /\ IF status \in Terminal
       THEN Return(c, "refused")
       ELSE Goto(c, "finalize") /\ UNCHANGED reply
    /\ UNCHANGED <<session, control, back, held, calls, locals, outside, history>>

CancelCheck(c) ==
    /\ pc[c] = "cancelCheck"
    /\ IF status \in Terminal
       THEN Return(c, "refused")
       ELSE Goto(c, "cancelControl") /\ UNCHANGED reply
    /\ UNCHANGED <<session, control, back, held, calls, locals, outside, history>>

CancelControl(c) ==
    /\ pc[c] = "cancelControl"
    /\ cancelled' = TRUE
    /\ paused' = FALSE
    /\ NotifyAll
    /\ Close
    /\ Goto(c, "finalize")
    /\ UNCHANGED <<session, back, held, reply, calls, locals, outside, outcome>>

Continue(c) ==
    \/ PauseControl(c) \/ PauseStatus(c)
    \/ ResumeControl(c) \/ ResumeStatus(c)
    \/ CancelCheck(c) \/ CancelControl(c) \/ FinalizeCancelled(c)
    \/ Persist(c)

CallerStep(c) == PauseCheck(c) \/ ResumeCheck(c) \/ CancelRecord(c) \/ Continue(c)

Done == /\ pc[Worker] = "ended"
        /\ \A c \in Callers : pc[c] = "idle"
        /\ calls = MaxCalls
        /\ UNCHANGED vars

Next == WorkerStep \/ SpuriousWake \/ (\E c \in Callers : CallerStep(c)) \/ Done

Spec == Init /\ [][Next]_vars

(* The worker thread runs, and a command that was issued runs to its end;  *)
(* nobody has to issue one.                                                *)
Fairness == WF_vars(WorkerStep) /\ \A c \in Callers : WF_vars(Continue(c))

FairSpec == Spec /\ Fairness

-----------------------------------------------------------------------------
(* Properties.                                                             *)

(* Every variable keeps its type, however the workers, the commands and    *)
(* the persistence hook interleave.                                        *)
TypeOK ==
    /\ status \in Statuses /\ stamped \in BOOLEAN /\ files \in Nat
    /\ paused \in BOOLEAN /\ cancelled \in BOOLEAN /\ asleep \in BOOLEAN
    /\ pc \in [Threads -> CallerPlaces \cup WorkerPlaces \cup Persisting]
    /\ back \in [Threads -> {"idle", "run", "ended"}]
    /\ held \in [Threads -> Statuses]
    /\ reply \in [Callers -> Replies]
    /\ calls \in 0 .. MaxCalls
    /\ program \in Programs /\ at \in DOMAIN program
    /\ left \in 0 .. MaxUnits /\ found \in 0 .. MaxUnits
    /\ archive \in Statuses \cup {"absent"}
    /\ emitted \in BOOLEAN /\ audit \in [Events -> Nat]
    /\ outcome \in Outcomes /\ late \in Nat

(* emit_scan_terminal_audit: whoever persists, however often and however   *)
(* late, the trail gets at most one terminal event, and the one it gets is *)
(* the ending the worker really had.                                       *)
AuditTruthful ==
    /\ audit["ScanCompleted"] + audit["ScanFailed"] <= 1
    /\ audit["ScanCompleted"] > 0 => outcome = "completed"
    /\ audit["ScanFailed"] > 0 => outcome = "failed"

(* The record on disk is written from snapshots that may be stale, but an  *)
(* ending it reports has happened: completed and error are the worker's,   *)
(* cancelled was asked for.                                                *)
ArchiveTruthful ==
    /\ archive = "completed" => outcome = "completed"
    /\ archive = "error" => outcome = "failed"
    /\ archive = "cancelled" => cancelled

(* start_export takes the results of a session whose status is completed:  *)
(* they are then the whole result list, in every state between the steps   *)
(* of the worker's last critical section and everyone else's.              *)
CompletedIsWhole ==
    status = "completed" => outcome = "completed" /\ files = Published

(* No result is added, dropped or replaced once the worker has ended, even *)
(* when a racing command has moved the status away from its ending.        *)
ResultsFrozen == [][outcome # "running" => UNCHANGED files]_vars

(* After pause_scan or cancel_scan has closed the control block, the       *)
(* catalog walk pushes at most the one entry it had permission for.        *)
PromptStop == late <= 1

(* request_scan_cancel wakes a parked worker: a cancelled scan's thread    *)
(* always ends, whatever was paused or resumed before or after.            *)
CancelStopsWorker == cancelled ~> pc[Worker] = "ended"

(* A scan that does not stay paused ends.  The condition is the control    *)
(* block's flag: the status may say something else.                        *)
RunsToEnd == <>[](~paused) => <>(pc[Worker] = "ended")

(* The session implements the job its observers are promised.              *)
Job == INSTANCE CancellableJob WITH
    phase <- outcome,
    stopRequested <- cancelled,
    suspended <- paused,
    output <- files,
    announced <- [completed |-> audit["ScanCompleted"], failed |-> audit["ScanFailed"]]

(* Refinement: every step of the session is a step of CancellableJob or    *)
(* leaves the job as it is.                                                *)
ImplementsJob == Job!JobSpec

-----------------------------------------------------------------------------
(* What comments, messages and tests of the repository say, and the code   *)
(* does not keep.                                                          *)

(* "Only an active scan can be paused."                                    *)
OnlyActivePaused == [][(status \in Terminal) => status' # "paused"]_vars

(* The test of pause, resume and cancel: "paused scan should resume".      *)
ResumeTakesEffect ==
    \A c \in Callers : pc[c] = "idle" /\ reply[c] = "resumed" => ~paused
=============================================================================
