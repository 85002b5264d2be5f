-------------------------- MODULE ScanSessionProofs --------------------------
(***************************************************************************)
(* Theorems about ScanSession, for any set of callers, any programs that   *)
(* end in their only publish step, and any bounds.                         *)
(***************************************************************************)
EXTENDS ScanSession, TLAPS

(* Where each kind of thread can be, and that a walk or copy in the middle *)
(* of a unit has a unit left.                                              *)
Places ==
    /\ pc[Worker] \in WorkerPlaces \cup Persisting
    /\ back[Worker] \in {"run", "ended"}
    /\ \A c \in Callers : pc[c] \in CallerPlaces \cup Persisting /\ back[c] = "idle"
    /\ pc[Worker] \in {"chunk", "entry"} => left > 0

TypeInv == TypeOK /\ Places

(* A worker that is not at its last step has a next one.                   *)
LEMMA NextStepExists ==
    ASSUME TypeOK, program[at] # "publish"
    PROVE  at + 1 \in DOMAIN program
<1>1. /\ program \in Seq(Steps) /\ program[Len(program)] = "publish"
      /\ at \in 1 .. Len(program)
  BY SessionAssumption DEF TypeOK
<1>2. at # Len(program)
  BY <1>1
<1> QED
  BY <1>1, <1>2

(* Advancing stays inside the program and within the bound on units.       *)
LEMMA AdvanceType ==
    ASSUME TypeOK, program[at] # "publish", Advance
    PROVE  at' \in DOMAIN program /\ left' \in 0 .. MaxUnits
  BY NextStepExists, SessionAssumption DEF Advance, TypeOK

(* A registered session with its worker about to start is well typed.      *)
LEMMA InitType == Init => TypeInv
<1> SUFFICES ASSUME Init PROVE TypeInv
  OBVIOUS
<1>1. at \in DOMAIN program /\ program \in Programs
  <2>1. program \in Seq(Steps) /\ program # <<>>
    BY SessionAssumption DEF Init
  <2> QED
    BY <2>1 DEF Init
<1>2. left \in 0 .. MaxUnits /\ found \in 0 .. MaxUnits /\ calls \in 0 .. MaxCalls
  BY SessionAssumption DEF Init
<1>3. /\ pc \in [Threads -> CallerPlaces \cup WorkerPlaces \cup Persisting]
      /\ back \in [Threads -> {"idle", "run", "ended"}]
      /\ held \in [Threads -> Statuses]
      /\ reply \in [Callers -> Replies]
  BY DEF Init, CallerPlaces, WorkerPlaces, Statuses, Replies
<1>4. TypeOK
  BY <1>1, <1>2, <1>3 DEF Init, TypeOK, Statuses, Outcomes, Events
<1>5. Places
  BY SessionAssumption DEF Init, Places, Threads, WorkerPlaces, CallerPlaces
<1> QED
  BY <1>4, <1>5 DEF TypeInv

(* The persistence hook keeps every type, whichever thread runs it.        *)
LEMMA PersistType ==
    ASSUME TypeInv, NEW t \in Threads, Persist(t)
    PROVE  TypeInv'
<1> USE DEF TypeInv, TypeOK, Places, Threads, session, control, locals, outside, history
<1>1. CASE Snapshot(t)
  BY <1>1, SessionAssumption
     DEF Snapshot, Goto, Persisting, CallerPlaces, WorkerPlaces
<1>2. CASE Write(t)
  BY <1>2, SessionAssumption
     DEF Write, Goto, Persisting, CallerPlaces, WorkerPlaces
<1>3. CASE AuditRead(t)
  BY <1>3, SessionAssumption
     DEF AuditRead, Goto, Persisting, CallerPlaces, WorkerPlaces
<1>4. CASE Mark(t)
  <2>1. audit' \in [Events -> Nat]
    BY <1>4 DEF Mark, TerminalEvent, Events
  <2> QED
    BY <1>4, <2>1, SessionAssumption
       DEF Mark, Goto, Persisting, CallerPlaces, WorkerPlaces
<1> QED
  BY <1>1, <1>2, <1>3, <1>4 DEF Persist

(* So does the worker.                                                     *)
LEMMA WorkerType ==
    ASSUME TypeInv, WorkerStep
    PROVE  TypeInv'
<1> USE DEF TypeInv, TypeOK, Places, Threads, session, control, locals, outside, history
<1>1. CASE Log
  BY <1>1, AdvanceType, SessionAssumption
     DEF Log, Running, PersistThen, Persisting, CallerPlaces, WorkerPlaces
<1>2. CASE SkipLog
  BY <1>2, AdvanceType DEF SkipLog, Running
<1>3. CASE Begin
  BY <1>3, AdvanceType DEF Begin, Running, Statuses
<1>4. CASE Work
  BY <1>4, AdvanceType, SessionAssumption DEF Work, Running
<1>5. CASE WorkFails
  BY <1>5, SessionAssumption DEF WorkFails, Goto, WorkerPlaces
<1>6. CASE CopyChunk
  BY <1>6, SessionAssumption DEF CopyChunk, Goto, WorkerPlaces
<1>7. CASE GateCancelled
  BY <1>7, SessionAssumption DEF GateCancelled, Goto, WorkerPlaces
<1>8. CASE GatePark
  BY <1>8 DEF GatePark
<1>9. CASE GateOpen
  <2>1. CASE Running("gate") /\ Advance /\ UNCHANGED pc
    BY <1>9, <2>1, AdvanceType DEF GateOpen, Running
  <2>2. CASE Running("catalog") /\ Goto(Worker, "entry") /\ UNCHANGED <<at, left>>
    BY <1>9, <2>2, SessionAssumption DEF GateOpen, AtGate, Running, Goto, WorkerPlaces
  <2>3. CASE pc[Worker] = "chunk" /\ Goto(Worker, "run") /\ left' = left - 1 /\ UNCHANGED at
    BY <1>9, <2>3, SessionAssumption DEF GateOpen, Goto, WorkerPlaces
  <2> QED
    BY <1>9, <2>1, <2>2, <2>3 DEF GateOpen
<1>10. CASE CatalogEntry
  BY <1>10, SessionAssumption
     DEF CatalogEntry, PersistThen, Goto, Persisting, CallerPlaces, WorkerPlaces
<1>11. CASE Publish
  BY <1>11, SessionAssumption
     DEF Publish, Install, Published, PersistThen, Persisting, CallerPlaces,
         WorkerPlaces, Statuses, Outcomes
<1>12. CASE FailCheck
  BY <1>12, SessionAssumption DEF FailCheck, Goto, WorkerPlaces, Outcomes
<1>13. CASE FailStatus
  BY <1>13, SessionAssumption
     DEF FailStatus, PersistThen, Persisting, CallerPlaces, WorkerPlaces,
         Statuses, Outcomes
<1>14. CASE FinalizeCancelled(Worker)
  BY <1>14, SessionAssumption
     DEF FinalizeCancelled, KeepResults, PersistThen, Persisting, CallerPlaces,
         WorkerPlaces, Statuses, Outcomes
<1>15. CASE Persist(Worker)
  BY <1>15, PersistType
<1> QED
  BY <1>1, <1>2, <1>3, <1>4, <1>5, <1>6, <1>7, <1>8, <1>9, <1>10, <1>11, <1>12,
     <1>13, <1>14, <1>15 DEF WorkerStep

(* So do the commands.                                                     *)
LEMMA CallerType ==
    ASSUME TypeInv, NEW c \in Callers, CallerStep(c)
    PROVE  TypeInv'
<1> USE SessionAssumption
    DEF TypeInv, TypeOK, Places, Threads, session, control, locals, outside, history
<1>1. CASE PauseCheck(c)
  <2>1. \E p \in CallerPlaces : pc' = [pc EXCEPT ![c] = p]
    BY <1>1 DEF PauseCheck, Call, Return, Goto, CallerPlaces
  <2>2. \E r \in Replies : reply' = [reply EXCEPT ![c] = r]
    BY <1>1 DEF PauseCheck, Return, Replies
  <2>3. calls' \in 0 .. MaxCalls
    BY <1>1 DEF PauseCheck, Call
  <2>4. UNCHANGED <<session, control, back, held, locals, outside, history>>
    BY <1>1 DEF PauseCheck
  <2> QED
    BY <2>1, <2>2, <2>3, <2>4
<1>2. CASE ResumeCheck(c)
  <2>1. \E p \in CallerPlaces : pc' = [pc EXCEPT ![c] = p]
    BY <1>2 DEF ResumeCheck, Call, Return, Goto, CallerPlaces
  <2>2. \E r \in Replies : reply' = [reply EXCEPT ![c] = r]
    BY <1>2 DEF ResumeCheck, Return, Replies
  <2>3. calls' \in 0 .. MaxCalls
    BY <1>2 DEF ResumeCheck, Call
  <2>4. UNCHANGED <<session, control, back, held, locals, outside, history>>
    BY <1>2 DEF ResumeCheck
  <2> QED
    BY <2>1, <2>2, <2>3, <2>4
<1>3. CASE CancelRecord(c)
  BY <1>3 DEF CancelRecord, Call, Goto, CallerPlaces, Replies, Events
<1>4. CASE PauseControl(c)
  BY <1>4 DEF PauseControl, Close, Goto, CallerPlaces
<1>5. CASE PauseStatus(c)
  BY <1>5 DEF PauseStatus, PersistThen, Persisting, CallerPlaces, Replies, Statuses
<1>6. CASE ResumeControl(c)
  BY <1>6 DEF ResumeControl, NotifyAll, Goto, CallerPlaces
<1>7. CASE ResumeStatus(c)
  BY <1>7 DEF ResumeStatus, PersistThen, Persisting, CallerPlaces, Replies, Statuses
<1>8. CASE CancelCheck(c)
  <2>1. \E p \in CallerPlaces : pc' = [pc EXCEPT ![c] = p]
    BY <1>8 DEF CancelCheck, Return, Goto, CallerPlaces
  <2>2. reply' \in [Callers -> Replies] /\ calls' \in 0 .. MaxCalls
    BY <1>8 DEF CancelCheck, Return, Goto, Replies
  <2> QED
    BY <1>8, <2>1, <2>2 DEF CancelCheck
<1>9. CASE CancelControl(c)
  BY <1>9 DEF CancelControl, NotifyAll, Close, Goto, CallerPlaces
<1>10. CASE FinalizeCancelled(c)
  BY <1>10 DEF FinalizeCancelled, KeepResults, PersistThen, Persisting, CallerPlaces,
               Replies, Statuses, Outcomes
<1>11. CASE Persist(c)
  BY <1>11, PersistType
<1> QED
  BY <1>1, <1>2, <1>3, <1>4, <1>5, <1>6, <1>7, <1>8, <1>9, <1>10, <1>11
     DEF CallerStep, Continue

(* No step of the worker, of a command or of the condition variable        *)
(* breaks a type or leaves a thread where it cannot be.                    *)
LEMMA NextType == TypeInv /\ [Next]_vars => TypeInv'
<1> SUFFICES ASSUME TypeInv, [Next]_vars PROVE TypeInv'
  OBVIOUS
<1>1. CASE UNCHANGED vars
  BY <1>1 DEF TypeInv, TypeOK, Places, vars
<1>2. CASE WorkerStep
  BY <1>2, WorkerType
<1>3. CASE SpuriousWake
  BY <1>3 DEF SpuriousWake, TypeInv, TypeOK, Places, session, locals, outside, history
<1>4. CASE \E c \in Callers : CallerStep(c)
  BY <1>4, CallerType
<1>5. CASE Done
  BY <1>5, <1>1 DEF Done
<1> QED
  BY <1>1, <1>2, <1>3, <1>4, <1>5 DEF Next

(* The state of a session keeps its types for any number of threads,       *)
(* commands, entries and steps of a worker.                                *)
THEOREM TypeCorrect == Spec => []TypeOK
<1>1. TypeInv => TypeOK
  BY DEF TypeInv
<1> QED
  BY <1>1, InitType, NextType, PTL DEF Spec

-----------------------------------------------------------------------------
(* The inductive invariant of the safety properties.  The properties       *)
(* compare what is visible (status, record, trail, results) with how the   *)
(* worker ended; what they lack is when that is decided, and that stale    *)
(* copies in the threads' hands are honest too.                            *)

(* The worker has run its last critical section of its own.                *)
Ended == pc[Worker] = "ended" \/ (pc[Worker] \in Persisting /\ back[Worker] = "ended")

(* An ending that is claimed has happened.                                 *)
Honest(s) ==
    /\ s = "completed" => outcome = "completed"
    /\ s = "error" => outcome = "failed"
    /\ s = "cancelled" => cancelled

Truth ==
    /\ outcome = "running" <=> ~Ended
    /\ Honest(status) /\ Honest(archive)
    /\ \A t \in Threads : /\ Honest(held[t])
                          /\ pc[t] = "finalize" => cancelled
                          /\ pc[t] = "mark" => held[t] \in {"completed", "error"}

Trail ==
    /\ AuditTruthful
    /\ ~emitted => audit["ScanCompleted"] = 0 /\ audit["ScanFailed"] = 0

(* The results, once installed, are not touched.                           *)
Whole == outcome = "completed" => files = Published

(* A walk that holds a permission it got before the gate closed has not    *)
(* used one since.                                                         *)
Prompt ==
    /\ late <= 1
    /\ (paused \/ cancelled) /\ pc[Worker] = "entry" => late = 0

Safe == Truth /\ Trail /\ Whole /\ Prompt

SafeInv == TypeInv /\ Safe

(* A fresh session has announced nothing and ended nowhere.                *)
LEMMA InitSafe == Init => Safe
  BY SessionAssumption
     DEF Init, Safe, Truth, Trail, Whole, Prompt, Ended, Honest, AuditTruthful,
         Threads, Events, Persisting

(* Persisting copies honest statuses around; the one that marks a session  *)
(* as announced finds nothing announced before.                            *)
LEMMA PersistSafe ==
    ASSUME SafeInv, NEW t \in Threads, Persist(t)
    PROVE  Safe'
<1> USE SessionAssumption
    DEF SafeInv, Safe, TypeInv, TypeOK, Places, Threads, session, control, locals,
        outside, history, Persisting, WorkerPlaces, CallerPlaces
<1>1. CASE Snapshot(t)
  BY <1>1 DEF Snapshot, Goto, Truth, Trail, Whole, Prompt, Ended, Honest,
              AuditTruthful, Published
<1>2. CASE Write(t)
  BY <1>2 DEF Write, Goto, Truth, Trail, Whole, Prompt, Ended, Honest,
              AuditTruthful, Published
<1>3. CASE AuditRead(t)
  BY <1>3 DEF AuditRead, Goto, Truth, Trail, Whole, Prompt, Ended, Honest,
              AuditTruthful, Published
<1>4. CASE Mark(t)
  BY <1>4 DEF Mark, Goto, Truth, Trail, Whole, Prompt, Ended, Honest,
              AuditTruthful, Published, TerminalEvent, Events
<1> QED
  BY <1>1, <1>2, <1>3, <1>4 DEF Persist

(* A worker that still runs decides its ending only once.                  *)
LEMMA WorkerSafe ==
    ASSUME SafeInv, WorkerStep
    PROVE  Safe'
<1> USE SessionAssumption
    DEF SafeInv, Safe, TypeInv, TypeOK, Places, Threads, session, control, locals,
        outside, history, Persisting, WorkerPlaces, CallerPlaces
<1>1. CASE Log
  BY <1>1 DEF Log, Running, Advance, PersistThen, Truth, Trail, Whole, Prompt, Ended,
              Honest, AuditTruthful
<1>2. CASE SkipLog
  BY <1>2 DEF SkipLog, Running, Truth, Trail, Whole, Prompt, Ended,
              Honest, AuditTruthful
<1>3. CASE Begin
  BY <1>3 DEF Begin, Running, Truth, Trail, Whole, Prompt, Ended, Honest,
              AuditTruthful
<1>4. CASE Work
  BY <1>4 DEF Work, Running, Truth, Trail, Whole, Prompt, Ended, Honest,
              AuditTruthful
<1>5. CASE WorkFails
  BY <1>5 DEF WorkFails, Running, Goto, Truth, Trail, Whole, Prompt, Ended, Honest,
              AuditTruthful, Published
<1>6. CASE CopyChunk
  BY <1>6 DEF CopyChunk, Running, Goto, Truth, Trail, Whole, Prompt, Ended, Honest,
              AuditTruthful, Published
<1>7. CASE GateCancelled
  BY <1>7 DEF GateCancelled, AtGate, Running, Goto, Truth, Trail, Whole, Prompt, Ended,
              Honest, AuditTruthful, Published
<1>8. CASE GatePark
  BY <1>8 DEF GatePark, Truth, Trail, Whole, Prompt, Ended, Honest, AuditTruthful,
              Published
<1>9. CASE GateOpen
  BY <1>9 DEF GateOpen, Open, AtGate, Running, Goto, Truth, Trail, Whole, Prompt, Ended,
              Honest, AuditTruthful
<1>10. CASE CatalogEntry
  BY <1>10 DEF CatalogEntry, PersistThen, Goto, Truth, Trail, Whole, Prompt, Ended,
               Honest, AuditTruthful
<1>11. CASE Publish
  BY <1>11 DEF Publish, Install, Running, PersistThen, Truth, Trail, Whole, Prompt,
               Ended, Honest, AuditTruthful, Published
<1>12. CASE FailCheck
  BY <1>12 DEF FailCheck, Goto, Truth, Trail, Whole, Prompt, Ended, Honest,
               AuditTruthful
<1>13. CASE FailStatus
  BY <1>13 DEF FailStatus, PersistThen, Truth, Trail, Whole, Prompt, Ended, Honest,
               AuditTruthful
<1>14. CASE FinalizeCancelled(Worker)
  BY <1>14 DEF FinalizeCancelled, KeepResults, PersistThen, Truth, Trail, Whole, Prompt,
               Ended, Honest, AuditTruthful
<1>15. CASE Persist(Worker)
  BY <1>15, PersistSafe
<1> QED
  BY <1>1, <1>2, <1>3, <1>4, <1>5, <1>6, <1>7, <1>8, <1>9, <1>10, <1>11, <1>12,
     <1>13, <1>14, <1>15 DEF WorkerStep

(* A command moves the status, never to completed or error, and closing    *)
(* the gate starts the count of late results over.                         *)
LEMMA CallerSafe ==
    ASSUME SafeInv, NEW c \in Callers, CallerStep(c)
    PROVE  Safe'
<1> USE SessionAssumption
    DEF SafeInv, Safe, TypeInv, TypeOK, Places, Threads, session, control, locals,
        outside, history, Persisting, WorkerPlaces, CallerPlaces
<1>1. CASE PauseCheck(c)
  BY <1>1 DEF PauseCheck, Return, Goto, Truth, Trail, Whole, Prompt, Ended, Honest,
              AuditTruthful, Published
<1>2. CASE ResumeCheck(c)
  BY <1>2 DEF ResumeCheck, Return, Goto, Truth, Trail, Whole, Prompt, Ended, Honest,
              AuditTruthful, Published
<1>3. CASE CancelRecord(c)
  BY <1>3 DEF CancelRecord, Goto, Truth, Trail, Whole, Prompt, Ended, Honest,
              AuditTruthful, Published, Events
<1>4. CASE PauseControl(c)
  BY <1>4 DEF PauseControl, Close, Goto, Truth, Trail, Whole, Prompt, Ended, Honest,
              AuditTruthful, Published
<1>5. CASE PauseStatus(c)
  BY <1>5 DEF PauseStatus, PersistThen, Truth, Trail, Whole, Prompt, Ended, Honest,
              AuditTruthful, Published
<1>6. CASE ResumeControl(c)
  BY <1>6 DEF ResumeControl, Goto, Truth, Trail, Whole, Prompt, Ended, Honest,
              AuditTruthful, Published
<1>7. CASE ResumeStatus(c)
  BY <1>7 DEF ResumeStatus, PersistThen, Truth, Trail, Whole, Prompt, Ended, Honest,
              AuditTruthful, Published
<1>8. CASE CancelCheck(c)
  BY <1>8 DEF CancelCheck, Return, Goto, Truth, Trail, Whole, Prompt, Ended, Honest,
              AuditTruthful, Published
<1>9. CASE CancelControl(c)
  BY <1>9 DEF CancelControl, Close, Goto, Truth, Trail, Whole, Prompt, Ended, Honest,
              AuditTruthful, Published
<1>10. CASE FinalizeCancelled(c)
  BY <1>10 DEF FinalizeCancelled, KeepResults, PersistThen, Truth, Trail, Whole, Prompt,
               Ended, Honest, AuditTruthful, Published
<1>11. CASE Persist(c)
  BY <1>11, PersistSafe
<1> QED
  BY <1>1, <1>2, <1>3, <1>4, <1>5, <1>6, <1>7, <1>8, <1>9, <1>10, <1>11
     DEF CallerStep, Continue

(* SafeInv is inductive: every step of every thread preserves it.          *)
LEMMA NextSafe == SafeInv /\ [Next]_vars => SafeInv'
<1> SUFFICES ASSUME SafeInv, [Next]_vars PROVE Safe'
  BY NextType DEF SafeInv
<1>1. CASE UNCHANGED vars
  BY <1>1 DEF SafeInv, Safe, Truth, Trail, Whole, Prompt, Ended, Honest, AuditTruthful,
              Published, vars
<1>2. CASE WorkerStep
  BY <1>2, WorkerSafe
<1>3. CASE SpuriousWake
  BY <1>3 DEF SpuriousWake, SafeInv, Safe, Truth, Trail, Whole, Prompt, Ended, Honest,
              AuditTruthful, Published, session, locals, outside, history
<1>4. CASE \E c \in Callers : CallerStep(c)
  BY <1>4, CallerSafe
<1>5. CASE Done
  BY <1>5, <1>1 DEF Done
<1> QED
  BY <1>1, <1>2, <1>3, <1>4, <1>5 DEF Next

(* The strengthened invariant holds for any number of callers, commands,   *)
(* units and worker programs; the safety theorems below are its parts.     *)
THEOREM SafeInvariant == Spec => []SafeInv
  BY InitType, InitSafe, NextSafe, PTL DEF Spec, SafeInv

(* However the persistence hook is raced, the trail gets at most one       *)
(* terminal event and it is the worker's real ending.                      *)
THEOREM AuditIsTruthful == Spec => []AuditTruthful
<1>1. SafeInv => AuditTruthful
  BY DEF SafeInv, Safe, Trail
<1> QED
  BY <1>1, SafeInvariant, PTL

(* No stale snapshot puts an ending on disk that did not happen.           *)
THEOREM ArchiveIsTruthful == Spec => []ArchiveTruthful
<1>1. SafeInv => ArchiveTruthful
  BY DEF SafeInv, Safe, Truth, Honest, ArchiveTruthful
<1> QED
  BY <1>1, SafeInvariant, PTL

(* An export that sees status completed takes the whole result list.       *)
THEOREM ExportSeesAll == Spec => []CompletedIsWhole
<1>1. SafeInv => CompletedIsWhole
  BY DEF SafeInv, Safe, Truth, Whole, Honest, CompletedIsWhole
<1> QED
  BY <1>1, SafeInvariant, PTL

(* Pausing or cancelling lets at most one more entry through.              *)
THEOREM StopsPromptly == Spec => []PromptStop
<1>1. SafeInv => PromptStop
  BY DEF SafeInv, Safe, Prompt, PromptStop
<1> QED
  BY <1>1, SafeInvariant, PTL

(* Only a running worker changes the result list: results are pushed by    *)
(* the catalog walk and installed by the publication, and both need a      *)
(* worker that has not ended.                                              *)
LEMMA StepKeepsResults ==
    ASSUME SafeInv, [Next]_vars, outcome # "running"
    PROVE  UNCHANGED files
<1>1. pc[Worker] \in Persisting \cup {"ended"} /\ Worker \in Threads
  BY DEF SafeInv, Safe, Truth, Ended, Threads
<1>2. CASE UNCHANGED vars
  BY <1>2 DEF vars
<1>3. CASE WorkerStep
  BY <1>1, <1>3
     DEF WorkerStep, Log, SkipLog, Begin, Work, WorkFails, CopyChunk, GateCancelled,
         GatePark, GateOpen, CatalogEntry, Publish, FailCheck, FailStatus,
         FinalizeCancelled, KeepResults, Persist, Snapshot, Write, AuditRead, Mark,
         AtGate, Running, Persisting, session
<1>4. CASE SpuriousWake
  BY <1>4 DEF SpuriousWake, session
<1>5. CASE \E c \in Callers : CallerStep(c)
  BY <1>5
     DEF CallerStep, Continue, PauseCheck, PauseControl, PauseStatus, ResumeCheck,
         ResumeControl, ResumeStatus, CancelRecord, CancelCheck, CancelControl,
         FinalizeCancelled, KeepResults, Persist, Snapshot, Write, AuditRead, Mark,
         session
<1>6. CASE Done
  BY <1>6 DEF Done, vars
<1> QED
  BY <1>2, <1>3, <1>4, <1>5, <1>6 DEF Next

(* What a finished session holds is what it will always hold.              *)
THEOREM ResultsAreFrozen == Spec => ResultsFrozen
<1>1. SafeInv /\ [Next]_vars => [outcome # "running" => UNCHANGED files]_vars
  BY StepKeepsResults
<1> QED
  BY <1>1, SafeInvariant, PTL DEF Spec, ResultsFrozen

-----------------------------------------------------------------------------
(* The session implements CancellableJob.                                  *)

(* A fresh session is a fresh job.                                         *)
LEMMA JobInitial == Init => Job!JobInit
  BY DEF Init, Job!JobInit, Events

(* Marking is the announcement when the key is new, and invisible when not. *)
LEMMA MarkAnnounces ==
    ASSUME SafeInv, NEW t \in Threads, Mark(t)
    PROVE  Job!Announce \/ UNCHANGED Job!jobVars
<1>1. UNCHANGED <<outcome, cancelled, paused, files>>
  BY DEF Mark, session, control, history
<1>2. CASE emitted
  BY <1>1, <1>2 DEF Mark, Job!jobVars
<1>3. CASE ~emitted
  <2>1. audit["ScanCompleted"] = 0 /\ audit["ScanFailed"] = 0
    BY <1>3 DEF SafeInv, Safe, Trail
  <2>2. \/ held[t] = "completed" /\ outcome = "completed"
        \/ held[t] = "error" /\ outcome = "failed"
    BY DEF SafeInv, Safe, Truth, Honest, Mark
  <2>3. /\ audit \in [Events -> Nat]
        /\ audit' = [audit EXCEPT ![TerminalEvent(held[t])] = @ + 1]
    BY <1>3 DEF Mark, SafeInv, TypeInv, TypeOK
  <2>4. CASE held[t] = "completed" /\ outcome = "completed"
    <3>1. audit'["ScanCompleted"] = 1 /\ audit'["ScanFailed"] = 0
      BY <2>1, <2>3, <2>4 DEF TerminalEvent, Events
    <3> QED
      BY <1>1, <2>1, <2>4, <3>1 DEF Job!Announce
  <2>5. CASE held[t] = "error" /\ outcome = "failed"
    <3>1. audit'["ScanCompleted"] = 0 /\ audit'["ScanFailed"] = 1
      BY <2>1, <2>3, <2>5 DEF TerminalEvent, Events
    <3> QED
      BY <1>1, <2>1, <2>5, <3>1 DEF Job!Announce
  <2> QED
    BY <2>2, <2>4, <2>5
<1> QED
  BY <1>2, <1>3

(* Of the persistence hook, only marking is visible to the job.            *)
LEMMA PersistMaps ==
    ASSUME SafeInv, NEW t \in Threads, Persist(t)
    PROVE  [Job!JobNext]_(Job!jobVars)
<1>1. CASE Mark(t)
  BY <1>1, MarkAnnounces DEF Job!JobNext
<1>2. CASE Snapshot(t) \/ Write(t) \/ AuditRead(t)
  BY <1>2 DEF Snapshot, Write, AuditRead, Job!jobVars, session, control, outside, history
<1> QED
  BY <1>1, <1>2 DEF Persist

(* Every step of the worker is the job producing, finishing, failing,      *)
(* stopping or announcing, or is invisible to it.                          *)
LEMMA WorkerMaps ==
    ASSUME SafeInv, WorkerStep
    PROVE  [Job!JobNext]_(Job!jobVars)
<1>1. /\ Worker \in Threads
      /\ outcome = "running" <=> ~Ended
      /\ pc[Worker] \notin Persisting \cup {"ended"} => outcome = "running"
      /\ files \in Nat /\ found \in Nat
      /\ status = "cancelled" => cancelled
      /\ pc[Worker] = "finalize" => cancelled
  BY SessionAssumption
     DEF SafeInv, Safe, Truth, Ended, Honest, Threads, TypeInv, TypeOK
<1>2. CASE Log \/ SkipLog \/ Begin \/ Work \/ WorkFails \/ CopyChunk
           \/ GateCancelled \/ GatePark \/ GateOpen
  BY <1>2
     DEF Log, SkipLog, Begin, Work, WorkFails, CopyChunk, GateCancelled, GatePark,
         GateOpen, Job!jobVars, session, control, outside, history
<1>3. CASE CatalogEntry
  BY <1>1, <1>3
     DEF CatalogEntry, Persisting, Job!JobNext, Job!Produce, Job!jobVars, control, outside
<1>4. CASE Publish
  BY <1>1, <1>4
     DEF Publish, Install, Published, Running, Persisting, Job!JobNext, Job!Finish,
         control, outside
<1>5. CASE FailCheck
  BY <1>1, <1>5
     DEF FailCheck, Persisting, Job!JobNext, Job!Stop, Job!jobVars, session, control,
         outside
<1>6. CASE FailStatus
  BY <1>1, <1>6
     DEF FailStatus, Persisting, Job!JobNext, Job!Fail, control, outside
<1>7. CASE FinalizeCancelled(Worker)
  BY <1>1, <1>7
     DEF FinalizeCancelled, KeepResults, Persisting, Job!JobNext, Job!Stop, control,
         outside
<1>8. CASE Persist(Worker)
  BY <1>1, <1>8, PersistMaps
<1> QED
  BY <1>2, <1>3, <1>4, <1>5, <1>6, <1>7, <1>8 DEF WorkerStep

(* Every step of a command suspends, releases or stops the job, announces  *)
(* its ending, or is invisible to it.                                      *)
LEMMA CallerMaps ==
    ASSUME SafeInv, NEW c \in Callers, CallerStep(c)
    PROVE  [Job!JobNext]_(Job!jobVars)
<1>1. CASE PauseControl(c)
  BY <1>1 DEF PauseControl, Job!JobNext, Job!Suspend, session, outside
<1>2. CASE ResumeControl(c)
  BY <1>2 DEF ResumeControl, Job!JobNext, Job!Release, session, outside, history
<1>3. CASE CancelControl(c)
  BY <1>3 DEF CancelControl, Job!JobNext, Job!RequestStop, session, outside
<1>4. CASE CancelRecord(c)
  <2>1. /\ audit'["ScanCompleted"] = audit["ScanCompleted"]
        /\ audit'["ScanFailed"] = audit["ScanFailed"]
    BY <1>4 DEF CancelRecord, SafeInv, TypeInv, TypeOK, Events
  <2> QED
    BY <1>4, <2>1 DEF CancelRecord, Job!jobVars, session, control, history
<1>5. CASE PauseCheck(c) \/ ResumeCheck(c) \/ PauseStatus(c) \/ ResumeStatus(c)
           \/ CancelCheck(c)
  BY <1>5
     DEF PauseCheck, ResumeCheck, PauseStatus, ResumeStatus, CancelCheck, Job!jobVars,
         session, control, outside, history
<1>6. CASE FinalizeCancelled(c)
  BY <1>6, SessionAssumption
     DEF FinalizeCancelled, KeepResults, Job!jobVars, control, outside
<1>7. CASE Persist(c)
  BY <1>7, PersistMaps DEF Threads
<1> QED
  BY <1>1, <1>2, <1>3, <1>4, <1>5, <1>6, <1>7 DEF CallerStep, Continue

(* Every step of a session maps to a step of the job or to a stutter.      *)
LEMMA JobStep == SafeInv /\ [Next]_vars => [Job!JobNext]_(Job!jobVars)
<1> SUFFICES ASSUME SafeInv, [Next]_vars PROVE [Job!JobNext]_(Job!jobVars)
  OBVIOUS
<1>1. CASE UNCHANGED vars
  BY <1>1 DEF vars, Job!jobVars
<1>2. CASE WorkerStep
  BY <1>2, WorkerMaps
<1>3. CASE SpuriousWake
  BY <1>3 DEF SpuriousWake, Job!jobVars, session, outside, history
<1>4. CASE \E c \in Callers : CallerStep(c)
  BY <1>4, CallerMaps
<1>5. CASE Done
  BY <1>5, <1>1 DEF Done
<1> QED
  BY <1>1, <1>2, <1>3, <1>4, <1>5 DEF Next

(* Every run of a session, seen through its ending, its control flags, its *)
(* result count and its terminal events, is a run of CancellableJob.       *)
THEOREM SessionImplementsJob == Spec => ImplementsJob
  BY JobInitial, JobStep, SafeInvariant, PTL DEF Spec, ImplementsJob, Job!JobSpec
=============================================================================
