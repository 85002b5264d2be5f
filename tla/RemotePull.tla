------------------------------ MODULE RemotePull ------------------------------
(***************************************************************************)
(* Pulling one recovered file from a remote agent: the desktop's command   *)
(* and client (remote/commands.rs, remote/client.rs) and the agent's       *)
(* handlers (crates/recupere-agent/src/http.rs).  The agent exports the    *)
(* file alone to a fresh directory, answers with the first regular file it *)
(* finds there, its size and its hash; the desktop streams that path,      *)
(* compares and asks for its deletion.  The desktop gives up on a request  *)
(* after 30 seconds while the agent waits for its export for 30 minutes,   *)
(* and the export itself goes on whoever waits.                            *)
(***************************************************************************)
EXTENDS Naturals, Sequences, FiniteSets

CONSTANTS
  MaxPulls      \* bound: pulls the desktop asks for

ASSUME PullAssumption == MaxPulls \in Nat

VARIABLES
  jobs,         \* the agent's pulls, each with its export
  artifacts,    \* what is in the directory of each
  desktop,      \* where the command is
  local,        \* the local destination
  outcome       \* what the last finished command returned

pullVars == <<jobs, artifacts, desktop, local, outcome>>

Pulls == 1..MaxPulls

(* A regular file of a pull's directory: whose export wrote it, which part *)
(* it is, whether it lies in a subdirectory (the structure is preserved),  *)
(* and whether it was written to its end.                                  *)
Artifact(j, part, deep, whole) == [job |-> j, part |-> part, deep |-> deep, whole |-> whole]

NoArtifact == Artifact(0, "none", FALSE, FALSE)
UsersFile == Artifact(0, "users", FALSE, TRUE)

(* The local destination: a copy of an artifact, complete or not. *)
Copy(artifact, complete) == [of |-> artifact, complete |-> complete]

(* What may be pulled: a file that lay below a directory, with a sidecar. *)
PulledFile == [deep : BOOLEAN, sidecar : BOOLEAN]

(* The parts an export writes, the manifest last. *)
ExportedParts(file) ==
  <<"file">> \o (IF file.sidecar THEN <<"sidecar">> ELSE <<>>) \o <<"manifest">>

NoJob == [request |-> "none", export |-> "none", writing |-> FALSE, todo |-> <<>>,
          file |-> [deep |-> FALSE, sidecar |-> FALSE], reply |-> NoArtifact]

(* The bug of one directory for all pulls. *)
SharedDirectory(j) == 1

(* The directory of a pull is named by the nanosecond it began in. *)
PullDirectory(j) == j

PullInit ==
  /\ jobs = [j \in Pulls |-> NoJob]
  /\ artifacts = [d \in Pulls |-> {}]
  /\ desktop = [pc |-> "idle", job |-> 0]
  /\ local \in {Copy(NoArtifact, FALSE), Copy(UsersFile, TRUE)}
  /\ outcome = "none"

(* pull_recovered_file, desktop: the request reaches the agent, which      *)
(* checks the bearer token, makes the directory and starts the export.     *)
RequestPull(file) ==
  /\ desktop.pc = "idle"
  /\ \E j \in Pulls :
       /\ jobs[j].request = "none" /\ \A k \in Pulls : k < j => jobs[k].request # "none"
       /\ jobs' = [jobs EXCEPT ![j] =
                     [request |-> "polling", export |-> "running", writing |-> FALSE,
                      todo |-> ExportedParts(file), file |-> file, reply |-> NoArtifact]]
       /\ desktop' = [pc |-> "waiting", job |-> j]
  /\ outcome' = "none"
  /\ UNCHANGED <<artifacts, local>>

(* require_bearer refuses, or the agent cannot be reached. *)
RequestRefused ==
  /\ desktop.pc = "idle" /\ jobs[MaxPulls].request = "none"
  /\ outcome' = "error"
  /\ UNCHANGED <<jobs, artifacts, desktop, local>>

-----------------------------------------------------------------------------
(* The export of a pull, a thread of the agent (ExportJob).                *)

(* The part being written, and the temporary file beside it. *)
PartOf(j, part, whole) ==
  Artifact(j, part, part # "manifest" /\ jobs[j].file.deep, whole)
Temporary(j) ==
  [PartOf(j, Head(jobs[j].todo), FALSE) EXCEPT !.part = "temporary"]

BeginPart(j) ==
  /\ jobs[j].export = "running" /\ ~jobs[j].writing
  /\ artifacts' = [artifacts EXCEPT ![PullDirectory(j)] = @ \cup {Temporary(j)}]
  /\ jobs' = [jobs EXCEPT ![j].writing = TRUE]
  /\ UNCHANGED <<desktop, local, outcome>>

EndPart(j) ==
  /\ jobs[j].export = "running" /\ jobs[j].writing
  /\ artifacts' = [artifacts EXCEPT ![PullDirectory(j)] =
                     (@ \ {Temporary(j)}) \cup {PartOf(j, Head(jobs[j].todo), TRUE)}]
  /\ jobs' = [jobs EXCEPT ![j].writing = FALSE, ![j].todo = Tail(@),
                          ![j].export = IF Tail(jobs[j].todo) = <<>> THEN "completed" ELSE @]
  /\ UNCHANGED <<desktop, local, outcome>>

(* A file or a sidecar that fails is an error, and what was written for it *)
(* is removed, as far as that goes; an export whose manifest fails is      *)
(* complete all the same, its temporary file there or not.                 *)
FailPart(j) ==
  /\ jobs[j].export = "running"
  /\ LET own == {a \in artifacts[PullDirectory(j)] : a.job = j}
         cleared == IF Head(jobs[j].todo) = "manifest" THEN {Temporary(j)} ELSE own
     IN  \E gone \in SUBSET cleared :
           artifacts' = [artifacts EXCEPT ![PullDirectory(j)] = @ \ gone]
  /\ jobs' = [jobs EXCEPT ![j].export =
                IF Head(jobs[j].todo) = "manifest" THEN "completed" ELSE "error"]
  /\ UNCHANGED <<desktop, local, outcome>>

-----------------------------------------------------------------------------
(* The agent's handlers.                                                   *)

(* first_regular_file: a directory's files are met before what is in its   *)
(* subdirectories, in the order the system lists them.                     *)
FirstRegularFiles(found) ==
  IF \E f \in found : ~f.deep THEN {f \in found : ~f.deep} ELSE found

(* pull_recovered_file_blocking: the export has ended, and its first file  *)
(* is measured and hashed, unless that fails.                              *)
AnswerPull(j) ==
  /\ jobs[j].request = "polling" /\ jobs[j].export = "completed"
  /\ \E f \in FirstRegularFiles(artifacts[PullDirectory(j)]) :
       jobs' = [jobs EXCEPT ![j].request = "replied", ![j].reply = f]
  /\ UNCHANGED <<artifacts, desktop, local, outcome>>

(* The export or the measuring failed, or 30 minutes have passed. *)
RefusePull(j) ==
  /\ jobs[j].request = "polling"
  /\ jobs' = [jobs EXCEPT ![j].request = "failed"]
  /\ UNCHANGED <<artifacts, desktop, local, outcome>>

(* stream_file: what stands at the path of the reply by now. *)
Path(a) == [a EXCEPT !.whole = FALSE]
Streamed(j) ==
  {a \in artifacts[PullDirectory(j)] : Path(a) = Path(jobs[j].reply)}

-----------------------------------------------------------------------------
(* The desktop's command.                                                  *)

NoCommand == [pc |-> "idle", job |-> 0]

(* REQUEST_TIMEOUT: the command fails, the agent's job goes on. *)
RequestTimesOut ==
  /\ desktop.pc = "waiting"
  /\ desktop' = NoCommand /\ outcome' = "error"
  /\ UNCHANGED <<jobs, artifacts, local>>

(* parse_response *)
ReceiveReply ==
  /\ desktop.pc = "waiting"
  /\ \/ /\ jobs[desktop.job].request = "replied"
        /\ desktop' = [desktop EXCEPT !.pc = "download"] /\ UNCHANGED outcome
     \/ /\ jobs[desktop.job].request = "failed"
        /\ desktop' = NoCommand /\ outcome' = "error"
  /\ UNCHANGED <<jobs, artifacts, local>>

(* download_file: an answer that is not a success (for an empty file it    *)
(* never is one, as no range of it can be satisfied) leaves the            *)
(* destination alone; else that is truncated and filled, to the end or     *)
(* not, and an end that comes too early may look like the end.             *)
Download ==
  /\ desktop.pc = "download"
  /\ \/ \E a \in Streamed(desktop.job), complete \in BOOLEAN :
          /\ local' = Copy(a, complete)
          /\ desktop' = [desktop EXCEPT !.pc = "verify"] /\ UNCHANGED outcome
     \/ \E a \in Streamed(desktop.job) :
          /\ local' = Copy(a, FALSE)
          /\ desktop' = NoCommand /\ outcome' = "error"
     \/ /\ UNCHANGED local
        /\ desktop' = NoCommand /\ outcome' = "error"
  /\ UNCHANGED <<jobs, artifacts>>

(* verify_downloaded_file: the size, then the hash, of the reply. *)
VerifyDownload ==
  /\ desktop.pc = "verify"
  /\ IF local = Copy(jobs[desktop.job].reply, TRUE)
     THEN desktop' = [desktop EXCEPT !.pc = "delete"] /\ UNCHANGED outcome
     ELSE desktop' = NoCommand /\ outcome' = "error"
  /\ UNCHANGED <<jobs, artifacts, local>>

(* delete_remote_file: the path of the reply, whose failure is ignored.    *)
DeleteArtifact ==
  /\ desktop.pc = "delete"
  /\ LET j == desktop.job
     IN  \/ artifacts' = [artifacts EXCEPT ![PullDirectory(j)] =
                            {a \in @ : Path(a) # Path(jobs[j].reply)}]
         \/ UNCHANGED artifacts
  /\ desktop' = [pc |-> "idle", job |-> desktop.job]
  /\ outcome' = "ok"
  /\ UNCHANGED <<jobs, local>>

PullNext ==
  \/ \E file \in PulledFile : RequestPull(file)
  \/ RequestRefused \/ RequestTimesOut \/ ReceiveReply \/ Download \/ VerifyDownload
  \/ DeleteArtifact
  \/ \E j \in Pulls : \/ BeginPart(j) \/ EndPart(j) \/ FailPart(j)
                      \/ AnswerPull(j) \/ RefusePull(j)

(* A pull that succeeds has left at the destination, complete, a file that *)
(* this very request's export wrote: never one of an earlier pull that     *)
(* timed out and whose export is still writing or has ended meanwhile,     *)
(* never a part of one, never the user's earlier file.                     *)
PullVerified ==
  outcome = "ok" => local.complete /\ local.of.job = desktop.job
=============================================================================
