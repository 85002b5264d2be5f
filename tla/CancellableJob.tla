---------------------------- MODULE CancellableJob ----------------------------
(***************************************************************************)
(* What a scan session promises to the commands that watch it: a job that  *)
(* runs once, can be suspended and asked to stop, ends in exactly one way, *)
(* changes nothing it has produced once it ended, and announces a normal   *)
(* or failed ending at most once and truthfully.  It stops early only if   *)
(* it was asked to.                                                        *)
(***************************************************************************)
EXTENDS Naturals

VARIABLES phase, stopRequested, suspended, output, announced

jobVars == <<phase, stopRequested, suspended, output, announced>>

JobInit ==
    /\ phase = "running"
    /\ stopRequested = FALSE
    /\ suspended = FALSE
    /\ output = 0
    /\ announced = [completed |-> 0, failed |-> 0]

(* The user may suspend, release or stop the job at any time.              *)
Suspend ==
    /\ suspended' = TRUE
    /\ UNCHANGED <<phase, stopRequested, output, announced>>

Release ==
    /\ suspended' = FALSE
    /\ UNCHANGED <<phase, stopRequested, output, announced>>

RequestStop ==
    /\ stopRequested' = TRUE
    /\ suspended' = FALSE
    /\ UNCHANGED <<phase, output, announced>>

Produce ==
    /\ phase = "running"
    /\ output' = output + 1
    /\ UNCHANGED <<phase, stopRequested, suspended, announced>>

Finish ==
    /\ phase = "running"
    /\ phase' = "completed"
    /\ output' \in Nat
    /\ UNCHANGED <<stopRequested, suspended, announced>>

Fail ==
    /\ phase = "running"
    /\ phase' = "failed"
    /\ UNCHANGED <<stopRequested, suspended, output, announced>>

Stop ==
    /\ phase = "running"
    /\ stopRequested
    /\ phase' = "stopped"
    /\ UNCHANGED <<stopRequested, suspended, output, announced>>

Announce ==
    /\ phase \in {"completed", "failed"}
    /\ announced = [completed |-> 0, failed |-> 0]
    /\ announced' = [announced EXCEPT ![phase] = 1]
    /\ UNCHANGED <<phase, stopRequested, suspended, output>>

JobNext ==
    Suspend \/ Release \/ RequestStop \/ Produce \/ Finish \/ Fail \/ Stop \/ Announce

JobSpec == JobInit /\ [][JobNext]_jobVars
=============================================================================
