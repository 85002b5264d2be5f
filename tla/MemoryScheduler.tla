---------------------------- MODULE MemoryScheduler ----------------------------
(***************************************************************************)
(* The passive scheduler of the filesystem memory                          *)
(* (filesystem_memory/scheduler.rs) and the command that changes its       *)
(* policy.  A save writes the policy file, stops the running thread (takes *)
(* the handle out of the slot under its lock, sends it a stop, joins it)   *)
(* and, for a scheduled policy, spawns a thread and puts its handle in the *)
(* slot.  Two saves may run these steps in any order: the handle that is   *)
(* then overwritten is dropped, which closes its channel.                  *)
(***************************************************************************)
EXTENDS Naturals, FiniteSetsExt

CONSTANTS
  Savers,          \* threads that save a policy; the start of the program is one
  MaxSchedulers,   \* bound: scheduler threads spawned
  PollsPerTick     \* interval over STOP_POLL_INTERVAL

ASSUME SchedulerAssumption == MaxSchedulers \in Nat /\ PollsPerTick \in Nat \ {0}

VARIABLES
  policyFile,      \* the saved policy, normalised
  slot,            \* the thread whose handle the slot holds, 0 for none
  schedulers,      \* state of every scheduler thread
  saver,           \* where each save is
  savesOverlapped  \* ghost: a save began inside another one

schedulerVars == <<policyFile, slot, schedulers, saver, savesOverlapped>>

Threads == 1..MaxSchedulers

(* "below" is a scheduled interval under MIN_INTERVAL_MINUTES, "floor" that *)
(* minimum, "hour" one above it.                                            *)
Policies == {"manual", "realtime", "below", "floor", "hour"}

Normalize(policy) == IF policy = "below" THEN "floor" ELSE policy

Scheduled(policy) == policy \in {"floor", "hour"}

NoThread == [state |-> "none", policy |-> "manual", waited |-> 0, told |-> "no"]

Alive(i) == schedulers[i].state \in {"waiting", "ticking"}

AtRest == [pc |-> "idle", policy |-> "manual", thread |-> 0]

(* The program starts the scheduler from the saved policy (lib.rs). *)
SchedulerInit ==
  /\ policyFile \in {Normalize(p) : p \in Policies}
  /\ slot = 0
  /\ schedulers = [i \in Threads |-> NoThread]
  /\ \E first \in Savers :
       saver = [c \in Savers |-> IF c = first
                  THEN [AtRest EXCEPT !.pc = "saved", !.policy = policyFile] ELSE AtRest]
  /\ savesOverlapped = FALSE

(* save_filesystem_memory_policy: normalise, write the file, whose failure *)
(* ends the command.                                                       *)
SavePolicy(c, policy) ==
  /\ saver[c].pc = "idle"
  /\ \E i \in Threads : schedulers[i].state = "none"
  /\ policyFile' = Normalize(policy)
  /\ saver' = [saver EXCEPT ![c] = [AtRest EXCEPT !.pc = "saved", !.policy = Normalize(policy)]]
  /\ savesOverlapped' = (savesOverlapped \/ \E d \in Savers : saver[d].pc # "idle")
  /\ UNCHANGED <<slot, schedulers>>

(* The bug of a stop that sends nothing and does not wait. *)
TakeHandleOnly(c) ==
  /\ saver[c].pc = "saved"
  /\ slot' = 0
  /\ saver' = [saver EXCEPT ![c].pc = "joining"]
  /\ UNCHANGED <<policyFile, savesOverlapped, schedulers>>

(* stop(): the handle leaves the slot and its thread is told to stop. *)
TakeHandle(c) ==
  /\ saver[c].pc = "saved"
  /\ slot' = 0
  /\ saver' = [saver EXCEPT ![c].pc = "joining", ![c].thread = slot]
  /\ schedulers' = IF slot = 0 THEN schedulers
                               ELSE [schedulers EXCEPT ![slot].told = "stop"]
  /\ UNCHANGED <<policyFile, savesOverlapped>>

(* ... and is joined; a manual or realtime policy then leaves it at that. *)
JoinThread(c) ==
  /\ saver[c].pc = "joining"
  /\ saver[c].thread # 0 => schedulers[saver[c].thread].state = "done"
  /\ saver' = [saver EXCEPT ![c] = IF Scheduled(saver[c].policy)
                 THEN [@ EXCEPT !.pc = "starting", !.thread = 0] ELSE AtRest]
  /\ UNCHANGED <<policyFile, slot, schedulers, savesOverlapped>>

SpawnThread(c) ==
  /\ saver[c].pc = "starting"
  /\ \E i \in Threads :
       /\ schedulers[i].state = "none"
       /\ \A j \in Threads : j < i => schedulers[j].state # "none"
       /\ schedulers' = [schedulers EXCEPT ![i] =
            [NoThread EXCEPT !.state = "waiting", !.policy = saver[c].policy]]
       /\ saver' = [saver EXCEPT ![c].pc = "spawned", ![c].thread = i]
  /\ UNCHANGED <<policyFile, slot, savesOverlapped>>

(* The bug of a slot whose sender outlives the handle. *)
InstallKeepingSender(c) ==
  /\ saver[c].pc = "spawned"
  /\ slot' = saver[c].thread
  /\ saver' = [saver EXCEPT ![c] = AtRest]
  /\ UNCHANGED <<policyFile, schedulers, savesOverlapped>>

(* The handle that the slot still holds is dropped, and with it the sender *)
(* of its channel.                                                         *)
InstallHandle(c) ==
  /\ saver[c].pc = "spawned"
  /\ slot' = saver[c].thread
  /\ schedulers' = IF slot = 0 THEN schedulers
                               ELSE [schedulers EXCEPT ![slot].told = "dropped"]
  /\ saver' = [saver EXCEPT ![c] = AtRest]
  /\ UNCHANGED <<policyFile, savesOverlapped>>

(* run_scheduler_loop: recv_timeout returns what was sent, that the sender *)
(* is gone, or that a poll interval has passed.                            *)
PollChannel(i) ==
  /\ schedulers[i].state = "waiting"
  /\ schedulers' = [schedulers EXCEPT ![i] =
       IF @.told # "no" THEN [@ EXCEPT !.state = "done"]
       ELSE IF @.waited + 1 < PollsPerTick
            THEN [@ EXCEPT !.waited = schedulers[i].waited + 1]
       ELSE [@ EXCEPT !.state = "ticking", !.waited = 0]]
  /\ UNCHANGED <<policyFile, slot, saver, savesOverlapped>>

(* A tick runs to its end whatever it has been told. *)
EndTick(i) ==
  /\ schedulers[i].state = "ticking"
  /\ schedulers' = [schedulers EXCEPT ![i].state = "waiting"]
  /\ UNCHANGED <<policyFile, slot, saver, savesOverlapped>>

SchedulerNext ==
  \/ \E c \in Savers :
       \/ \E policy \in Policies : SavePolicy(c, policy)
       \/ TakeHandle(c) \/ JoinThread(c) \/ SpawnThread(c) \/ InstallHandle(c)
  \/ \E i \in Threads : PollChannel(i) \/ EndTick(i)

(* However saves overlap, a scheduler thread that nobody has told to leave *)
(* is the one in the slot, or its own save is about to put it there: none  *)
(* can go on ticking out of reach of the next save.                        *)
NoStrayScheduler ==
  \A i \in Threads :
    Alive(i) /\ schedulers[i].told = "no" =>
      \/ slot = i
      \/ \E c \in Savers : saver[c].pc = "spawned" /\ saver[c].thread = i

(* When saves follow one another, what runs after them is what the policy  *)
(* file says: one thread with its interval, or none at all.                *)
SchedulerFollowsPolicy ==
  ~savesOverlapped /\ (\A c \in Savers : saver[c].pc = "idle") =>
    /\ {i \in Threads : Alive(i)} = {slot} \ {0}
    /\ (slot # 0) = Scheduled(policyFile)
    /\ slot # 0 => schedulers[slot].policy = policyFile
=============================================================================
