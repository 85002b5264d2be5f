------------------------------- MODULE MCParts -------------------------------
(***************************************************************************)
(* The stores and the readers of the program, each on a small instance.    *)
(* They share no state: a behaviour runs one of them, named by "active",   *)
(* and the others keep their first state.                                  *)
(***************************************************************************)
EXTENDS HistoryArchive, AuditChain, MemoryScheduler, MemoryStore,
        RemoteRegistry, RemotePull, ImportedSources, MCReaders, TLC

CONSTANTS Machines,    \* the stores to run
          Readers      \* the readers to run

VARIABLE active

Symmetry == Permutations(ArchiveThreads) \cup Permutations(Savers)

vars == <<active, archiveVars, auditVars, schedulerVars, memoryVars, registryVars,
          pullVars, importVars, readerVars>>

Parked(machine) ==
  CASE machine = "archive" -> archiveKind = "scan" /\ disk = NoDisk
    [] machine = "audit" -> trailFile = <<>> /\ trailReadable
    [] machine = "scheduler" -> policyFile = "manual"
    [] machine = "memory" -> store = NoDisk
    [] machine = "pull" -> local = Copy(NoArtifact, FALSE)
    [] machine = "imports" -> register = Registered({})
    [] OTHER -> TRUE

Init ==
  /\ active \in Machines \cup {"reader"}
  /\ ArchiveInit /\ AuditInit /\ SchedulerInit /\ MemoryInit
  /\ RegistryInit /\ PullInit /\ ImportInit
  /\ \A machine \in {"archive", "audit", "scheduler", "memory", "pull", "imports"} \ {active} :
       Parked(machine)
  /\ reader \in IF active = "reader" THEN Readers ELSE {"none"}
  /\ input = NoInput

Next ==
  \/ /\ active = "archive" /\ ArchiveNext
     /\ UNCHANGED <<active, auditVars, schedulerVars, memoryVars,
                    registryVars, pullVars, importVars, readerVars>>
  \/ /\ active = "audit" /\ AuditNext
     /\ UNCHANGED <<active, archiveVars, schedulerVars, memoryVars,
                    registryVars, pullVars, importVars, readerVars>>
  \/ /\ active = "scheduler" /\ SchedulerNext
     /\ UNCHANGED <<active, archiveVars, auditVars, memoryVars,
                    registryVars, pullVars, importVars, readerVars>>
  \/ /\ active = "memory" /\ MemoryNext
     /\ UNCHANGED <<active, archiveVars, auditVars, schedulerVars,
                    registryVars, pullVars, importVars, readerVars>>
  \/ /\ active = "registry" /\ RegistryNext
     /\ UNCHANGED <<active, archiveVars, auditVars, schedulerVars,
                    memoryVars, pullVars, importVars, readerVars>>
  \/ /\ active = "pull" /\ PullNext
     /\ UNCHANGED <<active, archiveVars, auditVars, schedulerVars,
                    memoryVars, registryVars, importVars, readerVars>>
  \/ /\ active = "imports" /\ ImportNext
     /\ UNCHANGED <<active, archiveVars, auditVars, schedulerVars,
                    memoryVars, registryVars, pullVars, readerVars>>
  \/ /\ active = "reader" /\ (ReaderNext \/ AnalyserNext)
     /\ UNCHANGED <<active, archiveVars, auditVars, schedulerVars,
                    memoryVars, registryVars, pullVars, importVars>>

Spec == Init /\ [][Next]_vars
=============================================================================
