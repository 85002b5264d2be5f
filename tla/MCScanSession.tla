---------------------------- MODULE MCScanSession ----------------------------
(* Values for model checking ScanSession.                                  *)
EXTENDS ScanSession, TLC

(* Every worker: programs that are equal as sequences count once.          *)
AllPrograms ==
    {RunDeletedFat32Scan, RunDeletedExfatScan, RunDeletedApfsScan,
     RunDeletedHfsPlusScan, RunDeletedNtfsScan, RunDeletedExt4Scan,
     RunPotentialVolumeScan, RunSignatureCarvingScan, RunImageAcquisition,
     RunImageAcquisitionWithMap, RunInventoryScan}

(* One worker that pushes results as it walks, one that publishes them at  *)
(* the end from a polled copy.                                             *)
TwoPrograms == {RunInventoryScan, RunSignatureCarvingScan}

(* The commands treat their threads alike.                                 *)
CallerSymmetry == Permutations(Callers)

OnlyFat32 == {RunDeletedFat32Scan}
OnlyInventory == {RunInventoryScan}
=============================================================================
