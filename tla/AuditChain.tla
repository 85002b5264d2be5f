------------------------------ MODULE AuditChain ------------------------------
(***************************************************************************)
(* The audit trail (audit/mod.rs): a list of records, each with the hash   *)
(* of the record before it, held under one mutex, written whole to a file  *)
(* at every change and read back once when the process starts.  Failing to *)
(* write is ignored, and a file that cannot be read is taken as empty.     *)
(*                                                                         *)
(* A hash is modelled as the hashed record itself: two records have one    *)
(* hash exactly when they are equal.  Legacy records have no hash.         *)
(***************************************************************************)
EXTENDS Naturals, Sequences, FiniteSetsExt

CONSTANTS
  AuditEvents,    \* kinds of event, AuditEventKind
  MaxAuditId,     \* bound: ids given, and with them the length of the trail
  MaxAuditRuns    \* bound: starts of the process

ASSUME AuditAssumption == MaxAuditId \in Nat /\ MaxAuditRuns \in Nat /\ "forged" \notin AuditEvents

VARIABLES
  trail,          \* the records in memory
  nextId,         \* id of the next one
  trailFile,      \* the records on disk
  trailReadable,  \* FALSE when the file cannot be parsed
  auditRuns,      \* starts so far
  forgedFile,     \* ghost: positions of the file someone edited
  forgedTrail     \* ghost: those among the records in memory

auditVars == <<trail, nextId, trailFile, trailReadable, auditRuns, forgedFile, forgedTrail>>

GenesisHash == <<"genesis">>

NoHash == <<>>

RecordHash(record) == <<record.id, record.event, record.prev>>

ExpectedPrevHash(records) ==
  IF records = <<>> THEN GenesisHash ELSE RecordHash(records[Len(records)])

(* The bug of a verifier that trusts the stored hash of the predecessor. *)
ChainStatusById(records, i) ==
  CASE records[i].prev = NoHash -> "unverified"
    [] i = 1 \/ records[i].prev[1] = records[i - 1].id -> "ok"
    [] OTHER -> "broken"

(* verify_records: what it says of record i.  The next record is compared  *)
(* with the hash of the one before it as that one reads now.               *)
ChainStatus(records, i) ==
  CASE records[i].prev = NoHash -> "unverified"
    [] records[i].prev = ExpectedPrevHash(SubSeq(records, 1, i - 1)) -> "ok"
    [] OTHER -> "broken"

VerifyRecords(records) ==
  [broken |-> {i \in DOMAIN records : ChainStatus(records, i) = "broken"},
   total  |-> Len(records)]

LegacyTrails == {<<>>, <<[id |-> 1, event |-> "legacy", prev |-> NoHash]>>}

NextIdOf(records) == Max({0} \cup {records[i].id : i \in DOMAIN records}) + 1

(* load_persisted_trail: a file that cannot be parsed is an empty trail. *)
Loaded(records, readable) == IF readable THEN records ELSE <<>>

AuditInit ==
  /\ trailFile \in LegacyTrails /\ trailReadable \in BOOLEAN
  /\ trail = Loaded(trailFile, trailReadable)
  /\ nextId = NextIdOf(trail)
  /\ auditRuns = 1
  /\ forgedFile = {} /\ forgedTrail = {}

(* persist_trail: through a temporary file; nothing happens when it fails. *)
PersistTrail(records, forged) ==
  \/ trailFile' = records /\ trailReadable' = TRUE /\ forgedFile' = forged
  \/ UNCHANGED <<trailFile, trailReadable, forgedFile>>

AuditRecord(event) ==
  /\ nextId <= MaxAuditId
  /\ trail' = Append(trail, [id |-> nextId, event |-> event, prev |-> ExpectedPrevHash(trail)])
  /\ nextId' = nextId + 1
  /\ PersistTrail(trail', forgedTrail)
  /\ UNCHANGED <<auditRuns, forgedTrail>>

(* clear_trail: nextId goes on. *)
ClearTrail ==
  /\ trail # <<>>
  /\ trail' = <<>> /\ forgedTrail' = {}
  /\ PersistTrail(<<>>, {})
  /\ UNCHANGED <<nextId, auditRuns>>

(* Someone edits a record of the file. *)
EditFile(i) ==
  /\ trailReadable /\ i \in DOMAIN trailFile /\ trailFile[i].event # "forged"
  /\ trailFile' = [trailFile EXCEPT ![i].event = "forged"]
  /\ forgedFile' = forgedFile \cup {i}
  /\ UNCHANGED <<trail, nextId, trailReadable, auditRuns, forgedTrail>>

(* The file is read back, unless reading it fails or it cannot be parsed.  *)
(* An edit of the last record is what the next one will commit to.         *)
RestartAudit ==
  /\ auditRuns < MaxAuditRuns
  /\ auditRuns' = auditRuns + 1
  /\ \E isRead \in {trailReadable, FALSE} :
       /\ trail' = Loaded(trailFile, isRead)
       /\ forgedTrail' = IF isRead THEN forgedFile \ {Len(trailFile)} ELSE {}
  /\ nextId' = NextIdOf(trail')
  /\ UNCHANGED <<trailFile, trailReadable, forgedFile>>

AuditNext ==
  \/ \E event \in AuditEvents : AuditRecord(event)
  \/ ClearTrail \/ RestartAudit
  \/ \E i \in 1..MaxAuditId : EditFile(i)

(* The verifier names the record after each edited one, and no other: the  *)
(* trail of a program that was cleared, that failed to write, that started *)
(* from legacy records or was restarted verifies, an edit anywhere but at  *)
(* the end does not, and ids grow along the trail.                         *)
EditsAreNamed ==
  /\ VerifyRecords(trail).broken =
       {i \in DOMAIN trail : i - 1 \in forgedTrail /\ trail[i].prev # NoHash}
  /\ \A i, j \in DOMAIN trail : i < j => trail[i].id < trail[j].id
=============================================================================
