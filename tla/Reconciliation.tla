--------------------------- MODULE Reconciliation ---------------------------
(***************************************************************************)
(* One curated table fed by two pipelines: logical CDC, and the snapshot   *)
(* merges of hash diff, which the README keeps for the initial load and    *)
(* for reconciliation.  The two share the curated and the hash-state table *)
(* and the source, and nothing else: no lock, no order, no position.       *)
(*                                                                         *)
(* The stages are those of LogicalCdc and of HashDiff, whose source table  *)
(* is here the one that LogicalCdc's transactions build.  Only what one    *)
(* pipeline may do to the other is added.  The row committed before the    *)
(* slot exists is in no WAL it reads: it arrives with the first merge.     *)
(***************************************************************************)
EXTENDS LogicalCdc, FiniteSets

CONSTANTS Merges, BatchSize   \* Runs and BatchSize of HashDiff

ASSUME FirstCommitAssumption == MaxLsn >= 2   \* it has a place in the WAL

VARIABLES
    mergePhase, snapshot, unread, batch, staged, raced,
    missable, \* keys merges upserted since a delete of CDC may have begun
    asOf,     \* transactions in the snapshot a merge works from
    stale     \* keys whose row may be older than the checkpoint

cdcVars == <<wal, walEnd, slotFlush, checkpoint, phase, start, window, first, next,
             lastDecoded, reached, toWrite, saved, acked, crashes, timeouts>>
mergeVars == <<mergePhase, snapshot, unread, batch, staged, raced, asOf>>
allVars == <<vars, mergeVars, missable, stale>>

(* One merge at a time: HashDiff's note of what other merges write stays    *)
(* empty.  A replay of a stored snapshot is to CDC a merge that took long,  *)
(* so replays are left to HashDiff, as are a merge's failures, and what is  *)
(* stored does not matter.                                                  *)
Snapshot == INSTANCE HashDiff WITH
    Runs <- Merges, source <- SourceTable, phase <- mergePhase,
    stored <- UNION {Batches}, touched <- [p \in Merges |-> {}],
    MaxChanges <- 0, changes <- 0, MaxFaults <- 0, faults <- 0, MaxReplays <- 0, replays <- 0

ReconciliationInit ==
    /\ TargetInit
    /\ \E changes \in Menu :
        /\ changes # <<>> /\ CanRunOn(EmptyTable, changes)
        /\ wal = <<[commit |-> 1, changes |-> changes]>>
    /\ walEnd = 2
    /\ slotFlush = 2
    /\ NoRun
    /\ mergePhase = [p \in Merges |-> "idle"]
    /\ snapshot = [p \in Merges |-> Snapshot!NoRows]
    /\ batch = [p \in Merges |-> Snapshot!NoRows]
    /\ unread = [p \in Merges |-> {}]
    /\ staged = [p \in Merges |-> {}]
    /\ raced = [p \in Merges |-> {}]
    /\ missable = {}
    /\ asOf = [p \in Merges |-> 0]
    /\ stale = Keys
-----------------------------------------------------------------------------
CdcUpserts ==
    /\ ApplyUpserts
    /\ raced' = [p \in Merges |->
            IF mergePhase[p] = "deleting" THEN raced[p] \cup toWrite ELSE raced[p]]
    /\ stale' = stale \ toWrite
    /\ UNCHANGED <<mergePhase, snapshot, unread, batch, staged, asOf, missable>>

CdcDeletes ==
    /\ \E missed \in SUBSET (DeletedKeys(Artifact) \cap missable) :
        /\ \E kept \in SUBSET missed : DeleteAllBut(missed, kept)
        /\ stale' = stale \ (DeletedKeys(Artifact) \ missed)
    /\ missable' = {}
    /\ UNCHANGED mergeVars

(* A position past a transaction the late deadline dropped leaves its rows, *)
(* and overtakes the merges that have begun.                                *)
KeysOf(i) ==
    UNION {{e.key : e \in EventsOf(wal[i].changes[n], n)} : n \in DOMAIN wal[i].changes}

CdcPosition ==
    /\ SaveCheckpoint \/ AckSlot
    /\ \E K \in {UNION {KeysOf(i) : i \in next..Released'}} :
        /\ stale' = stale \cup K
        /\ asOf' = IF K = {} THEN asOf ELSE [p \in Merges |-> 0]
    /\ UNCHANGED <<mergePhase, snapshot, unread, batch, staged, raced, missable>>

CdcCrash ==
    /\ Crash
    /\ missable' = {}
    /\ UNCHANGED <<mergeVars, stale>>
-----------------------------------------------------------------------------
(* The transactions CDC has applied, or will not apply again. *)
Passed ==
    IF phase \in {"classified", "upserted", "applied"} THEN Max2(Released, next - 1)
    ELSE Released

Overtaken(p) == asOf[p] < Passed

MergeExtracts(p) ==
    /\ UNCHANGED cdcVars
    /\ Snapshot!ExtractAndLand(p)
    /\ asOf' = [asOf EXCEPT ![p] = Len(wal)]
    /\ UNCHANGED <<missable, stale>>

MergeReads(p) ==
    /\ UNCHANGED cdcVars
    /\ Snapshot!StartMerge(p) \/ Snapshot!ReadBatch(p) \/ Snapshot!StartDelete(p)
    /\ UNCHANGED <<asOf, missable, stale>>

MergeUpserts(p) ==
    /\ UNCHANGED cdcVars
    /\ Snapshot!WriteBatch(p)
    /\ missable' = IF phase = "upserted" THEN missable \cup DOMAIN batch[p] ELSE missable
    /\ stale' = IF Overtaken(p) THEN stale \cup DOMAIN batch[p] ELSE stale \ DOMAIN batch[p]
    /\ UNCHANGED asOf

(* A merge that CDC has not overtaken by its end has brought every row up *)
(* to its snapshot.                                                       *)
MergeDeletes(p) ==
    /\ UNCHANGED cdcVars
    /\ Snapshot!DeleteMissing(p)
    /\ stale' = IF Overtaken(p) THEN stale \cup (Keys \ staged[p]) ELSE {}
    /\ UNCHANGED <<asOf, missable>>

(* The stages of logical CDC that leave the target alone. *)
Aside == UNCHANGED <<mergeVars, missable, stale>>

CdcRun ==
    \/ (StartExtract \/ ReadCommit \/ ReadNothing \/ Land \/ Classify) /\ Aside
    \/ CdcUpserts \/ CdcDeletes \/ CdcPosition

CdcOther ==
    \/ (SourceCommit \/ ReadCommitTooLate) /\ Aside
    \/ CdcCrash

MergeRun(p) ==
    MergeExtracts(p) \/ MergeReads(p) \/ MergeUpserts(p) \/ MergeDeletes(p)

ReconciliationNext ==
    \/ CdcRun \/ CdcOther
    \/ \E p \in Merges : MergeRun(p)

(* Both pipelines are scheduled for ever. *)
ReconciliationSpec ==
    /\ ReconciliationInit /\ [][ReconciliationNext]_allVars
    /\ WF_allVars(CdcRun)
    /\ \A p \in Merges : WF_allVars(MergeRun(p))
-----------------------------------------------------------------------------
ReconciliationTypeOK ==
    /\ TypeOK
    /\ Snapshot!TypeOK
    /\ missable \subseteq Keys /\ stale \subseteq Keys
    /\ asOf \in [Merges -> 0..Len(wal)]

(* The row k had after some transaction past the first ones, in the source  *)
(* or in a table begun with an earlier snapshot, which is of a valid table. *)
IsRowOf(k, from) ==
    \E n \in from..Len(wal) : \E m \in 0..n :
        /\ Snapshot!IsValid(Accumulated(m, m))
        /\ curated[k] = Accumulated(m, n)[k]

(***************************************************************************)
(* Neither pipeline undoes the other, with one exception.  Every row is at *)
(* least as recent as the transactions the checkpoint and the slot have    *)
(* left behind, but for the rows a merge writes from a snapshot that CDC   *)
(* has passed since it was taken, and those of a transaction dropped at a  *)
(* deadline.  The next merge that is not itself overtaken ends that.       *)
(***************************************************************************)
OnlyOvertakenMergesLose == \A k \in Keys \ stale : IsRowOf(k, Released)

(***************************************************************************)
(* Overtaken merges, replays and dropped transactions included: every row  *)
(* is one its key had in the source, never a mix of the changes of one     *)
(* transaction nor a row only a quarantined one wrote.                     *)
(***************************************************************************)
RowsComeFromTheSource == \A k \in Keys : IsRowOf(k, 0)

(***************************************************************************)
(* Reconciliation repairs everything: once the source rests in a valid     *)
(* state the curated table becomes it and stays, whatever was overtaken,   *)
(* dropped, quarantined or committed before the slot existed.              *)
(***************************************************************************)
BecomesTheSource == <>[](Snapshot!IsValid(SourceTable) => curated = SourceTable)
=============================================================================
