------------------------------ MODULE HashDiff ------------------------------
(***************************************************************************)
(* The staged hash-diff pipeline (strategies/hash_diff): the source table  *)
(* extracted, validated and landed as one snapshot; the snapshot merged    *)
(* into the curated table batch by batch; the rows it lacks deleted at the *)
(* end.  Runs overlap: a scheduled one, a retried task, a replay of a      *)
(* stored snapshot.                                                        *)
(*                                                                         *)
(* The write calls are those of AtomicTarget.  _delete_missing_rows is, to *)
(* the database, a delete call with all the keys that are not staged in    *)
(* one chunk.  Creating the target tables is modelled in DeltaApply; the   *)
(* merge and key staging tables belong to one run and are not shared.      *)
(***************************************************************************)
EXTENDS AtomicTarget, Naturals, FiniteSets

CONSTANTS
    Runs,         \* processes that run the pipeline's stages
    Invalid,      \* a source row, or a pair with one key, against the contract
    BatchSize,    \* source_batch_size
    MaxChanges,   \* bound: changes of the source table
    MaxFaults,    \* bound: failures of a merge
    MaxReplays    \* bound: merges of a stored snapshot

ASSUME RunsAssumption == Runs # {}
ASSUME InvalidAssumption == Invalid \notin Rows \cup {Absent}
ASSUME BatchSizeAssumption == BatchSize \in Nat \ {0}
ASSUME BoundsAssumption == MaxChanges \in Nat /\ MaxFaults \in Nat /\ MaxReplays \in Nat

VARIABLES
    source,      \* the source table
    stored,      \* accepted snapshots in the object store
    phase,       \* of each run
    snapshot,    \* the accepted object a run merges
    unread,      \* keys of the merge staging table not yet read
    batch,       \* the batch read last: the rows to write
    staged,      \* keys in the key staging table
    touched,     \* keys others wrote since this merge began
    raced,       \* keys others upserted since its delete began
    changes, faults, replays

runVars == <<phase, snapshot, unread, batch, staged, touched, raced>>
limits == <<changes, faults, replays>>
vars == <<curated, hashState, source, stored, phase, snapshot, unread, batch, staged,
          touched, raced, changes, faults, replays>>

Phases == {"idle", "landed", "merging", "batch read", "deleting", "done"}
NoRows == [k \in {} |-> Absent]
Goto(p, ph) == phase' = [phase EXCEPT ![p] = ph]

(* Run p wrote the rows K: the others' merges, begun or done, were not alone. *)
Touch(p, K) ==
    touched' = [q \in Runs |->
        IF q = p \/ phase[q] \in {"idle", "landed"} THEN touched[q] ELSE touched[q] \cup K]

Init ==
    /\ TargetInit
    /\ source = [k \in Keys |-> Absent]
    /\ stored = {}
    /\ phase = [p \in Runs |-> "idle"]
    /\ snapshot = [p \in Runs |-> NoRows]
    /\ unread = [p \in Runs |-> {}]
    /\ batch = [p \in Runs |-> NoRows]
    /\ staged = [p \in Runs |-> {}]
    /\ touched = [p \in Runs |-> {}]
    /\ raced = [p \in Runs |-> {}]
    /\ changes = 0 /\ faults = 0 /\ replays = 0
-----------------------------------------------------------------------------
SourceChange ==
    /\ changes < MaxChanges
    /\ changes' = changes + 1
    /\ \E k \in Keys, r \in Rows \cup {Invalid, Absent} :
        r # source[k] /\ source' = [source EXCEPT ![k] = r]
    /\ UNCHANGED <<targetVars, stored, runVars, faults, replays>>

(* Mutant: a snapshot with invalid rows is landed all the same. *)
AnyTable(table) == table = table

IsValid(table) == \A k \in Keys : table[k] # Invalid
RowsOf(table) == [k \in {j \in Keys : table[j] # Absent} |-> table[k]]

(* extract_validate_land_snapshot: one SELECT is one snapshot, and only one *)
(* without an invalid row is uploaded and given to the merge.               *)
ExtractAndLand(p) ==
    /\ phase[p] \in {"idle", "done"}
    /\ IsValid(source)
    /\ snapshot' = [snapshot EXCEPT ![p] = RowsOf(source)]
    /\ stored' = stored \cup {RowsOf(source)}
    /\ touched' = [touched EXCEPT ![p] = {}]
    /\ Goto(p, "landed")
    /\ UNCHANGED <<targetVars, source, unread, batch, staged, raced, limits>>

(* A replay merges a snapshot that was stored before. *)
Replay(p) ==
    /\ phase[p] \in {"idle", "done"}
    /\ replays < MaxReplays
    /\ replays' = replays + 1
    /\ \E rows \in stored : snapshot' = [snapshot EXCEPT ![p] = rows]
    /\ touched' = [touched EXCEPT ![p] = {}]
    /\ Goto(p, "landed")
    /\ UNCHANGED <<targetVars, source, stored, unread, batch, staged, raced, changes, faults>>

(* Mutant: the target is emptied before the snapshot is written. *)
TruncateAndMerge(p) ==
    /\ phase[p] = "landed"
    /\ Goto(p, "merging")
    /\ Delete(Keys, Keys)
    /\ unread' = [unread EXCEPT ![p] = DOMAIN snapshot[p]]
    /\ staged' = [staged EXCEPT ![p] = {}]
    /\ batch' = [batch EXCEPT ![p] = NoRows]
    /\ UNCHANGED <<source, stored, snapshot, touched, raced, limits>>

(* merge_accepted_snapshot_to_curated loads the merge staging table and *)
(* starts run_hash_diff on it, with an empty key staging table.         *)
StartMerge(p) ==
    /\ phase[p] = "landed"
    /\ Goto(p, "merging")
    /\ unread' = [unread EXCEPT ![p] = DOMAIN snapshot[p]]
    /\ staged' = [staged EXCEPT ![p] = {}]
    /\ batch' = [batch EXCEPT ![p] = NoRows]
    /\ UNCHANGED <<targetVars, source, stored, snapshot, touched, raced, limits>>

(* fetchmany: full batches, then what is left. *)
NextBatches(S) ==
    {c \in SUBSET S : c # {} /\ Cardinality(c) <= BatchSize
                      /\ (Cardinality(c) = BatchSize \/ c = S)}

(* Mutant: rows with another hash than the recorded one are not updates. *)
NotYetRecorded(rows, c) == {k \in c : k \in DOMAIN rows /\ hashState[k] = Absent}

(* classify_changes: of the batch, what is not recorded with its hash. *)
Unrecorded(rows, c) == {k \in c : hashState[k] # RowHash[rows[k]]}

(* Mutant: only the keys of changed rows are staged. *)
StageChangedOnly(p) ==
    /\ phase[p] = "merging"
    /\ unread[p] # {}
    /\ \E c \in NextBatches(unread[p]) :
        /\ unread' = [unread EXCEPT ![p] = @ \ c]
        /\ staged' = [staged EXCEPT ![p] = @ \cup Unrecorded(snapshot[p], c)]
        /\ batch' = [batch EXCEPT ![p] =
                [k \in Unrecorded(snapshot[p], c) |-> snapshot[p][k]]]
    /\ Goto(p, "batch read")
    /\ UNCHANGED <<targetVars, source, stored, snapshot, touched, raced, limits>>

(* The next batch: its keys staged, its recorded hashes read. *)
ReadBatch(p) ==
    /\ phase[p] = "merging"
    /\ unread[p] # {}
    /\ \E c \in NextBatches(unread[p]) :
        /\ unread' = [unread EXCEPT ![p] = @ \ c]
        /\ staged' = [staged EXCEPT ![p] = @ \cup c]
        /\ batch' = [batch EXCEPT ![p] =
                [k \in Unrecorded(snapshot[p], c) |-> snapshot[p][k]]]
    /\ Goto(p, "batch read")
    /\ UNCHANGED <<targetVars, source, stored, snapshot, touched, raced, limits>>

(* _upsert_changed_rows; with no changed row it opens no transaction. *)
WriteBatch(p) ==
    /\ phase[p] = "batch read"
    /\ Upsert(batch[p])
    /\ Touch(p, DOMAIN batch[p])
    /\ raced' = [q \in Runs |->
            IF phase[q] = "deleting" THEN raced[q] \cup DOMAIN batch[p] ELSE raced[q]]
    /\ batch' = [batch EXCEPT ![p] = NoRows]
    /\ Goto(p, "merging")
    /\ UNCHANGED <<source, stored, snapshot, unread, staged, limits>>

StartDelete(p) ==
    /\ phase[p] = "merging"
    /\ unread[p] = {}
    /\ Goto(p, "deleting")
    /\ raced' = [raced EXCEPT ![p] = {}]
    /\ UNCHANGED <<targetVars, source, stored, snapshot, unread, batch, staged, touched, limits>>

(* Mutant: with no key staged the delete is skipped. *)
SkipDeleteOfNothingStaged(p) ==
    /\ phase[p] = "deleting"
    /\ LET K == IF staged[p] = {} THEN {} ELSE Keys \ staged[p]
       IN  Delete(K, K) /\ Touch(p, K)
    /\ Goto(p, "done")
    /\ staged' = [staged EXCEPT ![p] = {}]
    /\ raced' = [raced EXCEPT ![p] = {}]
    /\ UNCHANGED <<source, stored, snapshot, unread, batch, limits>>

(* _delete_missing_rows: rows others upserted after its first statement *)
(* began may be missed, by that statement or by both.                   *)
DeleteMissing(p) ==
    /\ phase[p] = "deleting"
    /\ LET K == Keys \ staged[p]
       IN  \E missed \in SUBSET (K \cap raced[p]) : \E kept \in SUBSET missed :
              /\ Delete(K \ missed, K \ kept)
              /\ Touch(p, K \ missed)
    /\ Goto(p, "done")
    /\ staged' = [staged EXCEPT ![p] = {}]
    /\ raced' = [raced EXCEPT ![p] = {}]
    /\ UNCHANGED <<source, stored, snapshot, unread, batch, limits>>

(* Anything raises, or the process dies: the batches written so far stay, *)
(* and the merge task is run again on the same object.                    *)
MergeFails(p) ==
    /\ phase[p] \in {"merging", "batch read", "deleting"}
    /\ faults < MaxFaults
    /\ faults' = faults + 1
    /\ Goto(p, "landed")
    /\ unread' = [unread EXCEPT ![p] = {}]
    /\ batch' = [batch EXCEPT ![p] = NoRows]
    /\ staged' = [staged EXCEPT ![p] = {}]
    /\ touched' = [touched EXCEPT ![p] = {}]
    /\ raced' = [raced EXCEPT ![p] = {}]
    /\ UNCHANGED <<targetVars, source, stored, snapshot, changes, replays>>

Step(p) ==
    \/ ExtractAndLand(p) \/ StartMerge(p) \/ ReadBatch(p) \/ WriteBatch(p)
    \/ StartDelete(p) \/ DeleteMissing(p)

Next ==
    \/ SourceChange
    \/ \E p \in Runs : Step(p) \/ Replay(p) \/ MergeFails(p)

Spec == Init /\ [][Next]_vars

(* The scheduler starts run after run, and retries a failed merge. *)
FairSpec == Spec /\ \A p \in Runs : WF_vars(Step(p))
-----------------------------------------------------------------------------
TypeOK ==
    /\ TargetTypeOK
    /\ source \in [Keys -> Rows \cup {Invalid, Absent}]
    /\ stored \subseteq Batches
    /\ phase \in [Runs -> Phases]
    /\ snapshot \in [Runs -> Batches] /\ batch \in [Runs -> Batches]
    /\ unread \in [Runs -> SUBSET Keys] /\ staged \in [Runs -> SUBSET Keys]
    /\ touched \in [Runs -> SUBSET Keys] /\ raced \in [Runs -> SUBSET Keys]
    /\ changes \in 0..MaxChanges /\ faults \in 0..MaxFaults /\ replays \in 0..MaxReplays

(* What a merge leaves under key k. *)
Merged(p, k) == IF k \in DOMAIN snapshot[p] THEN snapshot[p][k] ELSE Absent

(***************************************************************************)
(* A finished merge left the snapshot, exactly, wherever nobody else wrote *)
(* meanwhile: batches, hashes that let rows be skipped, an earlier attempt *)
(* that failed half-way and the delete of what was not staged add up to it.*)
(***************************************************************************)
MergeIsExact ==
    \A p \in Runs : phase[p] = "done" =>
        \A k \in Keys \ touched[p] : curated[k] = Merged(p, k)

(***************************************************************************)
(* When all runs have finished, every key is as one of them left it, in    *)
(* whatever order their batches and deletes came (a replay of an old       *)
(* snapshot included).                                                     *)
(***************************************************************************)
NoKeyFromNowhere ==
    (\A p \in Runs : phase[p] = "done") =>
        \A k \in Keys : \E p \in Runs : curated[k] = Merged(p, k)

(***************************************************************************)
(* A row is never missing to readers while it is in every snapshot being   *)
(* merged: rows are overwritten in place and only missing ones deleted.    *)
(***************************************************************************)
RowsNeverFlicker ==
    [][\A k \in Keys :
        (curated[k] # Absent /\ curated'[k] = Absent) =>
            \E p \in Runs : phase[p] # "idle" /\ k \notin DOMAIN snapshot[p]]_vars

(***************************************************************************)
(* Reconciliation: once the source rests in a valid state, the curated     *)
(* table becomes it and stays, whatever overlapping runs, failures and     *)
(* replays have left before.                                               *)
(***************************************************************************)
Reconciles == <>[](IsValid(source) => \A k \in Keys : curated[k] = source[k])
=============================================================================
