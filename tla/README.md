# A verification project for ingestion_core

TLA+ models, TLC runs and TLAPS proofs about `ingestion_core`, a Python package
that copies tables from source PostgreSQL databases into curated PostgreSQL
tables under data contracts. Line references are to files under
`src/ingestion_core/`; `PROJECT.json` maps every definition to its lines.

Contents: 1 the system, 2 the modules, 3 the abstract target and its
refinement, 4 what each run checks, 5 bounds, 6 fairness, 7 what is proved,
8 findings, 9 what is not modelled, 10 plan, 11 how to run it.

## 1. The system

### Components

| Component | State it keeps | Operations | What makes it correct |
|---|---|---|---|
| Curated target (`strategies/common/target.py`, `change_detection.py`) | the curated table; the hash-state table `_hd_state_<table>` | `upsert_changed_rows`, `delete_rows_by_keys`, `ensure_*_table`, `classify_changes`, `read_existing_hashes_for_keys` | a recorded hash is the hash of the row stored; upserts do not deadlock; a write call is atomic on both tables |
| Delta apply (`strategies/common/delta_apply.py`) | one staging table per call | `apply_delta_artifact_to_curated` | the last event of each key wins; a moved row is never missing; staging tables are private and go away; every artifact is applied in the end |
| Logical CDC and hash diff on one table | the curated table, the hash-state table, the source; nothing else is shared | a snapshot merge beside a CDC run: initial load, reconciliation | neither pipeline undoes what the other has done for good |
| Hash diff (`strategies/hash_diff`) | a snapshot object, a merge staging table, a key staging table | `extract_validate_land_snapshot`, `merge_accepted_snapshot_to_curated`, `run_hash_diff` | a finished merge leaves exactly the snapshot; readers never see a kept row disappear; a quiet source is reached |
| Logical CDC (`strategies/logical_cdc/extract.py`, `apply.py`, `pipeline.py`) | the slot's flushed position; the checkpoint; delta artifacts | `extract_validate_land_wal_delta`, `apply_wal_delta_to_curated`, `resolve_checkpoint_lsn`, `ack_logical_replication_slot` | no accepted transaction is lost; transactions are whole; the checkpoint is monotonic and catches up |
| pgoutput decoder (`strategies/logical_cdc/decode.py`) | relation cache, pending changes, current xid, change index | `decode_message` for BEGIN, RELATION, INSERT, UPDATE, DELETE, COMMIT, TRUNCATE and other messages | transactions come whole, once, in order, numbered; the events rebuild the source table; only TRUNCATE stops the decoder |
| Incremental audit (`strategies/incremental_audit`) | audit table in the source; the watermark checkpoint | audit trigger, `extract_validate_land_delta`, `apply_delta_to_curated`, `checkpoint_watermark_from_payload` | what the checkpoint has passed has been applied; no stale row; the checkpoint is monotonic |
| Logical CDC setup (`logical_cdc/admin.py`) | settings on disk, publication, replica identity, slot: all in the source server | `ensure_source_logical_cdc_capture` | repeatable after any failure; a stream never meets a change without its publication; the server can always be restarted |
| Audit setup (`incremental_audit/admin.py`) | trigger objects | `ensure_source_audit_capture`, `resolve_watermark_mode` | idempotent; refuses a wrong configuration |
| Contract registry client (`contracts/registry_client.py`) | none between calls | `fetch_contract` | gives up only when it must |
| Contract runtime (`contracts/runtime.py`, `schema_validation.py`) | none | coercion, validation, artifact payload, column types | a value that is accepted arrives as it was hashed; all strategies make the same of it |
| Hashing (`utils/hashing.py`) | none | `calculate_row_hash` | equal rows have equal hashes |
| Adapters (`adapters/`) | none | object store, OIDC/STS, engines | an artifact is found under the key it was stored with |
| CLI (`cli/`) | none | setup and peek commands | input and output only |

### How they interact

An external orchestrator (an Airflow DAG of another repository) calls the stages
of one strategy in turn and keeps the checkpoint between runs:

    hash diff:          extract+land snapshot -> merge into curated
    incremental audit:  extract+land window   -> apply delta -> save watermark
    logical CDC:        extract+land window   -> apply delta -> save LSN, ack slot

A CDC run begins with `ensure_source_logical_cdc_capture`, and every strategy
with a contract from the registry. The README of the package keeps hash diff for
the initial load and for reconciliation beside the delta strategies, so that two
strategies write one table.

Every strategy ends in the same two write calls of `target.py`, and the two delta
strategies share `apply_delta_artifact_to_curated`. All of them skip a row whose
hash is recorded in the hash-state table, so all of them depend on that table
being right. Source and target interact only through the object store's
artifacts and the positions (LSN, watermark) in the checkpoint.

### What is hard

* several sessions write the same curated and hash-state rows (a scheduled task,
  a retry of it, a replay of a stored artifact);
* hashes are read in one transaction and rows written in another; upserts and
  deletes are two transactions; a merge is one transaction per batch;
* a task may raise or its process may die between any two of these steps, and
  is run again, often with a different window;
* the WAL stream is cut by two timeouts, at positions with boundary cases;
* a transaction's position (commit LSN, commit timestamp, recorded_at) and the
  moment it can be seen are different things;
* one COMMIT brings many events with one position;
* two strategies write one table and know nothing of each other's position;
* the setup changes a shared server in several transactions, and is run again by
  every run of every pipeline;
* one value reaches the contract as a driver's object, as JSON or as text.

`PROJECT.json` lists these hazards at their lines, with the properties that cover them.

## 2. The modules

| Module | Models | State and actions against the code |
|---|---|---|
| `AtomicTarget` | what `target.py` promises | `curated`, `hashState` are the committed tables; `Upsert(rows)` and `Delete(C, H)` are the two write calls, committed |
| `CuratedTarget` | `target.py` row by row | one session per caller. `BeginUpsert`/`BeginDelete`: the call sorts, chunks and opens its transaction. `UpsertRow`/`DeleteRow`: the statement writes one row, waiting for its lock, or `DoesNothing` about it: `on_conflict_do_nothing`, when `contract` has no field outside its key. `HashStatement`: the chunk's second statement. `NextChunk`, `Commit`, `Abort`. `cw`, `hw` are uncommitted writes and so the locks; the history variable `undercut` notes rows deleted under an upsert that had skipped them |
| `*Proofs` | theorems, in a module beside each model. `LogicalCdcProofs` covers `LogicalCdc` and then `Reconciliation`, which is built on it; `SetupAndContractProofs` covers `CaptureSetup`, `ContractRegistry` and `ContractValue` | see section 7 |
| `DeltaApply` | `apply_delta_artifact_to_curated` by several processes | `CreateFresh`, `CreateCollides`, `Reflect`, `Load`, `LookForTables`, `CreateTable`, `SelectEffectiveRows`, `Classify`, `WriteUpserts`, `WriteDeletes`, `DropStaging`: the function's steps in its order. `Fail` is an exception in the inner `try`; `Leak` one that no drop follows, of `reflect_table` before that `try` or of the drop itself; `Kill` the end of the process without any `finally`; `Retry`, `Replay` the orchestrator |
| `LogicalCdc` | one pipeline from WAL to checkpoint | `SourceCommit`, `OtherWal`: the source. `StartExtract` fixes the window. `ReadCommit`, `ReadCommitTooLate`, `ReadNothing`, `ReadTimeout`: one round of the read loop, with `_refresh_stream_progress` before the clock test before the decoding (`ReadCommitTooLate` is the deadline that passes between the two clock tests; `Spec` and `Reconciliation` have it, `OnTimeSpec` does not). `Land`, then `Classify`, `ApplyUpserts`, `ApplyDeletes`: the three transactions of an apply. `SaveCheckpoint`, `AckSlot`, `Crash` |
| `Reconciliation` | `LogicalCdc` and `HashDiff` composed: they share the source, the curated and the hash-state table | `Cdc*` and `Merge*` are the actions of the two modules; `missable` are the rows a delete of CDC may miss because a merge inserts them meanwhile; `asOf` and `stale` note which merges CDC has overtaken and which rows may be old for it |
| `TransactionStream` | what the extract relies on: transactions delivered whole, once, in commit order | `Write`, `Commit`: the source; `Deliver`: the events of the next transaction |
| `PgOutputDecode` | `PgOutputDecoder`, and `_normalize_source_event` on what it returns | `SourceChange`, `SourceCommit`, `AlterTable`: the server's side. `DecodeBegin`, `DecodeRelation`, `DecodeChange`, `DecodeOther`, `DecodeCommit`: one message each. `Raise`, `Disconnect`: a session ends and a new decoder starts. `Stream` is its refinement mapping to `TransactionStream` |
| `HashDiff` | the snapshot strategy, runs overlapping | `ExtractAndLand`, `Replay`, `StartMerge`, `ReadBatch`, `WriteBatch`, `StartDelete`, `DeleteMissing`, `MergeFails` |
| `IncrementalAudit` | the audit strategy | `SourceWrite` (row and trigger), `SourceStamp` and `SourceCommit` (the timestamp is taken before the commit is visible), `SelectWindowEnd`, `ReadWindowAndLand`, `ApplyUpserts`, `ApplyDeletes`, `SaveCheckpoint`, `Crash` |
| `CaptureSetup` | `ensure_source_logical_cdc_capture` by several pipelines on one server | `CheckSettings`, `AlterSystem` (one setting at a time), `LookForPublication` and `Publish` (the two ends of the setup transaction), `EnsureSlot`, `Return`, `Raise`: the call in its order. `Fail`: any statement or the process. `SourceCommit`, `RestartAsTold`, `RestartAnyhow`: the server |
| `ContractRegistry` | `ContractRegistryClient` | `Retry`, `GiveUp`, `NeverAsk`, `Receive`: one attempt each; `clock` is the sum of the pauses, against which a token ages |
| `ContractValue` | one field of a contract, once that is fetched, through each of the strategies | `Land`, `Quarantine`, `StopExtract`: `normalize_contract_row` (or `_key_row` for a delete) and the payload; `Load`: the artifact's value coerced again and sent to its column. A value is a Python class, what it denotes and, for a `str`, the kind of literal |
| `MC*` | small instances for TLC | values for the constants, menus of source transactions |

Operators marked "Mutant" in the modules are plausible wrong versions of the
definition that follows. They are used by nothing; each shows that some property
notices the bug it describes.

`AtomicTarget` is EXTENDED by all pipeline modules: their apply stages are its
`Upsert` and `Delete`. `WriteDeletes` and `DeleteMissing` use the asymmetric
`Delete(C, H)`, as `Reconciliation` does for the deletes of CDC: a row another session upserts after the delete statement on the
curated table has begun may be missed by that statement and not by the one on
the hash-state table, in which case the row stays and its hash goes. That is why
the abstract `Delete` demands `C \subseteq H` and not equality.

What is abstracted: row payloads are model values, a row hash is `RowHash[row]`,
a contract violation is the value `Invalid`, an artifact is the set of its events,
an LSN is a number and a commit record is one position long.

## 3. The abstract target and its refinement

`AtomicTarget!TargetSpec` says: both tables change together, by one upsert of
rows with their hashes or one delete. `CuratedTarget` runs the same calls as
single-row steps of concurrent READ COMMITTED transactions. The refinement mapping
is the identity on `curated` and `hashState`: uncommitted writes are invisible, a
`Commit` step is one abstract `Upsert` or `Delete`, and every other step stutters.
What makes it true is the lock a transaction has on each row it wrote, and that
curated comes before hash state in every chunk.

It is true of contracts that have a field outside their key. When every field is a
key field, `target.py:113-116` leaves a row that is there alone and does not lock it,
and another session may delete it before the hash is recorded: that commit publishes
a hash without its row, which is neither an `Upsert` nor a `Delete`. The general
statement is therefore `AtomicButUndercut`: what a step commits is one write call at
every key that is not `undercut`, and only a key-only contract ever has such keys.
The run `curated_target` checks it for both kinds of contract,
`SpecAtomicButUndercut` proves it, and `SpecRefinesAtomicTarget` derives
`Spec /\ ~KeyOnly => TargetSpec`. It is the reason the pipeline modules may use the
two atomic operations. What they show is so shown of contracts with a field outside
the key, and of key-only ones as long as no delete overlaps an upsert of its key.

There is a second abstract specification, `TransactionStream`. `LogicalCdc` reads
whole transactions; `PgOutputDecode` reads messages. `DeliversWholeTransactions`
says that the second implements what the first assumes: the mapping takes the
transaction the source is building to `open`, the one being sent to `queue`, and
`events` to `delivered`; a message, a relation, a lost session are stutters, and
only the COMMIT is a `Deliver`. A TRUNCATE is never delivered, nor what follows.

One thing does not follow from the refinement and is put into the pipeline
modules by hand: which keys a delete may miss (`raced`). `DeleteMissing` also
stands for a statement of `engine.py`, not of `target.py`: to the database it is a
delete call with one chunk.

## 4. What each run checks

| Run | Properties | What it shows |
|---|---|---|
| `curated_target` | `TypeOK`, `OnlyUndercutUnsound`, `UpsertsNeverDeadlock`, `AtomicButUndercut` | two sessions with different batch sizes, upserts and deletes, aborts at any statement, a contract of either kind: no interleaving records a hash that is not the row's but where a key-only upsert is undercut, the committed tables change as the abstract target's everywhere else, and upserts that update what they find never wait in a circle. Deletes take locks in any order and may deadlock with an upsert, which PostgreSQL ends with an abort |
| `delta_apply` | `TypeOK`, `AppliedRowIsSomeArtifacts`, `StagingPrivate`, `StagingShortLived`, `MovedRowNeverMissing`, `EveryArtifactApplied` | two artifacts for the same keys, one of which moves a row, applied at once to tables that do not exist yet; two faults, inside the inner `try`, outside it or fatal, and a replay |
| `logical_cdc` | `TypeOK`, `NothingLost`, `CuratedIsASourceState`, `CheckpointNeverMovesBack`, `CatchesUp` | the CDC cycle with a crash between any two stages, a read cut short, a quarantined transaction, transactions on other tables, in every position relative to the window. Under `OnTimeSpec`: the deadline inside `_consume`, which breaks `NothingLost`, is in the next two runs |
| `logical_cdc_window_end` | `WindowEndMeansCaughtUp` | a violation: see section 8 |
| `reconciliation` | `OnlyOvertakenMergesLose`, `RowsComeFromTheSource`, `BecomesTheSource` | a merge in any position relative to a CDC run, on a table whose first row is in no WAL, with a crash, a quarantined transaction and the deadline inside `_consume`: what a merge may undo, that nothing else is ever lost, and that the table becomes the source |
| `pgoutput` | `TypeOK`, `OnlyToastedValuesDiffer`, `OnlyTruncateRaises`, `DeliversWholeTransactions` | streams with two published tables, key changes, a value stored out of line, ALTER TABLE, unknown messages, TRUNCATE, and a reconnection at any message: whole transactions are delivered, and only out-of-line values are ever wrong, and always null |
| `pgoutput_toast_finding` | `ReplicaIsSource` | a violation: see section 8 |
| `hash_diff` | `TypeOK`, `MergeIsExact`, `NoKeyFromNowhere`, `RowsNeverFlicker`, `Reconciles` | two overlapping runs in batches of one, a failure after any batch, a replay of an old snapshot, an invalid source state |
| `incremental_audit` | `TypeOK`, `OnlyOvertakenSkipped`, `NoStaleRow`, `CheckpointNeverMovesBack`, `CatchesUp` | two transactions interleaved in both watermark modes, with inserts, changes, deletes, invalid rows and moves of a row; what is skipped was overtaken |
| `incremental_audit_late_commit` | `NothingSkipped` | a violation: see section 8 |
| `capture_setup` | `StreamNeverBreaks`, `ReadyMissesNothing`, `ServerStartsAgain`, `EverySetupGetsThrough` | two pipelines with one table or two and one publication set up at once, on servers that lack some, all or none of the settings, with `create_slot_if_missing` and without, with two failures or unasked restarts at any step |
| `contracts` | `RaisesOnlyWhenItMust`, `AcceptedIsLoadedAsHashed`, `StrategiesAgree` | a fetch with none, one or three attempts and both kinds of token; then a value of each of twelve column types under every property schema that describes it, read by three strategies and as the key of two kinds of delete |

Some properties in words:

* `OnlyUndercutUnsound`: a recorded hash is the hash of the curated row, but for a row
  that was deleted under a key-only upsert and that no upsert has stored since. A
  missing hash is harmless (the row is written once more); a wrong one hides a change
  for ever. Without the exception it is `HashStateSound`, which the pipeline modules
  have and `SpecHashStateSound` proves of contracts with a field outside the key.
* `AppliedRowIsSomeArtifacts`: when all applies that touch a key are finished, the
  key is as the last event of one of the artifacts says. Order between artifacts is
  not promised by the code, and an older one applied last wins.
* `MovedRowNeverMissing`: an UPDATE of the key is an upsert under the new key and a
  delete under the old; the upsert commits first, so no reader finds neither.
* `NothingLost`: each row is at least as recent as everything the checkpoint and
  the slot's position together release. It is stated per key because a crash
  between the two write transactions may show two moments at once.
* `CuratedIsASourceState`: without a crash the table as a whole is the source after
  some transaction, quarantined ones left out. Its exception is real: a crash after
  the upserts, followed by a shorter window, shows a newer row beside older ones.
* `StagingShortLived`: a staging table no apply is using was left by a killed process
  or by an exception no drop follows, one each. A failure of the artifact, the store
  or the target tables leaves none.
* `MergeIsExact`: at the end of a merge the keys nobody else wrote are the snapshot's.
* `RowsNeverFlicker`: a row can only disappear if some run's snapshot lacks it.
* `OnlyOvertakenMergesLose`: a merge works from a snapshot. If CDC applies a
  transaction after that snapshot was taken, and the merge writes afterwards, the
  older row wins and its hash is recorded: CDC will not apply the newer one again.
  Apart from those rows (`stale`), and those of a transaction dropped at a deadline,
  every row is as recent as what the checkpoint and the slot have released.
* `BecomesTheSource`: the merges repair all of that, the first row included, which
  no WAL ever brings.
* `DeliversWholeTransactions`: see section 3.
* `StreamNeverBreaks`: pgoutput fails at every attempt on a change made while the
  publication did not exist, so no slot this code created may ever meet one. It
  holds because the slot comes last and a replacement is one transaction.
* `ReadyMissesNothing`: after a setup has returned, every later change of its table
  is sent, with its old key. Other pipelines can take that away by their arguments
  only, and the property names the two. A slot that was there before, made by hand, may
  already have met a change without its publication, and then sends nothing.
* `EverySetupGetsThrough`: of each pipeline that is `Mendable`. What no retry mends is
  named there: settings nobody may write, too few slots, a slot of another plugin, and
  a missing slot with `create_slot_if_missing=False`.
* `ServerStartsAgain`: `wal_level` is written before `max_wal_senders`. In the other
  order a setup that dies in between leaves a server that does not start.
* `RowsComeFromTheSource`: every row of the curated table is one its key had in the
  source, whatever was overtaken, dropped, quarantined or cut short by a crash.
* `StrategiesAgree`: two strategies load the same value, and one accepts what the
  other accepts, or the property names why not: numbers with more digits than a
  float, through the jsonb of the audit table, which an enum may tell apart from
  what they were; booleans and JSON, through the text of CDC.
* `OnlyOvertakenSkipped`: the one cause of a skipped event is a transaction that
  became visible after an event with a later watermark.

## 5. Bounds

* Keys: two, so that sessions can wait for each other in a circle; rows:
  two, enough for a change; hashes are distinct from rows, so that storing one for
  the other shows. A key-only contract's rows have one payload (`NoPayload`).
* `CuratedTarget`: two sessions, batch sizes 1 and 2, so that one chunks where the
  other does not, and both kinds of contract. The runs have no bound on the number of
  calls: sessions go on for ever and the state space is finite.
* `DeltaApply`: three staging names for two processes and two faults that leave a
  table, so that a fresh name exists, but a collision happens; `MaxFaults` 2 allows a kill and a
  failure of its retry; `MaxReplays` 1.
* `LogicalCdc`: `MaxLsn` 5 gives four positions for transactions or other WAL, so a
  window may end before, on and after a commit, with a second window behind it.
  `MaxCrashes` 1, `MaxTimeouts` 1. The menu has transactions of one and two
  changes with moves in both directions, a delete and re-insert, one with an
  invalid row, and one on other tables only.
* `PgOutputDecode`: two changes per transaction, two transactions, two versions of
  the columns: a session can meet a relation it knows in an older version. The two
  keys are interchangeable and a symmetry set; no liveness is checked there.
* `Reconciliation`: one merge, in batches of one, that is scheduled again and again;
  `MaxLsn` 4, of which the first transaction is committed before the slot exists. A
  replay of an old snapshot is to CDC a merge that took long, so replays and failing
  merges are left to `hash_diff`.
* `CaptureSetup`: two pipelines, which is every pair that can collide; six server
  configurations, among them one with a single slot and one with a slot of another
  plugin; one pipeline with `create_slot_if_missing` or without; `MaxFaults` 2, so that
  a setup may fail and its repetition too.
* `ContractValue`: no bounds but those of the menus of types and values: an
  ordinary number, one with trailing zeros, one wider than four bytes, one longer
  than a float, not-a-number, null. No enum, one of an ordinary number, and one of a
  number that a long one is rounded to, which is what `json.loads` makes of a
  contract's long number too. `ContractRegistry`: -1, 0 and 2 retries, a token
  that lives two units of time and pauses of one and two.
* `HashDiff`: `BatchSize` 1 with two keys gives two batches; two changes of the
  source give three snapshots; one failure and one replay.
* `IncrementalAudit`: three events in two transactions, enough for an event between
  two others' watermarks; one crash.

Deadlock is checked wherever the system runs for ever. It is not in `delta_apply`
(all artifacts are applied and the replays used up), `hash_diff` (a source that rests
in an invalid state has no run to make), `contracts` (a value arrives and the journey is
over) and `pgoutput_toast_finding` (which stops at its violation).

## 6. Fairness

* `DeltaApply`: weak fairness of each process's steps and of its retry: a task goes
  on running and the orchestrator runs a failed one again. Strong fairness of
  `CreateFresh`: the name has ten random hex digits, and drawing a taken one for ever
  is not a behaviour worth allowing. None of faults, kills and replays.
* `LogicalCdc`: weak fairness of the run as a whole: runs are scheduled one after
  another, and a run that is not cut short moves on, since each of its steps is a call
  that returns. None of the source, timeouts and crashes, which are bounded: a read
  cut at every attempt can never be said to finish.
* `HashDiff`: weak fairness of the stages of the runs, of which there is always a
  next scheduled one. Reconciliation is promised for a source that rests.
* `IncrementalAudit`: weak fairness of the run, and of open source transactions
  committing.
* `Reconciliation`: weak fairness of each pipeline's run: both are scheduled for ever.
* `CaptureSetup`: weak fairness of each pipeline's setup, because every run of its DAG
  begins with it and runs are scheduled for ever; and of the restart a setup has asked
  for by its error ("Restart the source PostgreSQL instance and rerun"), which the
  operator has to make. None of failures, other restarts and source commits.
* `CuratedTarget`, `PgOutputDecode` and `ContractValue` check safety only and assume
  none.

## 7. What is proved

Eight modules prove about eleven models: every safety property of the runs that pass is
a theorem. A theorem holds for any sets of keys, rows, hashes, sessions, processes, runs,
merges, pipelines and property schemas, any menu of source transactions and any value of
the bounds; the runs of section 4 check the same formulas on one instance each.

### Assumptions

The `ASSUME`s of the modules, which say what the constants are and nothing about
what the code does with them:

* `RowHash` maps rows to hashes; the payload of a row without one, `NoPayload`, is a
  row; `Absent`, `Invalid`, `Untouched`, `Null` and the marker
  of an unchanged value are none of the things they could be confused with.
* Keys are integers in `CuratedTarget` (`build_row_key` sorts them; only the order
  matters) and finitely many sessions run. Batch sizes are positive. Artifacts and
  transactions are finite. Bounds are numbers.
* The server of `CaptureSetup` runs before the first setup, with settings PostgreSQL
  starts with.
* `MaxLsn` leaves room in the WAL for the transaction `Reconciliation` begins with
  (`FirstCommitAssumption`).
* Numbers of retries are integers, pauses and the life of a token natural numbers
  (`ContractRegistry`).
* A property schema has one of the types and formats the registry client maps, and a
  format on a string only, where alone the validation reads it (`SchemasAssumption`).
  Of its enum nothing is assumed.

Some theorems have one hypothesis more, `NoCollisions`: no two rows have one hash. The
code has it from SHA-256 and from the text that is hashed, and needs it wherever it
skips a row as unchanged; it is false of rows whose text is alike
(`utils/hashing.py:49`, a hazard listed in `PROJECT.json`). It holds in the default
configuration, where all fields are hashed. A contract with `x-hashKeys` has it fail by
configuration (`effective_hash_fields`, `contracts/types.py:30-33`): rows that differ
in other fields only have one hash, and with such a contract a theorem that needs
`NoCollisions` says something of the hashed fields alone. It is a hypothesis of the
theorems that are false without it, never of a module. `HashStateSound`, everything
about types, staging tables, positions, the checkpoints, the decoder, the setup and the
contract does without, and so does `RowsComeFromTheSource`: a collision leaves an old row
where it was, and never makes one up.

### Theorems

| Module | Theorems (all `Spec => ...`) | Needs `NoCollisions` |
|---|---|---|
| `AtomicTargetProofs` | `TargetHashStateSound`: the abstract write calls keep every recorded hash sound | |
| `CuratedTargetProofs` | `SpecTypeOK`, `SpecOnlyUndercutUnsound`, `SpecUpsertsNeverDeadlock`, `SpecWaitsAscend`, `SpecAtomicButUndercut`; of `Spec /\ ~KeyOnly`: `SpecHashStateSound`, `SpecRefinesAtomicTarget` | |
| `DeltaApplyProofs` | `SpecTypeOK`, `SpecStagingPrivate`, `SpecStagingShortLived`, `SpecHashStateSound`, `SpecMovedRowNeverMissing`, `SpecAppliedRowIsSomeArtifacts` | the last |
| `HashDiffProofs` | `SpecTypeOK`, `SpecHashStateSound`, `SpecRowsNeverFlicker`, `SpecMergeIsExact`, `SpecNoKeyFromNowhere` | the last two |
| `IncrementalAuditProofs` | `SpecTypeOK`, `SpecOnlyOvertakenSkipped`, `SpecCheckpointNeverMovesBack`, `SpecNoStaleRow` | the last |
| `LogicalCdcProofs` | `SpecTypeOK`, `SpecCheckpointNeverMovesBack`; of `OnTimeSpec`: `OnTimeSpecWindowEndMeansCaughtUp`, `OnTimeSpecNothingLost`, `OnTimeSpecCuratedIsASourceState` | the last two |
| `LogicalCdcProofs`, of `ReconciliationSpec` | `ReconciliationSpecTypeOK`, `ReconciliationSpecHashStateSound`, `ReconciliationSpecRowsComeFromTheSource`, `ReconciliationSpecFresh`, `ReconciliationSpecOnlyOvertakenMergesLose` | the last two |
| `SetupAndContractProofs` | `SpecTypeOK`, `SpecServerStartsAgain`, `SpecStreamNeverBreaks`, `SpecReadyMissesNothing` (`CaptureSetup`) | |
| `SetupAndContractProofs`, of `RegistrySpec` | `RegistrySpecRaisesOnlyWhenItMust` | |
| `SetupAndContractProofs`, of `ContractSpec` | `ContractSpecFetches`, `ContractSpecAcceptedIsLoadedAsHashed`, `ContractSpecStrategiesAgree` | |
| `PgOutputDecodeProofs` | `SpecTypeOK`, `SpecOnlyTruncateRaises`, `SpecOnlyToastedValuesDiffer`, `SpecDeliversWholeTransactions` | |

`SpecIInv` of each module, and `ReconciliationSpecIInv`, are the inductive invariants.

### The arguments

*CuratedTarget.* `OnlyUndercutUnsound` is not inductive: that a commit keeps it depends on
what the transaction has written. The invariant adds

* `LocksExclusive`: no row is written by two open transactions at once, so what a
  transaction wrote is what a commit publishes, and nobody changed the committed row
  underneath;
* `Progress`: where a session is in its chunks (what is done, what is left, what is
  still to come), so that at `Commit` everything is done;
* `UpsertWrites`: an upsert's uncommitted row is the call's row and its uncommitted
  hash the hash of that row, for the keys already visited; a key it has visited and not
  written is `Skipped`, which only a key-only contract knows;
* `OnePayload`, `SkippedRowsThere`: with a key-only contract a row that is there is the
  row of the call, and a skipped row is there and nobody is deleting it, or the key is
  `undercut`. So a commit that skipped a row stores it, as far as anybody can see;
* `UpsertOrder`: the keys still to be written are larger than those written, which
  gives `WaitsAscend`;
* `DeleteWrites`: a delete's uncommitted writes are deletions, and a key whose curated
  row it deleted has its hash deleted, or has no hash, once the chunk is done, unless
  it is `undercut`.

`Commit` is the only step that changes the committed tables. `CommitUpsert` and
`CommitDelete` say what it does to a key that is not `undercut`, which is what a write
call does to it. `UpsertsNeverDeadlock`
takes, of a set of upserts that wait for each other, the one that waits for the largest
key (`LargestExists`): whoever it waits for would wait for a larger one.

*DeltaApply.* A staging table belongs to the apply that created it (`StagingHeld`), and
what an apply has selected, classified and written derives from its own artifact
(`Derived`). `MovedRowNeverMissing` needs `RowsPresent`: from the committed upserts to
the deletes, each key of the artifact has a row or another artifact deletes it; a key
that was skipped as recorded was there, since a hash is only recorded beside a row.
`AppliedRowIsSomeArtifacts` needs `AppliedKeys`: once a key is left as some artifact's
last event for it says, every write changes it to what another one says, and an apply
that skips a key found it so.

*HashDiff.* `Scanned`: the keys a merge has staged, those it still has to read, and the
snapshot, by phase. `StagedRowsWritten`: a staged key nobody else has touched since
shows the snapshot's row; with the delete at the end it gives `MergeIsExact`.
`NoKeyFromNowhere` is not about any one run: `SomeoneLeavesIt` says that for each key
there is a run which has seen nobody else write it since it began, or whose result the
key already shows.

*IncrementalAudit.* `RunInOrder`: a run starts at the checkpoint and ends at a window's end
not before it, each the watermark of a visible event; `Landed`: the landed events are
the accepted ones of the window, but for those overtaken since, and after the apply all of
them are applied. With the total order of watermarks this makes `OnlyOvertakenSkipped`
inductive. `NoStaleRow` needs `Applied` (what the last landed event of each key has made of
it at each stage) and `NothingStale` (each row is what some accepted event, at or after all
those the checkpoint has passed, left).

*LogicalCdc.* The positions first. `WalInOrder`: commit records ascend and end before
the WAL does. `RunInOrder`: checkpoint, slot, start and window among each other and against
the first transaction the run may read. `Decoded`: `lastDecoded` is the end of a
transaction the run has read, or none. They give
`CheckpointNeverMovesBack` under `Spec`, where the deadline may pass anywhere. Under
`OnTimeSpec`, `CaughtUp`: a window counted as reached has been decoded to its end.
The theorem from it is the property that finding 1 refutes under `Spec`: the deadline between
the two clock tests is the only way.
The rows come last, and rest on one lemma, `EffectiveRowsAre`: for each key, the last event
of an artifact says what replaying its transactions on any table would. So the source
after transaction n is the table before the window with the artifact applied, and each
stage of an apply is described by `Upserted`, `Applied` and, without a crash, `Uncrashed`.

*Reconciliation.* Its position, window and reading are those of CDC alone, so `IInv` of
`LogicalCdc` is kept by every step of a merge, and the invariant adds what each merge has
read, staged and still has to write (`MergesInv`), that `missable` is empty outside an
apply, and `RowsComeFromTheSource` itself. The last is inductive once the source is known:
a table begun with the snapshot of m transactions and carried on to the nth is
`Accumulated(m, n)`, and since a snapshot is only merged when it is valid, each row either
strategy writes is of such a table. No two pipelines have to agree for that, and no hash.

*How recent a row is* takes the second invariant, `FreshInv`, which is about the keys
outside `stale` and about the keys a merge has dealt with. `Had(k, row, n)` says that k had
that row in the source at or after transaction n. A key is `Fresh` if its row is past what
checkpoint and slot have released, and past what the run of CDC has read but where the run
is still `Behind`: rows it has to write, and after the upserts those it has to delete, but
for those a merge may have put there since, which the delete may miss. `DoneFresh` says that
a merge CDC has not overtaken keeps what it has done with as recent as its own snapshot or
as what CDC has passed, whichever is less. Each needs the other: the end of a merge empties
`stale`, and is right to because of `DoneFresh`; a row that either strategy skips by its
recorded hash is, without collisions, the row it would have written. The steps that move
no position are one lemma (`FreshFrame`), applied to the keys a step makes fresh
and the keys it leaves as they were. What remains are the position itself, where a row of a
transaction dropped at the deadline becomes stale, and the overtaken merges.
`ReconciliationSpecOnlyOvertakenMergesLose` reads the property off.

*CaptureSetup.* `SettingsInOrder`: `wal_level` on disk before what needs it. `PublishedFirst`:
a pipeline past its publication's transaction, and any slot this code made, has the
publication committed; a replacement is one transaction, so it never goes. `Arranged`:
what a setup has arranged is still so, or another pipeline's arguments took it.

*ContractRegistry.* `AsksAgain`: the attempt under way is the first, or one that
`max_retries` allows after a failure that may pass. That only a token's age makes the
registry refuse it, and only an `access_token` has any, is `OnlyAgeIsRefused`.
`ContractSpecFetches` carries all this over to `ContractSpec`.

*ContractValue.* `Travelled` says of each journey that what it has landed, hashed and loaded
is what coercion makes of its reading. The rest is about operators. `RoundTrip`: a coerced
value written to the artifact and coerced again is of the same class and denotes the same;
with the widths of integers that is `AcceptedIsLoadedAsHashed`. `ReadAlike`: column by
column, two readings are coerced to the same but for the digits of a number
(`Alike`), unless one of the two loses digits or sees text and the other does not;
`AcceptedAlike` says that validation does not tell `Alike` values apart, because an enum is
compared with normalized numbers. `TextAccepted` is the one case where CDC's text is
accepted: a JSON value whose field has no type.

*PgOutputDecode.* `Decoded`: the pending changes are, one by one and numbered from zero,
the changes of `source_table` among the messages read. `Replays`: there is a history of
tables from before the transaction to `source`, and the replica with the pending changes
applied differs from the table after the messages read by nulls for out-of-line values
alone. `SameRelations`: the server has described exactly what the decoder knows. The
refinement of `TransactionStream` takes `SourceChange` to `Write` or a stutter,
`SourceCommit` to `Commit`, `DecodeCommit` to `Deliver`, all else to stutters.

### Recursive functions

What a recursive function yields for every input is an induction over data. The induction
theorems of the library take an operator as a parameter, which the provers cannot
instantiate, so the induction is said of sets: the least number for which a
fact fails would follow one for which it holds (`NatSetInduction`, `LeastNumber`, from the
library's well-founded sets). `RecursionExists` and `RuleMakesFunction` give the function
that a rule of steps describes, and with them `Replica`, `AfterChanges` (`LogicalCdc`),
`OwnChanges` and `ApplyAll` (`PgOutputDecode`) can be unfolded one step at a time, which is
all the proofs need.

### Model-checked only

* Liveness (`EveryArtifactApplied`, `CatchesUp`, `BecomesTheSource`, `Reconciles`,
  `EverySetupGetsThrough`): fairness and ENABLED are outside the proof system.
* That the bounds of section 5 let every case happen: a theorem needs no bound, but that
  each action can fire, and that each property can be broken by a wrong definition, is
  what the runs and the mutants show.

## 8. Findings

1. *Logical CDC, a deadline inside `_consume` skips a transaction*
   (`strategies/logical_cdc/extract.py:357-361`). `_refresh_stream_progress` sets
   `reached_window_end` from the position of the message just received, then the
   deadline is tested and the message dropped. If nothing had been decoded before,
   `resolve_checkpoint_lsn` answers `window_end_lsn`, past the dropped COMMIT, and the
   slot is acknowledged there. `tests/test_logical_cdc.py:328` names the rule that is
   broken: the checkpoint "advances to window end after stream catches up". Run
   `logical_cdc_window_end`. Needs the deadline to pass between line 389 and line 360;
   without that the rule is a theorem (`OnTimeSpecWindowEndMeansCaughtUp`).
2. *TOAST* (`strategies/logical_cdc/decode.py:218`). The marker of an unchanged value
   is decoded as `None`, so an UPDATE of another column writes NULL over the curated
   value. The README lists the strategy's limits without this one. Run
   `pgoutput_toast_finding`; `pgoutput` shows that nothing else goes wrong.
3. *Incremental audit, late commits* (`strategies/incremental_audit/sql.py:42`,
   `extract.py:316`). An event recorded before the window's end whose transaction
   commits after the window was read is never extracted. The README offers
   `recorded_at` as a fallback without that limit. Run
   `incremental_audit_late_commit`; `incremental_audit` shows that it is the only way
   to lose an event, in `commit_timestamp` mode too, where the interval is only the
   one between a commit's timestamp and its visibility. The snapshot strategy, which
   the README keeps for reconciliation, repairs it (`Reconciles`).

More things the models show, stated as the exceptions of a property and not
as findings, because no document of the repository promises otherwise:

* *Contracts whose fields are all key fields* (`OnlyUndercutUnsound`,
  `strategies/common/target.py:113-116`). `on_conflict_do_nothing` leaves a row that is
  there unlocked. If another session deletes it and commits before the hash statement,
  the upsert records a hash for a row that is gone: `classify_changes` skips the row from
  then on, and only its deletion, or a hash-diff merge that finds it unstaged, clears the
  hash. Two such upserts with different batch sizes may also deadlock: one skips
  row 1, records its hash and waits for row 2; the other, which inserted row 2 in the
  same chunk, waits for the hash of row 1 (`UpsertsNeverDeadlock` excludes them).
* *Staging tables left by exceptions* (`StagingShortLived`). `CREATE TABLE` is committed
  before `reflect_table` (`strategies/common/delta_apply.py:122-123`), which is before
  the `try` whose `finally` drops it, and that drop may raise too (333). Nothing else
  ever drops these tables.
* *A merge can undo CDC* (`OnlyOvertakenMergesLose`, `stale`). A snapshot taken before
  a change and merged after CDC has applied it brings the old row back until the next
  merge. Pausing CDC from the extract to the end of a merge avoids it.
* *Integers wider than four bytes* (`AcceptedIsLoadedAsHashed`). A contract integer
  goes with an `int8` source column, any width is accepted, and the curated column is
  `Integer()` (`contracts/runtime.py:199`): every attempt to load the artifact fails.
* *Forms of a value* (`StrategiesAgree`). CDC sends booleans as `t` and `f` and JSON as
  text, which `coerce_contract_value` refuses (`runtime.py:113-119,145-148`), so
  such rows are quarantined; a jsonb field without a contract type is loaded as a JSON
  string. The audit table's jsonb turns a long number into a float, in the key of a
  delete too, which then finds no row. The contract's own numbers are read as floats as
  well, so that an enum of long numbers accepts the audit's reading and quarantines the
  snapshot's.

And two about property schemas. A type given as a list, as in `["string", "null"]`,
is handled by `registry_client.py:107-110` and `runtime.py:463-468`, but
`schema_validation.py:162` asks whether the list is in a set, which raises a
`TypeError` nothing catches: the extract of such a contract stops at its first row
(`StopExtract`). A type given as a plain string refuses NULL (`_matches_type`), also
for a field that is not required, whose curated column is nullable
(`runtime.py:175-176`). Together: a NULL is landed only for a field without a type.

## 9. What is not modelled

* Setup of the audit trigger (`incremental_audit/admin.py`): one transaction of DDL that
  may be repeated. The watermark mode it resolves is fixed in a behaviour of
  `IncrementalAudit`.
* Inside the contract modules: the keywords of a JSON schema that look inside a
  string, an array, an object or a numeric range, each a pure test of one value;
  contract types that name SQL types; bytea. The other modules need one bit of a
  contract per row, `Invalid` or not.
* `x-hashKeys`. A change of a field that is not hashed is never written, by any of the
  strategies: a merge is exact, and a delta applied, up to the hashed fields. The models
  hash whole rows; section 7 says what becomes of `NoCollisions`.
* Key-only contracts in the pipeline modules, where a delete overlaps an upsert:
  section 3.
* The fallback of `commit_timestamp` mode to `recorded_at` for transactions whose commit
  timestamp the server does not have (`incremental_audit/sql.py:40`, for example those before
  `track_commit_timestamp` was set): `IncrementalAudit` orders by one of the two
  throughout.
* A contract that changes between the landing of an artifact and its apply: the
  manifest's `contract_version` is never compared. Which versions may follow each
  other is the registry's rule, of which this repository says nothing.
* The text of hashes, names and object keys: an unescaped separator
  (`utils/hashing.py:49`), names cut to 63 characters, key prefixes. These are
  properties of strings put together character by character, for a unit test.
* Object store, credentials, engines, CLI: calls that return or raise. An artifact is
  stored whole or the stage fails.
* `run_hash_diff` straight from the source database: the same loop on rows that may
  change while they are read in one cursor.
* Two logical CDC or audit runs at once: the orchestrator has one checkpoint per
  pipeline and runs it alone. Overlapping applies are in `DeltaApply`, a merge
  beside CDC in `Reconciliation`.
* A transaction longer than `max_extract_seconds`, and a TRUNCATE in the stream, stop
  the CDC checkpoint for ever. The first is excluded by `MaxTimeouts`; the second is
  in `PgOutputDecode`, where safety alone is checked.

## 10. Plan

Done, in this order: `AtomicTarget` and `CuratedTarget`, whose promise everything
else uses; its proofs; `DeltaApply`; `LogicalCdc`; `PgOutputDecode`; `HashDiff`;
`IncrementalAudit`; `Reconciliation`, the first two strategies on one table;
`TransactionStream`, the seam between decoder and pipeline; `CaptureSetup`;
`ContractRegistry` and `ContractValue`.

Then the proofs, in the order of section 7; with those about `Reconciliation`,
`ContractRegistry` and `ContractValue` no safety property of a passing run is left.

What could come next is what section 9 leaves out and a model checker reaches: the audit
strategy on a table that a merge reconciles, which may skip late events as CDC does its
dropped ones, and a contract that changes between the landing of an artifact and its apply.

## 11. Running it

In this directory: `tlc -config MCCuratedTarget.cfg MCCuratedTarget` and likewise for
each row of section 4 (the configuration's name is in `PROJECT.json`), and
`tlapm CuratedTargetProofs.tla` and likewise for each module of section 7. The longest
runs are `reconciliation` (two to three minutes), `logical_cdc` and `capture_setup` (one each), the longest proof
is `LogicalCdcProofs` (a few minutes).
