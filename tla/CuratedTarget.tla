---------------------------- MODULE CuratedTarget ----------------------------
(***************************************************************************)
(* strategies/common/target.py, one SQL row operation at a time.           *)
(*                                                                         *)
(* Every session (a DAG task, a replay, a backfill) runs                   *)
(* upsert_changed_rows or delete_rows_by_keys, each in one READ COMMITTED  *)
(* transaction.  Inside it the keys are cut into chunks and each chunk is  *)
(* written to the curated table and then to the hash-state table.  A row a *)
(* transaction has written is locked until it ends.                        *)
(*                                                                         *)
(* A contract all of whose fields are key fields has nothing to update:    *)
(* its upserts leave a curated row that is there alone and do not lock it, *)
(* but write its hash.  Such a row may be deleted before the upsert ends.  *)
(*                                                                         *)
(* PostgreSQL itself is external: what is modelled is that an upsert       *)
(* statement visits its rows in the order given, that a delete statement   *)
(* sees the rows committed when it starts and visits them in any order,    *)
(* and that a statement waits for a row another transaction has written.   *)
(***************************************************************************)
EXTENDS AtomicTarget, Integers, FiniteSets

CONSTANTS
    Sessions,
    BatchSize,   \* upsert_batch_size of each session
    Untouched,   \* a row this transaction has not written
    NoPayload    \* the payload of a row that has no field outside its key

ASSUME SessionsAssumption == IsFiniteSet(Sessions)
ASSUME KeysAssumption == Keys \subseteq Int
ASSUME BatchSizeAssumption == BatchSize \in [Sessions -> Nat \ {0}]
ASSUME UntouchedAssumption == Untouched \notin Rows \cup Hashes \cup {Absent}
ASSUME NoPayloadAssumption == NoPayload \in Rows

VARIABLES
    contract, \* its fields: "key only" or "key and payload"
    kind,    \* what the session runs: "idle", "upsert" or "delete"
    rows,    \* the rows of the upsert call
    todo,    \* keys of the chunks still to come
    chunk,   \* keys of the current chunk
    table,   \* table the current statement writes: "curated" or "hash"
    left,    \* keys the current statement has still to visit
    cw,      \* curated rows written and not committed; Absent is a deletion
    hw,      \* hash-state rows written and not committed
    undercut \* history: keys whose row was deleted under an upsert that had
             \* found it there, and which no upsert has stored since

vars == <<curated, hashState, contract, kind, rows, todo, chunk, table, left, cw, hw,
          undercut>>

KeyOnly == contract = "key only"

NoWrites == [k \in Keys |-> Untouched]

Init ==
    /\ TargetInit
    /\ contract \in {"key only", "key and payload"}
    /\ undercut = {}
    /\ kind = [p \in Sessions |-> "idle"]
    /\ rows = [p \in Sessions |-> [k \in {} |-> Absent]]
    /\ todo = [p \in Sessions |-> {}]
    /\ chunk = [p \in Sessions |-> {}]
    /\ table = [p \in Sessions |-> "curated"]
    /\ left = [p \in Sessions |-> {}]
    /\ cw = [p \in Sessions |-> NoWrites]
    /\ hw = [p \in Sessions |-> NoWrites]
-----------------------------------------------------------------------------
(* chunk_rows: at most n of the remaining keys, none only when none is left. *)
Chunks(S, n) ==
    {c \in SUBSET S : Cardinality(c) <= n /\ (Cardinality(c) = n \/ c = S)}

(* Mutant: upsert_changed_rows without its sort. *)
UnsortedChunks(S, n) == Chunks(S, n)

(* sorted(rows, key=build_row_key): the smallest keys come first. *)
SortedChunks(S, n) == {c \in Chunks(S, n) : \A i \in c, j \in S \ c : i < j}

(* What session p sees of a row when a statement starts. *)
SeenRow(p, k) == IF cw[p][k] = Untouched THEN curated[k] ELSE cw[p][k]
SeenHash(p, k) == IF hw[p][k] = Untouched THEN hashState[k] ELSE hw[p][k]

RowLockedBy(q, k) == cw[q][k] # Untouched
HashLockedBy(q, k) == hw[q][k] # Untouched

(* Mutant: a statement does not wait for rows others have written. *)
RowNeverWaits(p, k) == p \in Sessions /\ k \in Keys

RowFree(p, k) == \A q \in Sessions \ {p} : ~RowLockedBy(q, k)
HashFree(p, k) == \A q \in Sessions \ {p} : ~HashLockedBy(q, k)

(* The key an upsert statement visits next. *)
IsNextKey(p, k) == k \in left[p] /\ \A j \in left[p] : k <= j

(* ON CONFLICT DO NOTHING, for want of target_update_fields: the row is there. *)
DoesNothing(p, k) == KeyOnly /\ SeenRow(p, k) # Absent

(* Session q has been to row k in an upsert, and has not written it. *)
Skipped(q, k) ==
    /\ kind[q] = "upsert"
    /\ k \in DOMAIN rows[q] \ todo[q]
    /\ table[q] = "curated" => k \notin left[q]
    /\ ~RowLockedBy(q, k)
-----------------------------------------------------------------------------
BeginUpsert(p) ==
    /\ kind[p] = "idle"
    /\ \E batch \in Batches :
        /\ DOMAIN batch # {}
        /\ KeyOnly => \A k \in DOMAIN batch : batch[k] = NoPayload
        /\ rows' = [rows EXCEPT ![p] = batch]
        /\ \E c \in SortedChunks(DOMAIN batch, BatchSize[p]) :
            /\ chunk' = [chunk EXCEPT ![p] = c]
            /\ left' = [left EXCEPT ![p] = c]
            /\ todo' = [todo EXCEPT ![p] = DOMAIN batch \ c]
    /\ kind' = [kind EXCEPT ![p] = "upsert"]
    /\ table' = [table EXCEPT ![p] = "curated"]
    /\ UNCHANGED <<curated, hashState, contract, cw, hw, undercut>>

BeginDelete(p) ==
    /\ kind[p] = "idle"
    /\ \E K \in SUBSET Keys :
        /\ K # {}
        /\ \E c \in Chunks(K, BatchSize[p]) :
            /\ chunk' = [chunk EXCEPT ![p] = c]
            /\ left' = [left EXCEPT ![p] = {k \in c : SeenRow(p, k) # Absent}]
            /\ todo' = [todo EXCEPT ![p] = K \ c]
    /\ kind' = [kind EXCEPT ![p] = "delete"]
    /\ table' = [table EXCEPT ![p] = "curated"]
    /\ UNCHANGED <<curated, hashState, contract, rows, cw, hw, undercut>>

(* Mutant: the hash-state table is given the row, not its row_hash. *)
UpsertRowStoringRow(p) ==
    /\ kind[p] = "upsert"
    /\ \E k \in Keys :
        /\ IsNextKey(p, k)
        /\ left' = [left EXCEPT ![p] = @ \ {k}]
        /\ \/ /\ table[p] = "curated"
              /\ RowFree(p, k)
              /\ cw' = [cw EXCEPT ![p][k] = IF DoesNothing(p, k) THEN @ ELSE rows[p][k]]
              /\ UNCHANGED hw
           \/ /\ table[p] = "hash"
              /\ HashFree(p, k)
              /\ hw' = [hw EXCEPT ![p][k] = rows[p][k]]
              /\ UNCHANGED cw
    /\ UNCHANGED <<curated, hashState, contract, kind, rows, todo, chunk, table, undercut>>

(* INSERT ... ON CONFLICT: insert or overwrite the next row, or leave a *)
(* curated row that is there alone; the hash is always written.         *)
UpsertRow(p) ==
    /\ kind[p] = "upsert"
    /\ \E k \in Keys :
        /\ IsNextKey(p, k)
        /\ left' = [left EXCEPT ![p] = @ \ {k}]
        /\ \/ /\ table[p] = "curated"
              /\ RowFree(p, k)
              /\ cw' = [cw EXCEPT ![p][k] = IF DoesNothing(p, k) THEN @ ELSE rows[p][k]]
              /\ UNCHANGED hw
           \/ /\ table[p] = "hash"
              /\ HashFree(p, k)
              /\ hw' = [hw EXCEPT ![p][k] = RowHash[rows[p][k]]]
              /\ UNCHANGED cw
    /\ UNCHANGED <<curated, hashState, contract, kind, rows, todo, chunk, table, undercut>>

(* DELETE ... WHERE key IN chunk: a row deleted since the statement started *)
(* is skipped, a row updated since is deleted in its new version.           *)
DeleteRow(p) ==
    /\ kind[p] = "delete"
    /\ \E k \in left[p] :
        /\ left' = [left EXCEPT ![p] = @ \ {k}]
        /\ \/ /\ table[p] = "curated"
              /\ RowFree(p, k)
              /\ cw' = [cw EXCEPT ![p][k] = IF curated[k] = Absent THEN @ ELSE Absent]
              /\ undercut' = undercut \cup
                    {j \in {k} : curated[j] # Absent /\ \E q \in Sessions : Skipped(q, j)}
              /\ UNCHANGED hw
           \/ /\ table[p] = "hash"
              /\ HashFree(p, k)
              /\ hw' = [hw EXCEPT ![p][k] = IF hashState[k] = Absent THEN @ ELSE Absent]
              /\ UNCHANGED <<cw, undercut>>
    /\ UNCHANGED <<curated, hashState, contract, kind, rows, todo, chunk, table>>

(* Mutant: each table is written in a transaction of its own. *)
CommitCuratedFirst(p) ==
    /\ kind[p] # "idle"
    /\ table[p] = "curated"
    /\ left[p] = {}
    /\ curated' = [k \in Keys |-> SeenRow(p, k)]
    /\ cw' = [cw EXCEPT ![p] = NoWrites]
    /\ table' = [table EXCEPT ![p] = "hash"]
    /\ left' = [left EXCEPT ![p] =
            {k \in chunk[p] : kind[p] = "upsert" \/ SeenHash(p, k) # Absent}]
    /\ UNCHANGED <<hashState, contract, kind, rows, todo, chunk, hw, undercut>>

(* The chunk's second statement, on the hash-state table. *)
HashStatement(p) ==
    /\ kind[p] # "idle"
    /\ table[p] = "curated"
    /\ left[p] = {}
    /\ table' = [table EXCEPT ![p] = "hash"]
    /\ left' = [left EXCEPT ![p] =
            {k \in chunk[p] : kind[p] = "upsert" \/ SeenHash(p, k) # Absent}]
    /\ UNCHANGED <<curated, hashState, contract, kind, rows, todo, chunk, cw, hw,
                   undercut>>

(* The next chunk's first statement, on the curated table. *)
NextChunk(p) ==
    /\ kind[p] # "idle"
    /\ table[p] = "hash"
    /\ left[p] = {}
    /\ todo[p] # {}
    /\ \E c \in Chunks(todo[p], BatchSize[p]) :
        /\ kind[p] = "upsert" => c \in SortedChunks(todo[p], BatchSize[p])
        /\ chunk' = [chunk EXCEPT ![p] = c]
        /\ left' = [left EXCEPT ![p] =
                {k \in c : kind[p] = "upsert" \/ SeenRow(p, k) # Absent}]
        /\ todo' = [todo EXCEPT ![p] = @ \ c]
    /\ table' = [table EXCEPT ![p] = "curated"]
    /\ UNCHANGED <<curated, hashState, contract, kind, rows, cw, hw, undercut>>

(* The session's transaction is over: its locks go. *)
End(p) ==
    /\ kind' = [kind EXCEPT ![p] = "idle"]
    /\ rows' = [rows EXCEPT ![p] = [k \in {} |-> Absent]]
    /\ todo' = [todo EXCEPT ![p] = {}]
    /\ chunk' = [chunk EXCEPT ![p] = {}]
    /\ table' = [table EXCEPT ![p] = "curated"]
    /\ left' = [left EXCEPT ![p] = {}]
    /\ cw' = [cw EXCEPT ![p] = NoWrites]
    /\ hw' = [hw EXCEPT ![p] = NoWrites]

(* The with block ends: what the session wrote is committed. *)
Commit(p) ==
    /\ kind[p] # "idle"
    /\ table[p] = "hash"
    /\ left[p] = {}
    /\ todo[p] = {}
    /\ curated' = [k \in Keys |-> SeenRow(p, k)]
    /\ hashState' = [k \in Keys |-> SeenHash(p, k)]
    /\ undercut' = undercut \ {k \in Keys : cw[p][k] \in Rows}
    /\ End(p)
    /\ UNCHANGED contract

(* Any statement may fail, be chosen as a deadlock's victim, or lose its *)
(* process: the transaction is rolled back.                              *)
Abort(p) ==
    /\ kind[p] # "idle"
    /\ End(p)
    /\ UNCHANGED <<curated, hashState, contract, undercut>>

Next ==
    \E p \in Sessions :
        \/ BeginUpsert(p) \/ BeginDelete(p)
        \/ UpsertRow(p) \/ DeleteRow(p)
        \/ HashStatement(p) \/ NextChunk(p)
        \/ Commit(p) \/ Abort(p)

Spec == Init /\ [][Next]_vars
-----------------------------------------------------------------------------
TypeOK ==
    /\ TargetTypeOK
    /\ kind \in [Sessions -> {"idle", "upsert", "delete"}]
    /\ rows \in [Sessions -> Batches]
    /\ todo \in [Sessions -> SUBSET Keys]
    /\ chunk \in [Sessions -> SUBSET Keys]
    /\ table \in [Sessions -> {"curated", "hash"}]
    /\ left \in [Sessions -> SUBSET Keys]
    /\ cw \in [Sessions -> [Keys -> Rows \cup {Absent, Untouched}]]
    /\ hw \in [Sessions -> [Keys -> Hashes \cup {Absent, Untouched}]]
    /\ contract \in {"key only", "key and payload"}
    /\ undercut \subseteq Keys

(* Session p, in an upsert, waits for a row that session q has written. *)
Awaits(p, q) ==
    /\ p # q
    /\ kind[p] = "upsert"
    /\ \E k \in Keys :
        /\ IsNextKey(p, k)
        /\ \/ table[p] = "curated" /\ RowLockedBy(q, k)
           \/ table[p] = "hash" /\ HashLockedBy(q, k)

(***************************************************************************)
(* A recorded hash is the hash of the curated row, or the contract is key  *)
(* only and the row was deleted under an upsert that had found it there    *)
(* and recorded its hash all the same (target.py:113-131).  Nothing else   *)
(* that sessions do to each other, nor a rollback, records a wrong hash,   *)
(* and storing the row again puts it right.                                *)
(***************************************************************************)
OnlyUndercutUnsound ==
    /\ undercut # {} => KeyOnly
    /\ \A k \in Keys \ undercut :
        hashState[k] # Absent =>
            curated[k] # Absent /\ hashState[k] = RowHash[curated[k]]

(***************************************************************************)
(* Concurrent upserts never deadlock each other: no set of sessions, all   *)
(* of them in upsert_changed_rows, waits in a circle.  That is what the    *)
(* sort in upsert_changed_rows is for (target.py:104).  It is not enough   *)
(* when the contract is key only: a session that skips rows and then waits *)
(* for their hashes may hold rows with larger keys.                        *)
(***************************************************************************)
UpsertsNeverDeadlock ==
    ~KeyOnly =>
        \A S \in SUBSET {p \in Sessions : kind[p] = "upsert"} :
            S # {} => \E p \in S : \A q \in S : ~Awaits(p, q)

(* What a write call of the abstract target does to the keys of K. *)
WriteCallAt(K) ==
    \/ \E batch \in Batches : \A k \in K :
        /\ curated'[k] = IF k \in DOMAIN batch THEN batch[k] ELSE curated[k]
        /\ hashState'[k] = IF k \in DOMAIN batch THEN RowHash[batch[k]] ELSE hashState[k]
    \/ \E H \in SUBSET Keys : \E C \in SUBSET H : \A k \in K :
        /\ curated'[k] = IF k \in C THEN Absent ELSE curated[k]
        /\ hashState'[k] = IF k \in H THEN Absent ELSE hashState[k]

(***************************************************************************)
(* Whatever the sessions do, both tables change together, by one write     *)
(* call of AtomicTarget at a time, at every key that is not undercut.  So  *)
(* with a contract that has a field outside its key, where none ever is,   *)
(* the sessions implement AtomicTarget.                                    *)
(***************************************************************************)
AtomicButUndercut == TargetInit /\ [][WriteCallAt(Keys \ undercut')]_targetVars
=============================================================================
