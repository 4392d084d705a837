---------------------------- MODULE AtomicTarget ----------------------------
(***************************************************************************)
(* What strategies/common/target.py promises to its callers about the      *)
(* curated table and its hash-state table: a write call takes effect at    *)
(* once on both tables.  An upsert stores every row it was given together  *)
(* with that row's hash.  A delete removes rows and hashes, and never      *)
(* leaves the hash of a row it removed.                                    *)
(*                                                                         *)
(* CuratedTarget is the implementation, statement by statement, by several *)
(* database sessions; it refines this module when the contract has a field *)
(* outside its key (CuratedTargetProofs), and may part from it at a key    *)
(* that a key-only contract's upsert skips while another session deletes   *)
(* it.  The pipeline modules build on these two operations.                *)
(***************************************************************************)
CONSTANTS
    Keys,      \* values of the contract's key fields
    Rows,      \* row payloads (the fields outside the key)
    Hashes,    \* row_hash values
    RowHash,   \* calculate_row_hash, a function from payloads to hashes
    Absent     \* no row, no hash

ASSUME RowHashAssumption == RowHash \in [Rows -> Hashes]
ASSUME AbsentAssumption == Absent \notin Rows \cup Hashes

VARIABLES
    curated,   \* the committed curated table
    hashState  \* the committed _hd_state_ table

targetVars == <<curated, hashState>>

(* The rows of one upsert call, by key. *)
Batches == UNION {[K -> Rows] : K \in SUBSET Keys}

TargetTypeOK ==
    /\ curated \in [Keys -> Rows \cup {Absent}]
    /\ hashState \in [Keys -> Hashes \cup {Absent}]

TargetInit ==
    /\ curated = [k \in Keys |-> Absent]
    /\ hashState = [k \in Keys |-> Absent]

(* Mutant: the hash-state table is given the row, not its row_hash. *)
UpsertStoringRow(rows) ==
    /\ curated' = [k \in Keys |-> IF k \in DOMAIN rows THEN rows[k] ELSE curated[k]]
    /\ hashState' = [k \in Keys |-> IF k \in DOMAIN rows THEN rows[k] ELSE hashState[k]]

(* upsert_changed_rows, committed. *)
Upsert(rows) ==
    /\ curated' = [k \in Keys |-> IF k \in DOMAIN rows THEN rows[k] ELSE curated[k]]
    /\ hashState' = [k \in Keys |->
                        IF k \in DOMAIN rows THEN RowHash[rows[k]] ELSE hashState[k]]

(* Mutant: the hashes of deleted rows stay. *)
DeleteKeepingHashes(C, H) ==
    /\ C \subseteq H
    /\ curated' = [k \in Keys |-> IF k \in C THEN Absent ELSE curated[k]]
    /\ UNCHANGED hashState

(* delete_rows_by_keys, committed: the rows of C go, the hashes of H. *)
Delete(C, H) ==
    /\ C \subseteq H
    /\ curated' = [k \in Keys |-> IF k \in C THEN Absent ELSE curated[k]]
    /\ hashState' = [k \in Keys |-> IF k \in H THEN Absent ELSE hashState[k]]

TargetNext ==
    \/ \E rows \in Batches : Upsert(rows)
    \/ \E C, H \in SUBSET Keys : Delete(C, H)

TargetSpec == TargetInit /\ [][TargetNext]_targetVars

(***************************************************************************)
(* A recorded hash is the hash of the row the curated table holds.  This   *)
(* is what makes it safe for classify_changes to skip a row whose hash is  *)
(* already recorded (change_detection.py).                                 *)
(***************************************************************************)
HashStateSound ==
    \A k \in Keys :
        hashState[k] # Absent =>
            curated[k] # Absent /\ hashState[k] = RowHash[curated[k]]

(* No two rows have one hash.  The code relies on it wherever it skips a    *)
(* row whose hash is recorded.  Without x-hashKeys calculate_row_hash gives *)
(* it as far as SHA-256 and the text it is taken of do; with them, rows     *)
(* that differ in other fields only have one hash (effective_hash_fields,   *)
(* contracts/types.py:30-33), and such a change is not seen.                *)
NoCollisions == \A r, s \in Rows : RowHash[r] = RowHash[s] => r = s
=============================================================================
