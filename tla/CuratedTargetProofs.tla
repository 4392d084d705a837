------------------------- MODULE CuratedTargetProofs -------------------------
(***************************************************************************)
(* Proofs about CuratedTarget for any keys, rows, sessions and batch       *)
(* sizes.                                                                  *)
(***************************************************************************)
EXTENDS CuratedTarget, AtomicTargetProofs

(* The hash of key k is still to be written by p's current chunk. *)
Pending(p, k) == k \in chunk[p] /\ (table[p] = "curated" \/ k \in left[p])

(* A row is written by one session at a time. *)
LocksExclusive ==
    \A p, q \in Sessions : p # q =>
        \A k \in Keys :
            /\ ~(RowLockedBy(p, k) /\ RowLockedBy(q, k))
            /\ ~(HashLockedBy(p, k) /\ HashLockedBy(q, k))

(* Where a session is: its keys, and which of them it has written. *)
Progress ==
    \A p \in Sessions :
        /\ left[p] \subseteq chunk[p]
        /\ kind[p] = "idle" => \A k \in Keys : ~RowLockedBy(p, k) /\ ~HashLockedBy(p, k)
        /\ chunk[p] \cap todo[p] = {}
        /\ \A k \in todo[p] : ~RowLockedBy(p, k) /\ ~HashLockedBy(p, k)

(* What an upsert has written: rows, and hashes of rows it has written or  *)
(* skipped.  Only with a key-only contract does it skip any.               *)
UpsertWrote(p) ==
    kind[p] = "upsert" =>
        /\ chunk[p] \cup todo[p] \subseteq DOMAIN rows[p]
        /\ \A k \in Keys :
            /\ RowLockedBy(p, k) => k \in DOMAIN rows[p] /\ cw[p][k] = rows[p][k]
            /\ HashLockedBy(p, k) =>
                  /\ RowLockedBy(p, k) \/ Skipped(p, k)
                  /\ hw[p][k] = RowHash[rows[p][k]]
            /\ RowLockedBy(p, k) \/ Skipped(p, k) => HashLockedBy(p, k) \/ Pending(p, k)
            /\ Skipped(p, k) => KeyOnly

UpsertWrites == \A p \in Sessions : UpsertWrote(p)

(* With a key-only contract there is one payload. *)
OnePayload ==
    KeyOnly =>
        /\ \A p \in Sessions : \A k \in DOMAIN rows[p] : rows[p][k] = NoPayload
        /\ \A k \in Keys : curated[k] \in {Absent, NoPayload}

(* A row an upsert has skipped is there and nobody deletes it, or it is *)
(* undercut.                                                            *)
SkippedRowsThere ==
    \A q \in Sessions, k \in Keys \ undercut :
        Skipped(q, k) => curated[k] # Absent /\ \A p \in Sessions : cw[p][k] # Absent

(* An upsert goes through its keys in increasing order. *)
UpsertOrder ==
    \A p \in Sessions : kind[p] = "upsert" =>
        /\ \A i \in chunk[p], j \in todo[p] : i < j
        /\ \A i \in Keys : RowLockedBy(p, i) =>
            /\ \A j \in todo[p] : i < j
            /\ table[p] = "curated" => \A j \in left[p] : i < j

(* What a delete has written: the hash of a row it deleted is deleted too, *)
(* is not there, or is still to come, unless the row is undercut.          *)
DeleteWrites ==
    \A p \in Sessions : kind[p] = "delete" =>
        \A k \in Keys :
            /\ cw[p][k] \in {Absent, Untouched}
            /\ hw[p][k] \in {Absent, Untouched}
            /\ RowLockedBy(p, k) /\ k \notin undercut =>
                  hashState[k] = Absent \/ HashLockedBy(p, k) \/ Pending(p, k)

IInv ==
    /\ TypeOK
    /\ LocksExclusive
    /\ Progress
    /\ UpsertWrites
    /\ UpsertOrder
    /\ DeleteWrites
    /\ OnePayload
    /\ SkippedRowsThere
    /\ OnlyUndercutUnsound
-----------------------------------------------------------------------------
(* A chunk holds keys of the list it is cut from. *)
LEMMA ChunkSubset ==
    ASSUME NEW S, NEW n, NEW c \in Chunks(S, n)
    PROVE  c \subseteq S
BY DEF Chunks

(* A chunk of the sorted rows is a chunk, and comes before the rest. *)
LEMMA SortedChunkIsChunk ==
    ASSUME NEW S, NEW n, NEW c \in SortedChunks(S, n)
    PROVE  c \in Chunks(S, n) /\ \A i \in c, j \in S \ c : i < j
BY DEF SortedChunks

(* A transaction that has written nothing is well typed. *)
LEMMA NoWritesType ==
    /\ NoWrites \in [Keys -> Rows \cup {Absent, Untouched}]
    /\ NoWrites \in [Keys -> Hashes \cup {Absent, Untouched}]
BY DEF NoWrites

(* The inductive invariant holds when no session runs. *)
LEMMA InitIInv == Init => IInv
<1> SUFFICES ASSUME Init PROVE IInv
    OBVIOUS
<1> USE DEF Init, TargetInit
<1>1. TypeOK
    BY EmptyBatch, NoWritesType DEF TypeOK, TargetTypeOK
<1>2. LocksExclusive /\ Progress
    BY DEF LocksExclusive, Progress, RowLockedBy, HashLockedBy, NoWrites
<1>3. UpsertWrites /\ UpsertOrder /\ DeleteWrites
    BY DEF UpsertWrites, UpsertWrote, UpsertOrder, DeleteWrites
<1>4. OnePayload /\ SkippedRowsThere /\ OnlyUndercutUnsound
    BY DEF OnePayload, SkippedRowsThere, Skipped, OnlyUndercutUnsound
<1> QED BY <1>1, <1>2, <1>3, <1>4 DEF IInv
-----------------------------------------------------------------------------
(* A session that a step does not touch has written what it had written. *)
LEMMA UntouchedUpsert ==
    ASSUME NEW q \in Sessions, UpsertWrote(q),
           UNCHANGED <<contract, kind[q], rows[q], todo[q], chunk[q], table[q], left[q],
                       cw[q], hw[q]>>
    PROVE  UpsertWrote(q)'
BY DEF UpsertWrote, RowLockedBy, HashLockedBy, Pending, Skipped, KeyOnly

(* A step that neither writes curated rows nor changes who has skipped what. *)
LEMMA RowsUntouched ==
    ASSUME IInv, UNCHANGED <<curated, hashState, contract, cw, undercut>>,
           \A q \in Sessions, k \in Keys : Skipped(q, k)' => Skipped(q, k)
    PROVE  SkippedRowsThere' /\ OnlyUndercutUnsound'
BY DEF IInv, SkippedRowsThere, OnlyUndercutUnsound, KeyOnly

(* Starting upsert_changed_rows preserves the invariant. *)
LEMMA BeginUpsertIInv ==
    ASSUME IInv, NEW p \in Sessions, BeginUpsert(p)
    PROVE  IInv'
<1>1. PICK batch \in Batches : \E c \in SortedChunks(DOMAIN batch, BatchSize[p]) :
        /\ KeyOnly => \A k \in DOMAIN batch : batch[k] = NoPayload
        /\ rows' = [rows EXCEPT ![p] = batch]
        /\ chunk' = [chunk EXCEPT ![p] = c]
        /\ left' = [left EXCEPT ![p] = c]
        /\ todo' = [todo EXCEPT ![p] = DOMAIN batch \ c]
    BY DEF BeginUpsert
<1>2. PICK c \in SortedChunks(DOMAIN batch, BatchSize[p]) :
        /\ KeyOnly => \A k \in DOMAIN batch : batch[k] = NoPayload
        /\ rows' = [rows EXCEPT ![p] = batch]
        /\ chunk' = [chunk EXCEPT ![p] = c]
        /\ left' = [left EXCEPT ![p] = c]
        /\ todo' = [todo EXCEPT ![p] = DOMAIN batch \ c]
    BY <1>1
<1>3. c \subseteq DOMAIN batch /\ DOMAIN batch \subseteq Keys
    BY ChunkSubset, SortedChunkIsChunk, BatchRow
<1>4. /\ kind[p] = "idle"
      /\ kind' = [kind EXCEPT ![p] = "upsert"]
      /\ table' = [table EXCEPT ![p] = "curated"]
      /\ UNCHANGED <<curated, hashState, contract, cw, hw, undercut>>
    BY DEF BeginUpsert
<1> USE DEF IInv
<1>5. TypeOK'
    BY <1>2, <1>3, <1>4 DEF TypeOK, TargetTypeOK
<1>6. LocksExclusive'
    BY <1>4 DEF LocksExclusive, RowLockedBy, HashLockedBy
<1>7. Progress'
    BY <1>2, <1>3, <1>4 DEF Progress, TypeOK, RowLockedBy, HashLockedBy
<1>8. UpsertWrites'
    <2>1. ASSUME NEW q \in Sessions, q # p PROVE UpsertWrote(q)'
        BY <1>2, <1>4, <2>1, UntouchedUpsert DEF UpsertWrites, TypeOK
    <2>2. /\ rows'[p] = batch /\ chunk'[p] = c /\ left'[p] = c
          /\ todo'[p] = DOMAIN batch \ c /\ table'[p] = "curated"
        BY <1>2, <1>4 DEF TypeOK
    <2>3. \A k \in Keys : ~RowLockedBy(p, k)' /\ ~HashLockedBy(p, k)' /\ ~Skipped(p, k)'
        BY <1>3, <1>4, <2>2 DEF Progress, RowLockedBy, HashLockedBy, Skipped
    <2>4. UpsertWrote(p)'
        BY <1>3, <2>2, <2>3 DEF UpsertWrote
    <2> QED BY <2>1, <2>4 DEF UpsertWrites
<1>9. DeleteWrites'
    BY <1>2, <1>3, <1>4 DEF DeleteWrites, TypeOK, RowLockedBy, HashLockedBy, Pending
<1>10. OnePayload' /\ SkippedRowsThere' /\ OnlyUndercutUnsound'
    <2>1. \A q \in Sessions, k \in Keys : Skipped(q, k)' => Skipped(q, k)
        BY <1>2, <1>4 DEF Skipped, TypeOK, RowLockedBy
    <2>2. OnePayload'
        BY <1>2, <1>4 DEF OnePayload, TypeOK, KeyOnly
    <2> QED BY <1>4, <2>1, <2>2, RowsUntouched
<1>11. UpsertOrder'
    <2>1. \A i \in c, j \in DOMAIN batch \ c : i < j
        BY SortedChunkIsChunk
    <2> QED BY <1>2, <1>4, <2>1 DEF UpsertOrder, Progress, TypeOK, RowLockedBy
<1> QED BY <1>5, <1>6, <1>7, <1>8, <1>9, <1>10, <1>11

(* Starting delete_rows_by_keys preserves the invariant. *)
LEMMA BeginDeleteIInv ==
    ASSUME IInv, NEW p \in Sessions, BeginDelete(p)
    PROVE  IInv'
<1>1. PICK K \in SUBSET Keys : \E c \in Chunks(K, BatchSize[p]) :
        /\ chunk' = [chunk EXCEPT ![p] = c]
        /\ left' = [left EXCEPT ![p] = {k \in c : SeenRow(p, k) # Absent}]
        /\ todo' = [todo EXCEPT ![p] = K \ c]
    BY DEF BeginDelete
<1>2. PICK c \in Chunks(K, BatchSize[p]) :
        /\ chunk' = [chunk EXCEPT ![p] = c]
        /\ left' = [left EXCEPT ![p] = {k \in c : SeenRow(p, k) # Absent}]
        /\ todo' = [todo EXCEPT ![p] = K \ c]
    BY <1>1
<1>3. c \subseteq K
    BY ChunkSubset
<1>4. /\ kind[p] = "idle"
      /\ kind' = [kind EXCEPT ![p] = "delete"]
      /\ table' = [table EXCEPT ![p] = "curated"]
      /\ UNCHANGED <<curated, hashState, contract, rows, cw, hw, undercut>>
    BY DEF BeginDelete
<1> USE DEF IInv
<1>5. TypeOK'
    BY <1>2, <1>3, <1>4 DEF TypeOK, TargetTypeOK
<1>6. LocksExclusive'
    BY <1>4 DEF LocksExclusive, RowLockedBy, HashLockedBy
<1>7. Progress'
    BY <1>2, <1>3, <1>4 DEF Progress, TypeOK, RowLockedBy, HashLockedBy
<1>8. UpsertWrites'
    <2>1. ASSUME NEW q \in Sessions, q # p PROVE UpsertWrote(q)'
        BY <1>2, <1>4, <2>1, UntouchedUpsert DEF UpsertWrites, TypeOK
    <2>2. UpsertWrote(p)'
        BY <1>4 DEF UpsertWrote, TypeOK
    <2> QED BY <2>1, <2>2 DEF UpsertWrites
<1>9. DeleteWrites'
    BY <1>2, <1>3, <1>4
    DEF DeleteWrites, Progress, TypeOK, RowLockedBy, HashLockedBy, Pending
<1>10. OnePayload' /\ SkippedRowsThere' /\ OnlyUndercutUnsound'
    <2>1. \A q \in Sessions, k \in Keys : Skipped(q, k)' => Skipped(q, k)
        BY <1>2, <1>4 DEF Skipped, TypeOK, RowLockedBy
    <2>2. OnePayload'
        BY <1>2, <1>4 DEF OnePayload, TypeOK, KeyOnly
    <2> QED BY <1>4, <2>1, <2>2, RowsUntouched
<1>11. UpsertOrder'
    BY <1>2, <1>4 DEF UpsertOrder, TypeOK, RowLockedBy
<1> QED BY <1>5, <1>6, <1>7, <1>8, <1>9, <1>10, <1>11

(* Writing or skipping one row, or writing one hash, preserves the invariant. *)
LEMMA UpsertRowIInv ==
    ASSUME IInv, NEW p \in Sessions, UpsertRow(p)
    PROVE  IInv'
<1> USE DEF IInv
<1>1. PICK k \in Keys :
        /\ IsNextKey(p, k)
        /\ left' = [left EXCEPT ![p] = @ \ {k}]
        /\ \/ /\ table[p] = "curated"
              /\ RowFree(p, k)
              /\ cw' = [cw EXCEPT ![p][k] = IF DoesNothing(p, k) THEN @ ELSE rows[p][k]]
              /\ UNCHANGED hw
           \/ /\ table[p] = "hash"
              /\ HashFree(p, k)
              /\ hw' = [hw EXCEPT ![p][k] = RowHash[rows[p][k]]]
              /\ UNCHANGED cw
    BY DEF UpsertRow
<1>2. /\ kind[p] = "upsert"
      /\ UNCHANGED <<curated, hashState, contract, kind, rows, todo, chunk, table, undercut>>
    BY DEF UpsertRow
<1>3. k \in left[p] /\ k \in chunk[p] /\ k \notin todo[p] /\ k \in DOMAIN rows[p]
    BY <1>1, <1>2 DEF IsNextKey, Progress, UpsertWrites, UpsertWrote
<1>4. rows[p][k] \in Rows /\ RowHash[rows[p][k]] \in Hashes
    BY <1>3, BatchRow, RowHashAssumption DEF TypeOK
<1>5. /\ rows[p][k] \notin {Untouched, Absent} /\ RowHash[rows[p][k]] # Untouched
    BY <1>4, UntouchedAssumption, AbsentAssumption
<1>6. OnePayload' /\ OnlyUndercutUnsound'
    BY <1>2 DEF OnePayload, OnlyUndercutUnsound, KeyOnly
<1>7. \* What the step leaves alone of the sessions' own variables.
       /\ \A q \in Sessions \ {p} : left'[q] = left[q]
       /\ left'[p] = left[p] \ {k} /\ left[p] \subseteq Keys
    BY <1>1 DEF TypeOK
<1>8. CASE /\ table[p] = "curated" /\ RowFree(p, k) /\ ~DoesNothing(p, k)
           /\ cw' = [cw EXCEPT ![p][k] = rows[p][k]]
           /\ UNCHANGED hw
    <2>1. TypeOK'
        BY <1>1, <1>2, <1>4, <1>8 DEF TypeOK, TargetTypeOK
    <2>2. /\ cw'[p][k] = rows[p][k] /\ \A j \in Keys \ {k} : cw'[p][j] = cw[p][j]
          /\ \A q \in Sessions \ {p} : cw'[q] = cw[q]
        BY <1>8 DEF TypeOK
    <2>3. LocksExclusive'
        BY <1>5, <1>8, <2>2 DEF LocksExclusive, RowFree, RowLockedBy, HashLockedBy
    <2>4. Progress'
        BY <1>1, <1>2, <1>3, <1>8 DEF Progress, RowLockedBy, HashLockedBy, TypeOK
    <2>5. \A q \in Sessions, j \in Keys : Skipped(q, j)' => Skipped(q, j)
        <3>1. ASSUME NEW q \in Sessions, q # p PROVE \A j \in Keys : Skipped(q, j)' => Skipped(q, j)
            BY <1>2, <1>7, <2>2, <3>1 DEF Skipped, RowLockedBy
        <3>2. \A j \in Keys : Skipped(p, j)' => Skipped(p, j)
            BY <1>2, <1>5, <1>7, <2>2 DEF Skipped, RowLockedBy
        <3> QED BY <3>1, <3>2
    <2>6. UpsertWrites'
        <3>1. ASSUME NEW q \in Sessions, q # p PROVE UpsertWrote(q)'
            BY <1>2, <1>8, <1>7, <2>2, <3>1, UntouchedUpsert DEF UpsertWrites
        <3>2. \A j \in Keys \ {k} :
                /\ RowLockedBy(p, j)' <=> RowLockedBy(p, j)
                /\ HashLockedBy(p, j)' <=> HashLockedBy(p, j)
                /\ Skipped(p, j)' <=> Skipped(p, j)
                /\ Pending(p, j)' <=> Pending(p, j)
            BY <1>2, <1>8, <1>7, <2>2 DEF RowLockedBy, HashLockedBy, Skipped, Pending
        <3>3. RowLockedBy(p, k)' /\ ~Skipped(p, k)' /\ Pending(p, k)' /\ ~Skipped(p, k)
            BY <1>2, <1>3, <1>5, <1>8, <2>2 DEF RowLockedBy, Skipped, Pending
        <3>4. HashLockedBy(p, k)' => hw'[p][k] = RowHash[rows[p][k]]
            BY <1>2, <1>8 DEF HashLockedBy, UpsertWrites, UpsertWrote
        <3>5. UpsertWrote(p)'
            BY <1>2, <1>3, <1>8, <2>2, <3>2, <3>3, <3>4 DEF UpsertWrites, UpsertWrote, KeyOnly
        <3> QED BY <3>1, <3>5 DEF UpsertWrites
    <2>7. DeleteWrites'
        BY <1>1, <1>2, <1>8 DEF DeleteWrites, RowLockedBy, HashLockedBy, TypeOK, Pending
    <2>8. SkippedRowsThere'
        BY <1>2, <1>5, <2>2, <2>5 DEF SkippedRowsThere
    <2>9. UpsertOrder'
        <3>1. \A j \in left[p] \ {k} : k < j
            BY <1>1, <1>7, KeysAssumption DEF IsNextKey
        <3>2. \A j \in todo[p] : k < j
            BY <1>2, <1>3 DEF UpsertOrder
        <3> QED BY <1>2, <1>8, <1>7, <2>2, <3>1, <3>2 DEF UpsertOrder, RowLockedBy
    <2> QED BY <1>6, <2>1, <2>3, <2>4, <2>6, <2>7, <2>8, <2>9
<1>9. CASE /\ table[p] = "curated" /\ RowFree(p, k) /\ DoesNothing(p, k)
           /\ cw' = [cw EXCEPT ![p][k] = @]
           /\ UNCHANGED hw
    <2>1. UNCHANGED <<cw, hw>>
        BY <1>9 DEF TypeOK
    <2>2. KeyOnly
        BY <1>9 DEF DoesNothing
    <2>3. ~RowLockedBy(p, k)
        BY <1>1, <1>2, <1>3, <1>9, KeysAssumption DEF UpsertOrder
    <2>4. curated[k] # Absent /\ \A q \in Sessions : cw[q][k] # Absent
        BY <1>9, <2>3, UntouchedAssumption DEF DoesNothing, SeenRow, RowLockedBy, RowFree
    <2>5. TypeOK' /\ LocksExclusive'
        <3>1. TypeOK'
            BY <1>1, <1>2, <2>1 DEF TypeOK, TargetTypeOK
        <3>2. LocksExclusive'
            BY <2>1 DEF LocksExclusive, RowLockedBy, HashLockedBy
        <3> QED BY <3>1, <3>2
    <2>6. Progress' /\ UpsertOrder'
        BY <1>1, <1>2, <2>1 DEF Progress, UpsertOrder, RowLockedBy, HashLockedBy, TypeOK
    <2>7. UpsertWrites'
        <3>1. ASSUME NEW q \in Sessions, q # p PROVE UpsertWrote(q)'
            BY <1>2, <1>7, <2>1, <3>1, UntouchedUpsert DEF UpsertWrites
        <3>2. \A j \in Keys :
                /\ RowLockedBy(p, j)' <=> RowLockedBy(p, j)
                /\ HashLockedBy(p, j)' <=> HashLockedBy(p, j)
                /\ Skipped(p, j) => Skipped(p, j)'
                /\ Skipped(p, j)' => Skipped(p, j) \/ j = k
                /\ Pending(p, j)' <=> Pending(p, j)
            BY <1>2, <1>9, <1>7, <2>1 DEF RowLockedBy, HashLockedBy, Skipped, Pending
        <3>3. Pending(p, k)
            BY <1>3, <1>9 DEF Pending
        <3>4. UpsertWrote(p)'
            BY <1>2, <2>1, <2>2, <3>2, <3>3 DEF UpsertWrites, UpsertWrote, KeyOnly
        <3> QED BY <3>1, <3>4 DEF UpsertWrites
    <2>8. DeleteWrites'
        BY <1>1, <1>2, <2>1 DEF DeleteWrites, RowLockedBy, HashLockedBy, TypeOK, Pending
    <2>9. SkippedRowsThere'
        <3>1. \A q \in Sessions, j \in Keys :
                Skipped(q, j)' => Skipped(q, j) \/ (q = p /\ j = k)
            BY <1>1, <1>2, <2>1 DEF Skipped, RowLockedBy, TypeOK
        <3> QED BY <1>2, <2>1, <2>4, <3>1 DEF SkippedRowsThere
    <2> QED BY <1>6, <2>5, <2>6, <2>7, <2>8, <2>9
<1>10. CASE /\ table[p] = "hash"
           /\ HashFree(p, k)
           /\ hw' = [hw EXCEPT ![p][k] = RowHash[rows[p][k]]]
           /\ UNCHANGED cw
    <2>1. TypeOK'
        BY <1>1, <1>2, <1>4, <1>10 DEF TypeOK, TargetTypeOK
    <2>2. /\ hw'[p][k] = RowHash[rows[p][k]] /\ \A j \in Keys \ {k} : hw'[p][j] = hw[p][j]
          /\ \A q \in Sessions \ {p} : hw'[q] = hw[q]
        BY <1>10 DEF TypeOK
    <2>3. LocksExclusive'
        BY <1>5, <1>10, <2>2 DEF LocksExclusive, HashFree, RowLockedBy, HashLockedBy
    <2>4. Progress'
        BY <1>1, <1>2, <1>3, <1>10 DEF Progress, RowLockedBy, HashLockedBy, TypeOK
    <2>5. UpsertWrites'
        <3>1. ASSUME NEW q \in Sessions, q # p PROVE UpsertWrote(q)'
            BY <1>2, <1>10, <1>7, <2>2, <3>1, UntouchedUpsert DEF UpsertWrites
        <3>2. \A j \in Keys :
                /\ RowLockedBy(p, j)' <=> RowLockedBy(p, j)
                /\ Skipped(p, j)' <=> Skipped(p, j)
            BY <1>2, <1>10 DEF RowLockedBy, Skipped
        <3>3. \A j \in Keys \ {k} :
                /\ HashLockedBy(p, j)' <=> HashLockedBy(p, j)
                /\ Pending(p, j)' <=> Pending(p, j)
            BY <1>2, <1>7, <2>2 DEF HashLockedBy, Pending
        <3>4. HashLockedBy(p, k)' /\ (RowLockedBy(p, k) \/ Skipped(p, k))
            BY <1>2, <1>3, <1>5, <1>10, <2>2 DEF HashLockedBy, Skipped
        <3>5. UpsertWrote(p)'
            BY <1>2, <1>10, <2>2, <3>2, <3>3, <3>4 DEF UpsertWrites, UpsertWrote, KeyOnly
        <3> QED BY <3>1, <3>5 DEF UpsertWrites
    <2>6. DeleteWrites'
        BY <1>1, <1>2, <1>10 DEF DeleteWrites, RowLockedBy, HashLockedBy, TypeOK, Pending
    <2>7. SkippedRowsThere'
        BY <1>1, <1>2, <1>10 DEF SkippedRowsThere, Skipped, RowLockedBy, TypeOK
    <2>8. UpsertOrder'
        BY <1>1, <1>2, <1>10 DEF UpsertOrder, TypeOK, RowLockedBy
    <2> QED BY <1>6, <2>1, <2>3, <2>4, <2>5, <2>6, <2>7, <2>8
<1> QED BY <1>1, <1>8, <1>9, <1>10

(* Deleting one row or one hash preserves the invariant. *)
LEMMA DeleteRowIInv ==
    ASSUME IInv, NEW p \in Sessions, DeleteRow(p)
    PROVE  IInv'
<1> USE DEF IInv
<1>1. PICK k \in left[p] :
        /\ left' = [left EXCEPT ![p] = @ \ {k}]
        /\ \/ /\ table[p] = "curated"
              /\ RowFree(p, k)
              /\ cw' = [cw EXCEPT ![p][k] = IF curated[k] = Absent THEN @ ELSE Absent]
              /\ undercut' = undercut \cup
                    {j \in {k} : curated[j] # Absent /\ \E q \in Sessions : Skipped(q, j)}
              /\ UNCHANGED hw
           \/ /\ table[p] = "hash"
              /\ HashFree(p, k)
              /\ hw' = [hw EXCEPT ![p][k] = IF hashState[k] = Absent THEN @ ELSE Absent]
              /\ UNCHANGED <<cw, undercut>>
    BY DEF DeleteRow
<1>2. /\ kind[p] = "delete"
      /\ UNCHANGED <<curated, hashState, contract, kind, rows, todo, chunk, table>>
    BY DEF DeleteRow
<1>3. k \in Keys /\ k \in chunk[p] /\ k \notin todo[p] /\ Absent # Untouched
    BY UntouchedAssumption DEF Progress, TypeOK
<1>4. OnePayload'
    BY <1>2 DEF OnePayload, KeyOnly
<1>5. \A q \in Sessions, j \in Keys : Skipped(q, j)' <=> Skipped(q, j)
    BY <1>1, <1>2 DEF Skipped, RowLockedBy, TypeOK
<1>6. \A q \in Sessions \ {p} : left'[q] = left[q]
    BY <1>1 DEF TypeOK
<1>7. CASE /\ table[p] = "curated"
           /\ RowFree(p, k)
           /\ cw' = [cw EXCEPT ![p][k] = IF curated[k] = Absent THEN @ ELSE Absent]
           /\ undercut' = undercut \cup
                {j \in {k} : curated[j] # Absent /\ \E q \in Sessions : Skipped(q, j)}
           /\ UNCHANGED hw
    <2>1. TypeOK'
        BY <1>1, <1>2, <1>3, <1>7 DEF TypeOK, TargetTypeOK
    <2>2. /\ \A j \in Keys \ {k} : cw'[p][j] = cw[p][j]
          /\ \A q \in Sessions \ {p} : cw'[q] = cw[q]
        BY <1>7 DEF TypeOK
    <2>3. LocksExclusive'
        BY <1>3, <1>7, <2>2 DEF LocksExclusive, RowFree, RowLockedBy, HashLockedBy
    <2>4. Progress'
        BY <1>1, <1>2, <1>3, <1>7 DEF Progress, RowLockedBy, HashLockedBy, TypeOK
    <2>5. UpsertWrites'
        <3>1. ASSUME NEW q \in Sessions, q # p PROVE UpsertWrote(q)'
            BY <1>2, <1>7, <1>6, <2>2, <3>1, UntouchedUpsert DEF UpsertWrites
        <3>2. UpsertWrote(p)'
            BY <1>2 DEF UpsertWrote
        <3> QED BY <3>1, <3>2 DEF UpsertWrites
    <2>6. DeleteWrites'
        BY <1>1, <1>2, <1>3, <1>7
        DEF DeleteWrites, RowLockedBy, HashLockedBy, TypeOK, Pending
    <2>7. SkippedRowsThere'
        <3>1. \A q \in Sessions, j \in Keys :
                \/ cw'[q][j] = cw[q][j]
                \/ j = k /\ curated[k] # Absent
            BY <1>3, <1>7 DEF TypeOK
        <3>2. SUFFICES ASSUME NEW q \in Sessions, NEW j \in Keys \ undercut', Skipped(q, j)
                       PROVE  curated[j] # Absent /\ \A s \in Sessions : cw'[s][j] # Absent
            BY <1>2, <1>5 DEF SkippedRowsThere
        <3>3. j \notin undercut /\ ~(j = k /\ curated[k] # Absent)
            BY <1>7, <3>2
        <3> QED BY <3>1, <3>2, <3>3 DEF SkippedRowsThere
    <2>8. OnlyUndercutUnsound'
        <3>1. undercut' # {} => KeyOnly
            BY <1>2, <1>3, <1>7 DEF OnlyUndercutUnsound, UpsertWrites, UpsertWrote, Skipped,
                KeyOnly
        <3>2. undercut \subseteq undercut'
            BY <1>7
        <3> QED BY <1>2, <3>1, <3>2 DEF OnlyUndercutUnsound, KeyOnly
    <2>9. UpsertOrder'
        BY <1>1, <1>2, <1>7 DEF UpsertOrder, TypeOK, RowLockedBy
    <2> QED BY <1>4, <2>1, <2>3, <2>4, <2>5, <2>6, <2>7, <2>8, <2>9
<1>8. CASE /\ table[p] = "hash"
           /\ HashFree(p, k)
           /\ hw' = [hw EXCEPT ![p][k] = IF hashState[k] = Absent THEN @ ELSE Absent]
           /\ UNCHANGED <<cw, undercut>>
    <2>1. TypeOK'
        BY <1>1, <1>2, <1>3, <1>8 DEF TypeOK, TargetTypeOK
    <2>2. /\ \A j \in Keys \ {k} : hw'[p][j] = hw[p][j]
          /\ \A q \in Sessions \ {p} : hw'[q] = hw[q]
        BY <1>8 DEF TypeOK
    <2>3. LocksExclusive'
        BY <1>3, <1>8, <2>2 DEF LocksExclusive, HashFree, RowLockedBy, HashLockedBy
    <2>4. Progress'
        BY <1>1, <1>2, <1>3, <1>8 DEF Progress, RowLockedBy, HashLockedBy, TypeOK
    <2>5. UpsertWrites'
        <3>1. ASSUME NEW q \in Sessions, q # p PROVE UpsertWrote(q)'
            BY <1>2, <1>8, <1>6, <2>2, <3>1, UntouchedUpsert DEF UpsertWrites
        <3>2. UpsertWrote(p)'
            BY <1>2 DEF UpsertWrote
        <3> QED BY <3>1, <3>2 DEF UpsertWrites
    <2>6. DeleteWrites'
        BY <1>1, <1>2, <1>3, <1>8
        DEF DeleteWrites, RowLockedBy, HashLockedBy, TypeOK, Pending
    <2>7. SkippedRowsThere' /\ OnlyUndercutUnsound'
        BY <1>2, <1>5, <1>8, RowsUntouched
    <2>8. UpsertOrder'
        BY <1>1, <1>2, <1>8 DEF UpsertOrder, TypeOK, RowLockedBy
    <2> QED BY <1>4, <2>1, <2>3, <2>4, <2>5, <2>6, <2>7, <2>8
<1> QED BY <1>1, <1>7, <1>8

(* Moving on to the hash-state table preserves the invariant. *)
LEMMA HashStatementIInv ==
    ASSUME IInv, NEW p \in Sessions, HashStatement(p)
    PROVE  IInv'
<1> USE DEF IInv
<1>1. /\ table[p] = "curated" /\ left[p] = {}
      /\ table' = [table EXCEPT ![p] = "hash"]
      /\ left' = [left EXCEPT ![p] =
            {k \in chunk[p] : kind[p] = "upsert" \/ SeenHash(p, k) # Absent}]
      /\ UNCHANGED <<curated, hashState, contract, kind, rows, todo, chunk, cw, hw, undercut>>
    BY DEF HashStatement
<1>2. TypeOK'
    BY <1>1 DEF TypeOK, TargetTypeOK
<1>3. LocksExclusive' /\ OnePayload'
    BY <1>1 DEF LocksExclusive, RowLockedBy, HashLockedBy, OnePayload, KeyOnly
<1>4. Progress'
    BY <1>1 DEF Progress, RowLockedBy, HashLockedBy, TypeOK
<1>5. \A q \in Sessions, k \in Keys : Skipped(q, k)' <=> Skipped(q, k)
    BY <1>1 DEF Skipped, RowLockedBy, TypeOK
<1>6. UpsertWrites'
    <2>1. ASSUME NEW q \in Sessions, q # p PROVE UpsertWrote(q)'
        BY <1>1, <2>1, UntouchedUpsert DEF UpsertWrites, TypeOK
    <2>2. ASSUME kind[p] = "upsert" PROVE \A k \in Keys : Pending(p, k)' <=> Pending(p, k)
        BY <1>1, <2>2 DEF Pending, TypeOK
    <2>3. UpsertWrote(p)'
        BY <1>1, <1>5, <2>2 DEF UpsertWrites, UpsertWrote, RowLockedBy, HashLockedBy, KeyOnly
    <2> QED BY <2>1, <2>3 DEF UpsertWrites
<1>7. DeleteWrites'
    BY <1>1 DEF DeleteWrites, RowLockedBy, HashLockedBy, TypeOK, Pending, SeenHash
<1>8. UpsertOrder'
    BY <1>1 DEF UpsertOrder, TypeOK, RowLockedBy
<1>9. SkippedRowsThere' /\ OnlyUndercutUnsound'
    BY <1>1, <1>5, RowsUntouched
<1> QED BY <1>2, <1>3, <1>4, <1>6, <1>7, <1>8, <1>9

(* Moving on to the next chunk preserves the invariant. *)
LEMMA NextChunkIInv ==
    ASSUME IInv, NEW p \in Sessions, NextChunk(p)
    PROVE  IInv'
<1> USE DEF IInv
<1>1. PICK c \in Chunks(todo[p], BatchSize[p]) :
        /\ kind[p] = "upsert" => c \in SortedChunks(todo[p], BatchSize[p])
        /\ chunk' = [chunk EXCEPT ![p] = c]
        /\ left' = [left EXCEPT ![p] =
                {k \in c : kind[p] = "upsert" \/ SeenRow(p, k) # Absent}]
        /\ todo' = [todo EXCEPT ![p] = @ \ c]
    BY DEF NextChunk
<1>2. /\ kind[p] # "idle" /\ table[p] = "hash" /\ left[p] = {}
      /\ table' = [table EXCEPT ![p] = "curated"]
      /\ UNCHANGED <<curated, hashState, contract, kind, rows, cw, hw, undercut>>
    BY DEF NextChunk
<1>3. c \subseteq todo[p]
    BY ChunkSubset
<1>4. TypeOK'
    BY <1>1, <1>2, <1>3 DEF TypeOK, TargetTypeOK
<1>5. LocksExclusive' /\ OnePayload'
    BY <1>2 DEF LocksExclusive, RowLockedBy, HashLockedBy, OnePayload, KeyOnly
<1>6. Progress'
    BY <1>1, <1>2, <1>3 DEF Progress, RowLockedBy, HashLockedBy, TypeOK
<1>7. \A q \in Sessions, k \in Keys : Skipped(q, k)' <=> Skipped(q, k)
    <2>1. \A k \in Keys : Skipped(p, k)' <=> Skipped(p, k)
        BY <1>1, <1>2, <1>3 DEF Skipped, RowLockedBy, TypeOK
    <2>2. \A q \in Sessions \ {p}, k \in Keys : Skipped(q, k)' <=> Skipped(q, k)
        BY <1>1, <1>2 DEF Skipped, RowLockedBy, TypeOK
    <2> QED BY <2>1, <2>2
<1>8. UpsertWrites'
    <2>1. ASSUME NEW q \in Sessions, q # p PROVE UpsertWrote(q)'
        BY <1>1, <1>2, <2>1, UntouchedUpsert DEF UpsertWrites, TypeOK
    <2>2. chunk'[p] = c /\ todo'[p] = todo[p] \ c
        BY <1>1 DEF TypeOK
    <2>3. \A k \in Keys : ~Pending(p, k)
        BY <1>2 DEF Pending
    <2>4. UpsertWrote(p)'
        BY <1>2, <1>3, <1>7, <2>2, <2>3
        DEF UpsertWrites, UpsertWrote, RowLockedBy, HashLockedBy, KeyOnly
    <2> QED BY <2>1, <2>4 DEF UpsertWrites
<1>9. DeleteWrites'
    BY <1>1, <1>2, <1>3 DEF DeleteWrites, RowLockedBy, HashLockedBy, TypeOK, Pending
<1>10. UpsertOrder'
    <2>1. kind[p] = "upsert" => \A i \in c, j \in todo[p] \ c : i < j
        BY <1>1, SortedChunkIsChunk
    <2> QED BY <1>1, <1>2, <1>3, <2>1 DEF UpsertOrder, TypeOK, RowLockedBy
<1>11. SkippedRowsThere' /\ OnlyUndercutUnsound'
    BY <1>2, <1>7, RowsUntouched
<1> QED BY <1>4, <1>5, <1>6, <1>8, <1>9, <1>10, <1>11

(* The end of a transaction, on the parts that do not read the tables. *)
LEMMA EndSession ==
    ASSUME IInv, NEW p \in Sessions, End(p), TargetTypeOK',
           UNCHANGED contract, undercut' \subseteq undercut
    PROVE  TypeOK' /\ LocksExclusive' /\ Progress' /\ UpsertWrites' /\ UpsertOrder'
<1> USE DEF IInv, End
<1>1. TypeOK'
    BY EmptyBatch, NoWritesType DEF TypeOK
<1>2. LocksExclusive'
    BY DEF LocksExclusive, RowLockedBy, HashLockedBy, TypeOK, NoWrites
<1>3. Progress'
    BY DEF Progress, RowLockedBy, HashLockedBy, TypeOK, NoWrites
<1>4. UpsertWrites'
    <2>1. ASSUME NEW q \in Sessions, q # p PROVE UpsertWrote(q)'
        BY <2>1, UntouchedUpsert DEF UpsertWrites, TypeOK
    <2>2. UpsertWrote(p)'
        BY DEF UpsertWrote, TypeOK
    <2> QED BY <2>1, <2>2 DEF UpsertWrites
<1>5. UpsertOrder'
    BY DEF UpsertOrder, RowLockedBy, TypeOK
<1> QED BY <1>1, <1>2, <1>3, <1>4, <1>5

(* What is left of the other sessions, and of nobody's rows, after it. *)
LEMMA OthersGoOn ==
    ASSUME IInv, NEW p \in Sessions, End(p)
    PROVE  /\ \A q \in Sessions \ {p} :
                UNCHANGED <<kind[q], rows[q], todo[q], chunk[q], table[q], left[q],
                            cw[q], hw[q]>>
           /\ kind'[p] = "idle" /\ DOMAIN rows'[p] = {}
           /\ \A k \in Keys : cw'[p][k] = Untouched /\ hw'[p][k] = Untouched
BY DEF IInv, End, TypeOK, NoWrites

(* A rollback preserves the invariant. *)
LEMMA AbortIInv ==
    ASSUME IInv, NEW p \in Sessions, Abort(p)
    PROVE  IInv'
<1>1. End(p) /\ UNCHANGED <<curated, hashState, contract, undercut>>
    BY DEF Abort
<1>2. TargetTypeOK'
    BY <1>1 DEF IInv, TypeOK, TargetTypeOK
<1>3. DeleteWrites' /\ OnlyUndercutUnsound'
    <2>1. OnlyUndercutUnsound'
        BY <1>1 DEF IInv, OnlyUndercutUnsound, KeyOnly
    <2>2. \A q \in Sessions : kind'[q] = "delete" =>
            q # p /\ UNCHANGED <<kind[q], chunk[q], table[q], left[q], cw[q], hw[q]>>
        BY <1>1, OthersGoOn
    <2>3. DeleteWrites'
        BY <1>1, <2>2 DEF IInv, DeleteWrites, RowLockedBy, HashLockedBy, Pending
    <2> QED BY <2>1, <2>3
<1>4. OnePayload'
    <2>1. \A q \in Sessions : DOMAIN rows'[q] = {} \/ rows'[q] = rows[q]
        BY <1>1, OthersGoOn
    <2> QED BY <1>1, <2>1 DEF IInv, OnePayload, KeyOnly
<1>5. SkippedRowsThere'
    BY <1>1, OthersGoOn, UntouchedAssumption DEF IInv, SkippedRowsThere, Skipped, RowLockedBy
<1> QED BY <1>1, <1>2, <1>3, <1>4, <1>5, EndSession DEF IInv

(* What a committing upsert does to a key that is not undercut: it stores  *)
(* the row of its batch, or the row that is there is that row.             *)
LEMMA CommitUpsert ==
    ASSUME IInv, NEW p \in Sessions, Commit(p), kind[p] = "upsert",
           NEW k \in Keys, k \notin undercut'
    PROVE  /\ curated'[k] = IF k \in DOMAIN rows[p] THEN rows[p][k] ELSE curated[k]
           /\ hashState'[k] = IF k \in DOMAIN rows[p] THEN RowHash[rows[p][k]]
                              ELSE hashState[k]
<1> USE DEF IInv
<1>1. /\ table[p] = "hash" /\ left[p] = {} /\ todo[p] = {}
      /\ curated' = [j \in Keys |-> SeenRow(p, j)]
      /\ hashState' = [j \in Keys |-> SeenHash(p, j)]
      /\ undercut' = undercut \ {j \in Keys : cw[p][j] \in Rows}
    BY DEF Commit
<1>2. ~Pending(p, k)
    BY <1>1 DEF Pending
<1>3. CASE RowLockedBy(p, k)
    <2>1. k \in DOMAIN rows[p] /\ cw[p][k] = rows[p][k] /\ HashLockedBy(p, k)
          /\ hw[p][k] = RowHash[rows[p][k]]
        BY <1>2, <1>3 DEF UpsertWrites, UpsertWrote
    <2> QED BY <1>1, <1>3, <2>1 DEF SeenRow, SeenHash, RowLockedBy, HashLockedBy
<1>4. CASE Skipped(p, k)
    <2>1. k \in DOMAIN rows[p] /\ KeyOnly /\ HashLockedBy(p, k)
          /\ hw[p][k] = RowHash[rows[p][k]] /\ ~RowLockedBy(p, k)
        BY <1>2, <1>4 DEF UpsertWrites, UpsertWrote, Skipped
    <2>2. k \notin undercut
        BY <1>1, <2>1, UntouchedAssumption DEF RowLockedBy
    <2>3. curated[k] = NoPayload /\ rows[p][k] = NoPayload
        BY <1>4, <2>1, <2>2 DEF SkippedRowsThere, OnePayload
    <2> QED BY <1>1, <2>1, <2>3 DEF SeenRow, SeenHash, RowLockedBy, HashLockedBy
<1>5. CASE ~RowLockedBy(p, k) /\ ~Skipped(p, k)
    <2>1. k \notin DOMAIN rows[p]
        BY <1>1, <1>5 DEF Skipped
    <2>2. ~HashLockedBy(p, k)
        BY <1>5 DEF UpsertWrites, UpsertWrote
    <2> QED BY <1>1, <1>5, <2>1, <2>2 DEF SeenRow, SeenHash, RowLockedBy, HashLockedBy
<1> QED BY <1>3, <1>4, <1>5

(* What a committing delete does to a key that is not undercut. *)
LEMMA CommitDelete ==
    ASSUME IInv, NEW p \in Sessions, Commit(p), kind[p] = "delete",
           NEW k \in Keys, k \notin undercut'
    PROVE  /\ k \notin undercut
           /\ curated'[k] = IF RowLockedBy(p, k) THEN Absent ELSE curated[k]
           /\ hashState'[k] = IF RowLockedBy(p, k) \/ HashLockedBy(p, k) THEN Absent
                              ELSE hashState[k]
<1> USE DEF IInv
<1>1. /\ table[p] = "hash" /\ left[p] = {}
      /\ curated' = [j \in Keys |-> SeenRow(p, j)]
      /\ hashState' = [j \in Keys |-> SeenHash(p, j)]
      /\ undercut' = undercut \ {j \in Keys : cw[p][j] \in Rows}
    BY DEF Commit
<1>2. ~Pending(p, k)
    BY <1>1 DEF Pending
<1>3. cw[p][k] \in {Absent, Untouched} /\ hw[p][k] \in {Absent, Untouched}
    BY DEF DeleteWrites
<1>4. k \notin undercut
    BY <1>1, <1>3, AbsentAssumption, UntouchedAssumption
<1>5. RowLockedBy(p, k) => hashState[k] = Absent \/ HashLockedBy(p, k)
    BY <1>2, <1>4 DEF DeleteWrites
<1> QED BY <1>1, <1>3, <1>4, <1>5 DEF SeenRow, SeenHash, RowLockedBy, HashLockedBy

(* Where nothing is undercut a commit is one write call. *)
LEMMA CommitIsWriteCall ==
    ASSUME IInv, NEW p \in Sessions, Commit(p)
    PROVE  WriteCallAt(Keys \ undercut')
<1>1. kind[p] \in {"upsert", "delete"} /\ rows[p] \in Batches
    BY DEF Commit, IInv, TypeOK
<1>2. CASE kind[p] = "upsert"
    <2>1. \A k \in Keys \ undercut' :
            /\ curated'[k] = IF k \in DOMAIN rows[p] THEN rows[p][k] ELSE curated[k]
            /\ hashState'[k] = IF k \in DOMAIN rows[p] THEN RowHash[rows[p][k]]
                               ELSE hashState[k]
        BY <1>2, CommitUpsert
    <2> QED BY <1>1, <2>1 DEF WriteCallAt
<1>3. CASE kind[p] = "delete"
    <2> DEFINE C == {k \in Keys : RowLockedBy(p, k)}
               H == {k \in Keys : RowLockedBy(p, k) \/ HashLockedBy(p, k)}
    <2>1. \A k \in Keys \ undercut' :
            /\ curated'[k] = IF k \in C THEN Absent ELSE curated[k]
            /\ hashState'[k] = IF k \in H THEN Absent ELSE hashState[k]
        BY <1>3, CommitDelete
    <2>2. H \in SUBSET Keys /\ C \in SUBSET H
        OBVIOUS
    <2> HIDE DEF C, H
    <2> QED BY <2>1, <2>2 DEF WriteCallAt
<1> QED BY <1>1, <1>2, <1>3

(* A commit preserves the invariant. *)
LEMMA CommitIInv ==
    ASSUME IInv, NEW p \in Sessions, Commit(p)
    PROVE  IInv'
<1> USE DEF IInv
<1>1. /\ End(p) /\ kind[p] \in {"upsert", "delete"} /\ UNCHANGED contract
      /\ curated' = [k \in Keys |-> SeenRow(p, k)]
      /\ hashState' = [k \in Keys |-> SeenHash(p, k)]
      /\ undercut' = undercut \ {k \in Keys : cw[p][k] \in Rows}
    BY DEF Commit, TypeOK
<1>2. TargetTypeOK'
    <2>1. \A k \in Keys :
            SeenRow(p, k) \in Rows \cup {Absent} /\ SeenHash(p, k) \in Hashes \cup {Absent}
        <3>1. /\ \A k \in Keys : cw[p][k] \in Rows \cup {Absent, Untouched}
              /\ \A k \in Keys : hw[p][k] \in Hashes \cup {Absent, Untouched}
              /\ \A k \in Keys : curated[k] \in Rows \cup {Absent}
              /\ \A k \in Keys : hashState[k] \in Hashes \cup {Absent}
            BY DEF TypeOK, TargetTypeOK
        <3> QED BY <3>1 DEF SeenRow, SeenHash
    <2> QED BY <1>1, <2>1 DEF TargetTypeOK
<1>3. OnlyUndercutUnsound'
    <2>1. undercut' # {} => KeyOnly'
        BY <1>1 DEF OnlyUndercutUnsound, KeyOnly
    <2>2. SUFFICES ASSUME NEW k \in Keys, k \notin undercut', hashState'[k] # Absent
                   PROVE  curated'[k] # Absent /\ hashState'[k] = RowHash[curated'[k]]
        BY <2>1 DEF OnlyUndercutUnsound
    <2>3. CASE kind[p] = "upsert" /\ k \in DOMAIN rows[p]
        <3>1. curated'[k] = rows[p][k] /\ hashState'[k] = RowHash[rows[p][k]]
            BY <2>2, <2>3, CommitUpsert
        <3>2. rows[p][k] \in Rows
            BY <2>3, BatchRow DEF TypeOK
        <3> QED BY <3>1, <3>2, AbsentAssumption
    <2>4. CASE kind[p] = "upsert" /\ k \notin DOMAIN rows[p]
        <3>1. curated'[k] = curated[k] /\ hashState'[k] = hashState[k]
            BY <2>2, <2>4, CommitUpsert
        <3>2. k \notin undercut
            BY <1>1, <2>2, <2>4, UntouchedAssumption DEF UpsertWrites, UpsertWrote, RowLockedBy
        <3> QED BY <2>2, <3>1, <3>2 DEF OnlyUndercutUnsound
    <2>5. CASE kind[p] = "delete"
        BY <2>2, <2>5, CommitDelete DEF OnlyUndercutUnsound
    <2> QED BY <1>1, <2>3, <2>4, <2>5
<1>4. OnePayload'
    <2>1. \A k \in Keys : KeyOnly => SeenRow(p, k) \in {Absent, NoPayload}
        <3> SUFFICES ASSUME NEW k \in Keys, KeyOnly PROVE SeenRow(p, k) \in {Absent, NoPayload}
            OBVIOUS
        <3>1. RowLockedBy(p, k) => cw[p][k] \in {Absent, NoPayload}
            BY <1>1 DEF UpsertWrites, UpsertWrote, DeleteWrites, OnePayload, RowLockedBy
        <3> QED BY <3>1 DEF SeenRow, RowLockedBy, OnePayload
    <2>2. \A q \in Sessions : DOMAIN rows'[q] = {} \/ rows'[q] = rows[q]
        BY <1>1, OthersGoOn
    <2> QED BY <1>1, <2>1, <2>2 DEF OnePayload, KeyOnly
<1>5. SkippedRowsThere'
    <2> SUFFICES ASSUME NEW q \in Sessions, NEW k \in Keys, k \notin undercut', Skipped(q, k)'
                 PROVE  curated'[k] # Absent /\ \A s \in Sessions : cw'[s][k] # Absent
        BY DEF SkippedRowsThere
    <2>1. q # p /\ Skipped(q, k)
        BY <1>1, OthersGoOn DEF Skipped, RowLockedBy
    <2>2. CASE k \in undercut
        <3>1. cw[p][k] \in Rows
            BY <1>1, <2>2
        <3>2. RowLockedBy(p, k) /\ curated'[k] = cw[p][k]
            BY <1>1, <3>1, UntouchedAssumption DEF SeenRow, RowLockedBy
        <3>3. \A s \in Sessions \ {p} : cw[s][k] = Untouched
            BY <3>2 DEF LocksExclusive, RowLockedBy
        <3>4. \A s \in Sessions : cw'[s][k] = Untouched
            BY <1>1, <3>3, OthersGoOn
        <3> QED BY <3>1, <3>2, <3>4, AbsentAssumption, UntouchedAssumption
    <2>3. CASE k \notin undercut
        <3>1. curated[k] # Absent /\ \A s \in Sessions : cw[s][k] # Absent
            BY <2>1, <2>3 DEF SkippedRowsThere
        <3>2. curated'[k] # Absent
            BY <1>1, <3>1 DEF SeenRow
        <3>3. \A s \in Sessions : cw'[s][k] \in {cw[s][k], Untouched}
            BY <1>1, OthersGoOn
        <3> QED BY <3>1, <3>2, <3>3, UntouchedAssumption
    <2> QED BY <2>2, <2>3
<1>6. DeleteWrites'
    \* A row another session is deleting is locked, or it is undercut: p cannot
    \* bring its hash back.
    <2> SUFFICES ASSUME NEW q \in Sessions, kind'[q] = "delete", NEW k \in Keys
                 PROVE  /\ cw'[q][k] \in {Absent, Untouched}
                        /\ hw'[q][k] \in {Absent, Untouched}
                        /\ RowLockedBy(q, k)' /\ k \notin undercut' =>
                             hashState'[k] = Absent \/ HashLockedBy(q, k)' \/ Pending(q, k)'
        BY DEF DeleteWrites
    <2>1. /\ q # p /\ kind[q] = "delete"
          /\ UNCHANGED <<cw[q], hw[q], chunk[q], table[q], left[q]>>
        BY <1>1, OthersGoOn
    <2>2. cw[q][k] \in {Absent, Untouched} /\ hw[q][k] \in {Absent, Untouched}
        BY <2>1 DEF DeleteWrites
    <2>3. ASSUME RowLockedBy(q, k), k \notin undercut'
          PROVE  SeenHash(p, k) \in {Absent, hashState[k]} /\ k \notin undercut
        <3>1. ~RowLockedBy(p, k) /\ cw[q][k] = Absent
            BY <2>1, <2>2, <2>3 DEF LocksExclusive, RowLockedBy
        <3>2. k \notin undercut
            BY <1>1, <2>3, <3>1, UntouchedAssumption DEF RowLockedBy
        <3>3. ~Skipped(p, k)
            BY <3>1, <3>2 DEF SkippedRowsThere
        <3>4. kind[p] = "upsert" => ~HashLockedBy(p, k)
            BY <3>1, <3>3 DEF UpsertWrites, UpsertWrote
        <3>5. kind[p] = "delete" => hw[p][k] \in {Absent, Untouched}
            BY DEF DeleteWrites
        <3> QED BY <1>1, <3>2, <3>4, <3>5 DEF SeenHash, HashLockedBy
    <2> QED BY <1>1, <2>1, <2>2, <2>3 DEF DeleteWrites, RowLockedBy, HashLockedBy, Pending
<1> QED BY <1>1, <1>2, <1>3, <1>4, <1>5, <1>6, EndSession
-----------------------------------------------------------------------------
(* The invariant is inductive. *)
LEMMA StepIInv == IInv /\ [Next]_vars => IInv'
<1> SUFFICES ASSUME IInv, [Next]_vars PROVE IInv'
    OBVIOUS
<1>1. CASE Next
    BY <1>1, BeginUpsertIInv, BeginDeleteIInv, UpsertRowIInv, DeleteRowIInv,
        HashStatementIInv, NextChunkIInv, CommitIInv, AbortIInv DEF Next
<1>2. CASE UNCHANGED vars
    <2> USE <1>2 DEF vars, IInv
    <2>1. TypeOK'
        BY DEF TypeOK, TargetTypeOK
    <2>2. LocksExclusive' /\ Progress'
        BY DEF LocksExclusive, Progress, RowLockedBy, HashLockedBy
    <2>3. UpsertWrites'
        BY UntouchedUpsert DEF UpsertWrites
    <2>4. UpsertOrder' /\ DeleteWrites'
        BY DEF UpsertOrder, DeleteWrites, RowLockedBy, HashLockedBy, Pending
    <2>5. OnePayload'
        BY DEF OnePayload, KeyOnly
    <2>6. SkippedRowsThere' /\ OnlyUndercutUnsound'
        BY RowsUntouched DEF Skipped, RowLockedBy
    <2> QED BY <2>1, <2>3, <2>4, <2>5, <2>6, <2>2
<1> QED BY <1>1, <1>2

(* The inductive invariant holds in every reachable state. *)
THEOREM SpecIInv == Spec => []IInv
BY InitIInv, StepIInv, PTL DEF Spec

(* Every variable of the target's sessions keeps its type. *)
THEOREM SpecTypeOK == Spec => []TypeOK
<1>1. IInv => TypeOK
    BY DEF IInv
<1> QED BY SpecIInv, <1>1, PTL

(***************************************************************************)
(* Whatever the sessions do, a recorded hash is the hash of the curated    *)
(* row: the chunk's curated statement before its hash statement, in upsert *)
(* and delete alike (target.py:113-131 and 150-158).  The one exception is *)
(* a row deleted under an upsert that did nothing about it.                *)
(***************************************************************************)
THEOREM SpecOnlyUndercutUnsound == Spec => []OnlyUndercutUnsound
<1>1. IInv => OnlyUndercutUnsound
    BY DEF IInv
<1> QED BY SpecIInv, <1>1, PTL

(* The contract is what it was: with a field outside the key nothing is *)
(* ever undercut.                                                       *)
LEMMA ContractStays == [Next]_vars => UNCHANGED contract
BY DEF Next, vars, BeginUpsert, BeginDelete, UpsertRow, DeleteRow, HashStatement,
    NextChunk, Commit, Abort

(***************************************************************************)
(* With a field outside the key there is no exception: what classify_      *)
(* changes skips as recorded is there.                                     *)
(***************************************************************************)
THEOREM SpecHashStateSound == Spec /\ ~KeyOnly => []HashStateSound
<1>1. ~KeyOnly /\ [Next]_vars => ~KeyOnly'
    BY ContractStays DEF KeyOnly
<1>2. ~KeyOnly /\ OnlyUndercutUnsound => HashStateSound
    BY DEF OnlyUndercutUnsound, HashStateSound
<1> QED BY SpecOnlyUndercutUnsound, <1>1, <1>2, PTL DEF Spec
-----------------------------------------------------------------------------
(***************************************************************************)
(* A session that others wait for can itself only be waiting for a larger  *)
(* key: along a chain of upserts that wait for each other the keys ascend. *)
(***************************************************************************)
WaitsAscend ==
    ~KeyOnly =>
        \A p, q, r \in Sessions :
            (Awaits(p, q) /\ Awaits(q, r) /\ kind[r] = "upsert") =>
                \E i, j \in Keys : IsNextKey(p, i) /\ IsNextKey(q, j) /\ i < j

(* The inductive invariant implies the order of waiting. *)
LEMMA IInvWaitsAscend == IInv => WaitsAscend
<1> SUFFICES ASSUME IInv, ~KeyOnly,
                    NEW p \in Sessions, NEW q \in Sessions, NEW r \in Sessions,
                    Awaits(p, q), Awaits(q, r), kind[r] = "upsert"
             PROVE  \E i, j \in Keys : IsNextKey(p, i) /\ IsNextKey(q, j) /\ i < j
    BY DEF WaitsAscend
<1> USE DEF IInv
<1>1. PICK i \in Keys :
        /\ IsNextKey(p, i)
        /\ \/ table[p] = "curated" /\ RowLockedBy(q, i)
           \/ table[p] = "hash" /\ HashLockedBy(q, i)
    BY DEF Awaits
<1>2. PICK j \in Keys :
        /\ IsNextKey(q, j)
        /\ \/ table[q] = "curated" /\ RowLockedBy(r, j)
           \/ table[q] = "hash" /\ HashLockedBy(r, j)
    BY DEF Awaits
<1>3. p # q /\ q # r /\ kind[p] = "upsert" /\ kind[q] = "upsert"
    BY DEF Awaits
<1>4. i \in left[p] /\ i \in chunk[p] /\ j \in left[q] /\ j \in chunk[q]
    BY <1>1, <1>2 DEF IsNextKey, Progress
<1>5. \* Without DO NOTHING, what an upsert has been to it has written.
      \A s \in Sessions, k \in Keys : kind[s] = "upsert" =>
        /\ HashLockedBy(s, k) => RowLockedBy(s, k)
        /\ table[s] = "hash" /\ k \in chunk[s] => RowLockedBy(s, k)
    BY DEF UpsertWrites, UpsertWrote, Progress, Skipped
<1>6. table[p] = "curated"
    BY <1>1, <1>3, <1>4, <1>5 DEF TypeOK, LocksExclusive
<1>7. table[q] = "curated"
    BY <1>2, <1>3, <1>4, <1>5 DEF TypeOK, LocksExclusive
<1>8. i < j
    BY <1>1, <1>3, <1>4, <1>6, <1>7 DEF UpsertOrder
<1> QED BY <1>1, <1>2, <1>8

(* Concurrent upserts wait for each other in increasing key order. *)
THEOREM SpecWaitsAscend == Spec => []WaitsAscend
BY SpecIInv, IInvWaitsAscend, PTL

(***************************************************************************)
(* No circle of upserts: of a set of upserting sessions, take the one that *)
(* waits for the largest key.  If it waited for a session of the set that  *)
(* waits too, that one would wait for a larger key still.                  *)
(***************************************************************************)
LEMMA IInvUpsertsNeverDeadlock == IInv => UpsertsNeverDeadlock
<1> SUFFICES ASSUME IInv, ~KeyOnly,
                    NEW S \in SUBSET {p \in Sessions : kind[p] = "upsert"}, S # {},
                    \A p \in S : \E q \in S : Awaits(p, q)
             PROVE  FALSE
    BY DEF UpsertsNeverDeadlock
<1> DEFINE key == [p \in S |-> CHOOSE k \in Keys : IsNextKey(p, k)]
<1>1. \A p \in S : key[p] \in Keys /\ key[p] \in Int
    <2> SUFFICES ASSUME NEW p \in S PROVE key[p] \in Keys
        BY KeysAssumption
    <2>1. \E k \in Keys : IsNextKey(p, k)
        BY DEF Awaits
    <2>2. (CHOOSE k \in Keys : IsNextKey(p, k)) \in Keys
        BY <2>1, Zenon
    <2> QED BY <2>2
<1>2. \A p \in S, k \in Keys : IsNextKey(p, k) => k = key[p]
    <2> SUFFICES ASSUME NEW p \in S, NEW k \in Keys, IsNextKey(p, k)
                 PROVE  k = key[p]
        OBVIOUS
    <2>1. IsNextKey(p, key[p])
        <3>1. IsNextKey(p, CHOOSE j \in Keys : IsNextKey(p, j))
            BY Zenon
        <3> QED BY <3>1
    <2>2. k \in left[p] /\ key[p] \in left[p] /\ k <= key[p] /\ key[p] <= k
        BY <2>1 DEF IsNextKey
    <2>3. key[p] \in Int /\ k \in Int
        BY <1>1, KeysAssumption
    <2> HIDE DEF key
    <2> QED BY <2>2, <2>3
<1>3. \A p, q \in S : Awaits(p, q) => key[p] < key[q]
    <2> SUFFICES ASSUME NEW p \in S, NEW q \in S, Awaits(p, q)
                 PROVE  key[p] < key[q]
        OBVIOUS
    <2>1. PICK r \in S : Awaits(q, r)
        OBVIOUS
    <2>2. \E i, j \in Keys : IsNextKey(p, i) /\ IsNextKey(q, j) /\ i < j
        BY <2>1, IInvWaitsAscend DEF WaitsAscend
    <2> QED BY <1>2, <2>2
<1>4. \E p \in S : \A q \in S : key[q] <= key[p]
    <2>1. IsFiniteSet(S)
        BY SessionsAssumption, FS_Subset
    <2>2. key \in [S -> Int]
        BY <1>1
    <2> HIDE DEF key
    <2> QED BY <2>1, <2>2, LargestExists
<1> HIDE DEF key
<1> QED BY <1>1, <1>3, <1>4

(***************************************************************************)
(* The sort of target.py:104 rules out deadlocks among upserts that update *)
(* the rows they find, for any number of sessions, keys and chunks.        *)
(***************************************************************************)
THEOREM SpecUpsertsNeverDeadlock == Spec => []UpsertsNeverDeadlock
BY SpecIInv, IInvUpsertsNeverDeadlock, PTL

(* A step of a session is a write call, where nothing is undercut, or none. *)
LEMMA StepIsWriteCall == IInv /\ [Next]_vars => [WriteCallAt(Keys \ undercut')]_targetVars
<1> SUFFICES ASSUME IInv, [Next]_vars PROVE [WriteCallAt(Keys \ undercut')]_targetVars
    OBVIOUS
<1>1. ASSUME NEW p \in Sessions, Commit(p) PROVE WriteCallAt(Keys \ undercut')
    BY <1>1, CommitIsWriteCall
<1>2. ASSUME NEW p \in Sessions,
             \/ BeginUpsert(p) \/ BeginDelete(p) \/ UpsertRow(p) \/ DeleteRow(p)
             \/ HashStatement(p) \/ NextChunk(p) \/ Abort(p)
      PROVE  UNCHANGED targetVars
    BY <1>2 DEF BeginUpsert, BeginDelete, UpsertRow, DeleteRow, HashStatement,
        NextChunk, Abort, targetVars
<1>3. ASSUME UNCHANGED vars PROVE UNCHANGED targetVars
    BY <1>3 DEF vars, targetVars
<1> QED BY <1>1, <1>2, <1>3 DEF Next

(***************************************************************************)
(* Row by row, chunk by chunk and in any interleaving, what the sessions   *)
(* commit is one write call on both tables at each key that is not         *)
(* undercut, for any number of sessions and keys.                          *)
(***************************************************************************)
THEOREM SpecAtomicButUndercut == Spec => AtomicButUndercut
<1>1. Init => TargetInit
    BY DEF Init
<1> QED BY SpecIInv, <1>1, StepIsWriteCall, PTL DEF Spec, AtomicButUndercut

(* On well-typed tables a write call at all keys is one of AtomicTarget. *)
LEMMA WriteCallAtAllKeys ==
    ASSUME TargetTypeOK, TargetTypeOK', WriteCallAt(Keys)
    PROVE  TargetNext
<1>1. /\ curated' = [k \in Keys |-> curated'[k]]
      /\ hashState' = [k \in Keys |-> hashState'[k]]
    BY DEF TargetTypeOK
<1>2. CASE \E batch \in Batches : \A k \in Keys :
            /\ curated'[k] = IF k \in DOMAIN batch THEN batch[k] ELSE curated[k]
            /\ hashState'[k] = IF k \in DOMAIN batch THEN RowHash[batch[k]] ELSE hashState[k]
    BY <1>1, <1>2 DEF TargetNext, Upsert
<1>3. CASE \E H \in SUBSET Keys : \E C \in SUBSET H : \A k \in Keys :
            /\ curated'[k] = IF k \in C THEN Absent ELSE curated[k]
            /\ hashState'[k] = IF k \in H THEN Absent ELSE hashState[k]
    <2>1. PICK H \in SUBSET Keys : \E C \in SUBSET H : \A k \in Keys :
            /\ curated'[k] = IF k \in C THEN Absent ELSE curated[k]
            /\ hashState'[k] = IF k \in H THEN Absent ELSE hashState[k]
        BY <1>3
    <2>2. PICK C \in SUBSET H : \A k \in Keys :
            /\ curated'[k] = IF k \in C THEN Absent ELSE curated[k]
            /\ hashState'[k] = IF k \in H THEN Absent ELSE hashState[k]
        BY <2>1
    <2>3. Delete(C, H)
        BY <1>1, <2>2 DEF Delete
    <2> QED BY <2>3 DEF TargetNext
<1> QED BY <1>2, <1>3 DEF WriteCallAt

(***************************************************************************)
(* With a contract that has a field outside its key the sessions implement *)
(* AtomicTarget: write calls that take effect at once on both tables.      *)
(***************************************************************************)
THEOREM SpecRefinesAtomicTarget == Spec /\ ~KeyOnly => TargetSpec
<1>1. ~KeyOnly /\ [Next]_vars => ~KeyOnly'
    BY ContractStays DEF KeyOnly
<1>2. Init => TargetInit
    BY DEF Init
<1>3. IInv /\ IInv' /\ ~KeyOnly' /\ [Next]_vars => [TargetNext]_targetVars
    <2> SUFFICES ASSUME IInv, IInv', ~KeyOnly', [Next]_vars PROVE [TargetNext]_targetVars
        OBVIOUS
    <2>1. TargetTypeOK /\ TargetTypeOK' /\ Keys \ undercut' = Keys
        BY DEF IInv, TypeOK, OnlyUndercutUnsound
    <2>2. [WriteCallAt(Keys)]_targetVars
        <3>1. [WriteCallAt(Keys \ undercut')]_targetVars
            BY StepIsWriteCall
        <3> QED BY <2>1, <3>1
    <2> QED BY <2>1, <2>2, WriteCallAtAllKeys
<1> QED BY SpecIInv, <1>1, <1>2, <1>3, PTL DEF Spec, TargetSpec
=============================================================================
