--------------------------- MODULE HashDiffProofs ---------------------------
(***************************************************************************)
(* Proofs about HashDiff: any number of overlapping runs, keys and rows,   *)
(* any batch size and any number of changes, failures and replays.         *)
(*                                                                         *)
(* A merge skips a row whose hash is recorded, so what it leaves behind is *)
(* its snapshot only if no two rows have one hash: that hypothesis,        *)
(* NoCollisions, is stated by every result that needs it.                  *)
(***************************************************************************)
EXTENDS HashDiff, AtomicTargetProofs

MergePhases == {"merging", "batch read", "deleting"}

(* Where a merge is: the keys staged and the keys unread are those of the  *)
(* snapshot, and the batch holds rows of it.                               *)
Scanned ==
    \A p \in Runs :
        /\ DOMAIN batch[p] \subseteq staged[p]
        /\ \A k \in DOMAIN batch[p] : batch[p][k] = snapshot[p][k]
        /\ phase[p] # "batch read" => DOMAIN batch[p] = {}
        /\ phase[p] \in MergePhases =>
              staged[p] \cup unread[p] = DOMAIN snapshot[p] /\ staged[p] \cap unread[p] = {}
        /\ phase[p] = "deleting" => unread[p] = {} /\ raced[p] \subseteq touched[p]

(* A staged row is in the curated table or in the batch to be written. *)
StagedRowsWritten ==
    \A p \in Runs : phase[p] \in MergePhases =>
        \A k \in staged[p] \ touched[p] :
            curated[k] = snapshot[p][k] \/ k \in DOMAIN batch[p]

(* Every key is as some run leaves it, or that run has still to say. *)
SomeoneLeavesIt ==
    \A k \in Keys : \E p \in Runs : k \notin touched[p] \/ curated[k] = Merged(p, k)

(* Equal hashes are equal rows: then a merge is what its snapshot says. *)
Exact == NoCollisions => StagedRowsWritten /\ MergeIsExact

IInv ==
    /\ TypeOK
    /\ HashStateSound
    /\ Scanned
    /\ SomeoneLeavesIt
    /\ Exact
-----------------------------------------------------------------------------
(* A snapshot is a set of valid rows by key. *)
LEMMA RowsOfIsBatch ==
    ASSUME NEW table \in [Keys -> Rows \cup {Invalid, Absent}], IsValid(table)
    PROVE  RowsOf(table) \in Batches
<1> DEFINE K == {k \in Keys : table[k] # Absent}
<1>1. [k \in K |-> table[k]] \in [K -> Rows]
    BY DEF IsValid
<1> QED BY <1>1 DEF RowsOf, Batches

(* Part of a batch is a batch. *)
LEMMA PartIsBatch ==
    ASSUME NEW rows \in Batches, NEW K, K \subseteq DOMAIN rows
    PROVE  [k \in K |-> rows[k]] \in Batches
<1>1. [k \in K |-> rows[k]] \in [K -> Rows]
    BY BatchRow
<1> QED BY <1>1, BatchRow DEF Batches

(* Which runs a write is noted at. *)
LEMMA TouchEffect ==
    ASSUME NEW p \in Runs, NEW K \in SUBSET Keys, TypeOK, Touch(p, K)
    PROVE  /\ touched' \in [Runs -> SUBSET Keys]
           /\ touched'[p] = touched[p]
           /\ \A q \in Runs : touched[q] \subseteq touched'[q] /\ touched'[q] \subseteq touched[q] \cup K
           /\ \A q \in Runs \ {p} : phase[q] \notin {"idle", "landed"} => K \subseteq touched'[q]
BY DEF Touch, TypeOK

(* The invariant holds before the first run. *)
LEMMA InitIInv == Init => IInv
<1> SUFFICES ASSUME Init PROVE IInv
    OBVIOUS
<1> USE DEF Init
<1>1. TypeOK
    BY EmptyBatch, TargetInitSound, BoundsAssumption DEF TypeOK, NoRows, Phases
<1>2. HashStateSound /\ Scanned /\ Exact
    BY TargetInitSound DEF Scanned, Exact, StagedRowsWritten, MergeIsExact, NoRows, MergePhases
<1>3. SomeoneLeavesIt
    BY RunsAssumption DEF SomeoneLeavesIt
<1> QED BY <1>1, <1>2, <1>3 DEF IInv
-----------------------------------------------------------------------------
(* A change of the source leaves every run alone. *)
LEMMA SourceChangeIInv ==
    ASSUME IInv, SourceChange
    PROVE  IInv'
<1> USE DEF IInv, SourceChange, targetVars, runVars
<1>1. TypeOK'
    BY BoundsAssumption DEF TypeOK, TargetTypeOK
<1>2. HashStateSound' /\ Scanned' /\ Exact' /\ SomeoneLeavesIt'
    BY DEF HashStateSound, Scanned, Exact, StagedRowsWritten, MergeIsExact, SomeoneLeavesIt, Merged
<1> QED BY <1>1, <1>2

(* A run that is given a snapshot, new or stored, has not begun. *)
LEMMA LandedIInv ==
    ASSUME IInv, NEW p \in Runs, NEW rows \in Batches,
           phase[p] \in {"idle", "done"},
           Goto(p, "landed"),
           snapshot' = [snapshot EXCEPT ![p] = rows],
           touched' = [touched EXCEPT ![p] = {}],
           UNCHANGED <<targetVars, unread, batch, staged, raced>>
    PROVE  /\ phase' \in [Runs -> Phases] /\ snapshot' \in [Runs -> Batches]
           /\ touched' \in [Runs -> SUBSET Keys]
           /\ HashStateSound' /\ Scanned' /\ Exact' /\ SomeoneLeavesIt'
<1> USE DEF IInv, TypeOK, targetVars, Goto
<1>1. /\ phase' \in [Runs -> Phases] /\ snapshot' \in [Runs -> Batches]
      /\ touched' \in [Runs -> SUBSET Keys]
    BY DEF Phases
<1>2. HashStateSound'
    BY DEF HashStateSound
<1>3. Scanned'
    BY DEF Scanned, MergePhases
<1>4. Exact' /\ SomeoneLeavesIt'
    BY DEF Exact, StagedRowsWritten, MergeIsExact, SomeoneLeavesIt, MergePhases, Merged
<1> QED BY <1>1, <1>2, <1>3, <1>4

(* extract_validate_land_snapshot lands a snapshot of the source. *)
LEMMA ExtractAndLandIInv ==
    ASSUME IInv, NEW p \in Runs, ExtractAndLand(p)
    PROVE  IInv'
<1>1. RowsOf(source) \in Batches
    BY RowsOfIsBatch DEF IInv, TypeOK, ExtractAndLand
<1> QED BY <1>1, LandedIInv
        DEF IInv, ExtractAndLand, TypeOK, TargetTypeOK, targetVars, limits

(* A replay takes a snapshot that was stored. *)
LEMMA ReplayIInv ==
    ASSUME IInv, NEW p \in Runs, Replay(p)
    PROVE  IInv'
<1>1. PICK rows \in stored : snapshot' = [snapshot EXCEPT ![p] = rows]
    BY DEF Replay
<1>2. rows \in Batches
    BY DEF IInv, TypeOK
<1>3. replays' \in 0..MaxReplays
    BY BoundsAssumption DEF Replay, IInv, TypeOK
<1> QED BY <1>1, <1>2, <1>3, LandedIInv
        DEF IInv, Replay, TypeOK, TargetTypeOK, targetVars
-----------------------------------------------------------------------------
(* A merge begins with every key unread and none staged. *)
LEMMA StartMergeIInv ==
    ASSUME IInv, NEW p \in Runs, StartMerge(p)
    PROVE  IInv'
<1> USE DEF IInv, StartMerge, targetVars, limits, Goto
<1>1. TypeOK'
    BY EmptyBatch, BatchRow DEF TypeOK, TargetTypeOK, Phases, NoRows
<1>2. HashStateSound'
    BY DEF HashStateSound
<1>3. Scanned'
    BY DEF Scanned, TypeOK, MergePhases, NoRows
<1>4. Exact' /\ SomeoneLeavesIt'
    BY DEF Exact, StagedRowsWritten, MergeIsExact, SomeoneLeavesIt, TypeOK, MergePhases, Merged
<1> QED BY <1>1, <1>2, <1>3, <1>4

(* A row of the batch read is in the curated table already, or is written. *)
LEMMA ReadBatchIInv ==
    ASSUME IInv, NEW p \in Runs, ReadBatch(p)
    PROVE  IInv'
<1> USE DEF IInv
<1>1. PICK c \in NextBatches(unread[p]) :
        /\ unread' = [unread EXCEPT ![p] = @ \ c]
        /\ staged' = [staged EXCEPT ![p] = @ \cup c]
        /\ batch' = [batch EXCEPT ![p] =
                [k \in Unrecorded(snapshot[p], c) |-> snapshot[p][k]]]
    BY DEF ReadBatch
<1>2. /\ phase[p] = "merging" /\ phase' = [phase EXCEPT ![p] = "batch read"]
      /\ UNCHANGED <<curated, hashState, source, stored, snapshot, touched, raced,
                     changes, faults, replays>>
    BY DEF ReadBatch, Goto, targetVars, limits
<1>3. c \subseteq unread[p] /\ c \subseteq DOMAIN snapshot[p] /\ c \subseteq Keys
    BY <1>2, BatchRow DEF NextBatches, Scanned, MergePhases, TypeOK
<1>4. Unrecorded(snapshot[p], c) \subseteq c
    BY DEF Unrecorded
<1>5. TypeOK'
    <2>1. [k \in Unrecorded(snapshot[p], c) |-> snapshot[p][k]] \in Batches
        BY <1>3, <1>4, PartIsBatch DEF TypeOK
    <2> QED BY <1>1, <1>2, <1>3, <2>1 DEF TypeOK, TargetTypeOK, Phases
<1>6. HashStateSound'
    BY <1>2 DEF HashStateSound
<1>7. Scanned'
    BY <1>1, <1>2, <1>3, <1>4 DEF Scanned, TypeOK, MergePhases
<1>8. NoCollisions => StagedRowsWritten'
    <2> SUFFICES ASSUME NoCollisions PROVE StagedRowsWritten'
        OBVIOUS
    <2>1. \A k \in c : curated[k] = snapshot[p][k] \/ k \in Unrecorded(snapshot[p], c)
        BY <1>3, BatchRow, RecordedRowIsThere DEF Unrecorded, TypeOK
    <2>2. DOMAIN batch[p] = {}
        BY <1>2 DEF Scanned
    <2> QED BY <1>1, <1>2, <2>1, <2>2 DEF Exact, StagedRowsWritten, TypeOK, MergePhases
<1>9. Exact' /\ SomeoneLeavesIt'
    BY <1>2, <1>8 DEF Exact, MergeIsExact, SomeoneLeavesIt, TypeOK, Merged
<1> QED BY <1>5, <1>6, <1>7, <1>8, <1>9

(* Writing a batch makes its keys those of this run. *)
LEMMA WriteBatchIInv ==
    ASSUME IInv, NEW p \in Runs, WriteBatch(p)
    PROVE  IInv'
<1> DEFINE K == DOMAIN batch[p]
<1> USE DEF IInv
<1>1. /\ phase[p] = "batch read" /\ phase' = [phase EXCEPT ![p] = "merging"]
      /\ batch' = [batch EXCEPT ![p] = NoRows]
      /\ Upsert(batch[p]) /\ Touch(p, K)
      /\ UNCHANGED <<source, stored, snapshot, unread, staged, changes, faults, replays>>
    BY DEF WriteBatch, Goto, limits
<1>2. batch[p] \in Batches /\ K \in SUBSET Keys
    BY BatchRow DEF TypeOK
<1>3. /\ raced' \in [Runs -> SUBSET Keys]
      /\ raced' = [q \in Runs |->
            IF phase[q] = "deleting" THEN raced[q] \cup K ELSE raced[q]]
    BY <1>2 DEF WriteBatch, TypeOK
<1>4. /\ touched' \in [Runs -> SUBSET Keys]
      /\ touched'[p] = touched[p]
      /\ \A q \in Runs : touched[q] \subseteq touched'[q]
                         /\ touched'[q] \subseteq touched[q] \cup K
      /\ \A q \in Runs \ {p} : phase[q] \notin {"idle", "landed"} => K \subseteq touched'[q]
    BY <1>1, <1>2, TouchEffect
<1>5. /\ \A k \in K : curated'[k] = snapshot[p][k] /\ k \in DOMAIN snapshot[p]
      /\ \A k \in Keys \ K : curated'[k] = curated[k]
    BY <1>1, <1>2 DEF Upsert, Scanned, MergePhases
<1>6. TargetTypeOK' /\ HashStateSound'
    BY <1>1, <1>2, UpsertSound DEF TypeOK
<1>7. TypeOK'
    BY <1>1, <1>3, <1>4, <1>6, EmptyBatch DEF TypeOK, Phases, NoRows
<1>8. Scanned'
    BY <1>1, <1>3, <1>4 DEF Scanned, TypeOK, MergePhases, NoRows
<1>9. NoCollisions => StagedRowsWritten'
    BY <1>1, <1>2, <1>4, <1>5 DEF Exact, StagedRowsWritten, TypeOK, MergePhases
<1>10. Exact'
    BY <1>1, <1>4, <1>5, <1>9 DEF Exact, MergeIsExact, TypeOK, Merged
<1>11. SomeoneLeavesIt'
    BY <1>1, <1>4, <1>5 DEF SomeoneLeavesIt, Merged
<1> QED BY <1>6, <1>7, <1>8, <1>9, <1>10, <1>11

(* The delete begins when every key is staged. *)
LEMMA StartDeleteIInv ==
    ASSUME IInv, NEW p \in Runs, StartDelete(p)
    PROVE  IInv'
<1> USE DEF IInv, StartDelete, targetVars, limits, Goto
<1>1. TypeOK'
    BY DEF TypeOK, TargetTypeOK, Phases
<1>2. HashStateSound'
    BY DEF HashStateSound
<1>3. Scanned'
    BY DEF Scanned, TypeOK, MergePhases
<1>4. Exact' /\ SomeoneLeavesIt'
    BY DEF Exact, StagedRowsWritten, MergeIsExact, SomeoneLeavesIt, TypeOK, MergePhases, Merged
<1> QED BY <1>1, <1>2, <1>3, <1>4

(* What the delete does: a key that is not in the snapshot is left without *)
(* a row, unless another run upserted it after the delete began.           *)
LEMMA DeleteMissingEffect ==
    ASSUME IInv, NEW p \in Runs, DeleteMissing(p)
    PROVE  \E K \in SUBSET Keys :
            /\ Touch(p, K)
            /\ K \cap DOMAIN snapshot[p] = {}
            /\ \A k \in Keys \ K : k \in DOMAIN snapshot[p] \/ k \in touched[p]
            /\ \A k \in K : curated'[k] = Absent
            /\ \A k \in Keys \ K : curated'[k] = curated[k]
            /\ TargetTypeOK' /\ HashStateSound'
<1> USE DEF IInv
<1>1. phase[p] = "deleting"
    BY DEF DeleteMissing
<1>2. staged[p] = DOMAIN snapshot[p] /\ raced[p] \subseteq touched[p]
    BY <1>1 DEF Scanned, MergePhases
<1>3. PICK missed \in SUBSET ((Keys \ staged[p]) \cap raced[p]) : \E kept \in SUBSET missed :
        /\ Delete((Keys \ staged[p]) \ missed, (Keys \ staged[p]) \ kept)
        /\ Touch(p, (Keys \ staged[p]) \ missed)
    BY DEF DeleteMissing
<1> DEFINE K == (Keys \ staged[p]) \ missed
<1>4. TargetTypeOK' /\ HashStateSound'
    BY <1>3, DeleteSound DEF TypeOK
<1>5. /\ \A k \in K : curated'[k] = Absent
      /\ \A k \in Keys \ K : curated'[k] = curated[k]
    BY <1>3 DEF Delete
<1> QED BY <1>2, <1>3, <1>4, <1>5

(* After the delete the merge is exact. *)
LEMMA DeleteMissingIInv ==
    ASSUME IInv, NEW p \in Runs, DeleteMissing(p)
    PROVE  IInv'
<1> USE DEF IInv
<1>1. PICK K \in SUBSET Keys :
        /\ Touch(p, K)
        /\ K \cap DOMAIN snapshot[p] = {}
        /\ \A k \in Keys \ K : k \in DOMAIN snapshot[p] \/ k \in touched[p]
        /\ \A k \in K : curated'[k] = Absent
        /\ \A k \in Keys \ K : curated'[k] = curated[k]
        /\ TargetTypeOK' /\ HashStateSound'
    BY DeleteMissingEffect
<1>2. /\ phase[p] = "deleting" /\ phase' = [phase EXCEPT ![p] = "done"]
      /\ staged' = [staged EXCEPT ![p] = {}] /\ raced' = [raced EXCEPT ![p] = {}]
      /\ UNCHANGED <<source, stored, snapshot, unread, batch, changes, faults, replays>>
    BY DEF DeleteMissing, Goto, limits
<1>3. /\ touched' \in [Runs -> SUBSET Keys]
      /\ touched'[p] = touched[p]
      /\ \A q \in Runs : touched[q] \subseteq touched'[q]
                         /\ touched'[q] \subseteq touched[q] \cup K
      /\ \A q \in Runs \ {p} : phase[q] \notin {"idle", "landed"} => K \subseteq touched'[q]
    BY <1>1, TouchEffect
<1>4. staged[p] = DOMAIN snapshot[p] /\ DOMAIN batch[p] = {}
    BY <1>2 DEF Scanned, MergePhases
<1>5. TypeOK'
    BY <1>1, <1>2, <1>3 DEF TypeOK, Phases
<1>6. Scanned'
    BY <1>2, <1>3, <1>4 DEF Scanned, TypeOK, MergePhases
<1>7. NoCollisions => StagedRowsWritten'
    BY <1>1, <1>2, <1>3 DEF Exact, StagedRowsWritten, TypeOK, MergePhases
<1>8. NoCollisions => MergeIsExact'
    <2> SUFFICES ASSUME NoCollisions PROVE MergeIsExact'
        OBVIOUS
    <2>1. \A k \in Keys \ touched[p] : curated'[k] = Merged(p, k)
        BY <1>1, <1>2, <1>4 DEF Merged, Exact, StagedRowsWritten, MergePhases
    <2> QED BY <1>1, <1>2, <1>3, <2>1 DEF Exact, MergeIsExact, Merged, TypeOK
<1>9. SomeoneLeavesIt'
    BY <1>1, <1>2, <1>3 DEF SomeoneLeavesIt, Merged
<1> QED BY <1>1, <1>5, <1>6, <1>7, <1>8, <1>9 DEF Exact

(* A merge that fails starts over from the same snapshot. *)
LEMMA MergeFailsIInv ==
    ASSUME IInv, NEW p \in Runs, MergeFails(p)
    PROVE  IInv'
<1>5. faults' \in 0..MaxFaults
    <2>1. faults \in 0..MaxFaults /\ faults < MaxFaults /\ faults' = faults + 1
        BY DEF MergeFails, IInv, TypeOK
    <2> QED BY <2>1, BoundsAssumption
<1> USE DEF IInv, MergeFails, targetVars, Goto
<1>1. TypeOK'
    <2>2. NoRows \in Batches
        BY EmptyBatch DEF NoRows
    <2>3. phase' \in [Runs -> Phases] /\ batch' \in [Runs -> Batches]
        BY <2>2 DEF TypeOK, Phases
    <2>4. TargetTypeOK'
        BY DEF TypeOK, TargetTypeOK
    <2> QED BY <1>5, <2>3, <2>4 DEF TypeOK
<1>2. HashStateSound'
    BY DEF HashStateSound
<1>3. Scanned'
    BY DEF Scanned, TypeOK, MergePhases, NoRows
<1>4. Exact' /\ SomeoneLeavesIt'
    BY DEF Exact, StagedRowsWritten, MergeIsExact, SomeoneLeavesIt, TypeOK, MergePhases, Merged
<1> QED BY <1>1, <1>2, <1>3, <1>4
-----------------------------------------------------------------------------
(* The invariant is inductive. *)
LEMMA StepIInv == IInv /\ [Next]_vars => IInv'
<1> SUFFICES ASSUME IInv, [Next]_vars PROVE IInv'
    OBVIOUS
<1>1. CASE Next
    BY <1>1, SourceChangeIInv, ExtractAndLandIInv, ReplayIInv, StartMergeIInv,
        ReadBatchIInv, WriteBatchIInv, StartDeleteIInv, DeleteMissingIInv,
        MergeFailsIInv DEF Next, Step
<1>2. CASE UNCHANGED vars
    <2> USE <1>2 DEF vars, IInv
    <2>1. TypeOK' /\ HashStateSound'
        BY DEF TypeOK, TargetTypeOK, HashStateSound
    <2>2. Scanned' /\ SomeoneLeavesIt' /\ Exact'
        BY DEF Scanned, SomeoneLeavesIt, Exact, StagedRowsWritten, MergeIsExact, Merged
    <2> QED BY <2>1, <2>2
<1> QED BY <1>1, <1>2

(* The invariant holds in every reachable state. *)
THEOREM SpecIInv == Spec => []IInv
BY InitIInv, StepIInv, PTL DEF Spec

(* Every variable of the overlapping runs keeps its type. *)
THEOREM SpecTypeOK == Spec => []TypeOK
<1>1. IInv => TypeOK
    BY DEF IInv
<1> QED BY SpecIInv, <1>1, PTL

(***************************************************************************)
(* A finished merge left its snapshot exactly, outside what others wrote   *)
(* meanwhile: for any interleaving of any number of runs, any batch size,  *)
(* and any number of attempts that failed half-way (engine.py).            *)
(***************************************************************************)
THEOREM SpecMergeIsExact == ASSUME NoCollisions PROVE Spec => []MergeIsExact
<1>1. IInv => MergeIsExact
    BY DEF IInv, Exact
<1> QED BY SpecIInv, <1>1, PTL

(***************************************************************************)
(* When all runs have finished, every key is as one of them leaves it: a   *)
(* key that every run saw another write is as the last writer left it.     *)
(***************************************************************************)
THEOREM SpecNoKeyFromNowhere == ASSUME NoCollisions PROVE Spec => []NoKeyFromNowhere
<1>1. IInv => NoKeyFromNowhere
    <2> SUFFICES ASSUME IInv, \A p \in Runs : phase[p] = "done", NEW k \in Keys
                 PROVE  \E p \in Runs : curated[k] = Merged(p, k)
        BY DEF NoKeyFromNowhere
    <2>1. PICK p \in Runs : k \notin touched[p] \/ curated[k] = Merged(p, k)
        BY DEF IInv, SomeoneLeavesIt
    <2> QED BY <2>1 DEF IInv, Exact, MergeIsExact
<1> QED BY SpecIInv, <1>1, PTL

(* A recorded hash is the hash of the curated row, whatever runs overlap. *)
THEOREM SpecHashStateSound == Spec => []HashStateSound
<1>1. IInv => HashStateSound
    BY DEF IInv
<1> QED BY SpecIInv, <1>1, PTL
-----------------------------------------------------------------------------
(* Only a row that a snapshot lacks goes missing. *)
LEMMA StepKeepsRows ==
    ASSUME IInv, [Next]_vars, NEW k \in Keys, curated[k] # Absent, curated'[k] = Absent
    PROVE  \E p \in Runs : phase[p] # "idle" /\ k \notin DOMAIN snapshot[p]
<1>1. ASSUME NEW p \in Runs, DeleteMissing(p)
      PROVE  phase[p] # "idle" /\ k \notin DOMAIN snapshot[p]
    BY <1>1, DeleteMissingEffect DEF DeleteMissing
<1>2. ASSUME NEW p \in Runs, WriteBatch(p) PROVE FALSE
    <2>1. Upsert(batch[p]) /\ batch[p] \in Batches
        BY <1>2 DEF WriteBatch, IInv, TypeOK
    <2> QED BY <2>1, BatchRow, AbsentAssumption DEF Upsert
<1>3. ASSUME UNCHANGED curated PROVE FALSE
    BY <1>3
<1>4. ASSUME SourceChange PROVE UNCHANGED curated
    BY <1>4 DEF SourceChange, targetVars
<1>5. ASSUME NEW p \in Runs,
             \/ ExtractAndLand(p) \/ Replay(p) \/ StartMerge(p) \/ ReadBatch(p)
             \/ StartDelete(p) \/ MergeFails(p)
      PROVE  UNCHANGED curated
    BY <1>5 DEF ExtractAndLand, Replay, StartMerge, ReadBatch, StartDelete, MergeFails,
        targetVars
<1>6. UNCHANGED vars => UNCHANGED curated
    BY DEF vars
<1> QED BY <1>1, <1>2, <1>3, <1>4, <1>5, <1>6 DEF Next, Step

(***************************************************************************)
(* Readers never miss a row that every snapshot being merged has: no step  *)
(* of any run removes it, not even for a moment (engine.py deletes at the  *)
(* end, and only what was not staged).                                     *)
(***************************************************************************)
THEOREM SpecRowsNeverFlicker == Spec => RowsNeverFlicker
<1>1. IInv /\ [Next]_vars =>
        [\A k \in Keys :
            (curated[k] # Absent /\ curated'[k] = Absent) =>
                \E p \in Runs : phase[p] # "idle" /\ k \notin DOMAIN snapshot[p]]_vars
    BY StepKeepsRows
<1> QED BY SpecIInv, <1>1, PTL DEF Spec, RowsNeverFlicker
=============================================================================
