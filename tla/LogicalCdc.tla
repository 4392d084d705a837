----------------------------- MODULE LogicalCdc -----------------------------
(***************************************************************************)
(* The logical CDC pipeline (strategies/logical_cdc): a source table whose *)
(* WAL is read through a replication slot, one window at a time; the       *)
(* decoded transactions validated and landed as a delta artifact; the      *)
(* artifact applied to the curated table; the checkpoint moved and the     *)
(* slot acknowledged.                                                      *)
(*                                                                         *)
(* One run is in progress at a time.  The orchestrator that calls the      *)
(* stages, the slot and the source database are external: the calls and    *)
(* the protocol are modelled from the way the code uses them.              *)
(* Transactions arrive whole, with the message that carries their COMMIT:  *)
(* that is TransactionStream, which PgOutputDecode, the decoder of single  *)
(* messages, implements.                                                   *)
(***************************************************************************)
EXTENDS AtomicTarget, Integers, Sequences

CONSTANTS
    Menu,          \* transactions the source may commit, sequences of changes
    Invalid,       \* a row_after that fails the contract
    MaxLsn,        \* bound: WAL positions
    MaxCrashes,    \* bound: failed or killed tasks
    MaxTimeouts    \* bound: reads cut short by max_extract_seconds or idleness

(* One row change of a transaction; old is the key before it. *)
Changes == [op : {"I", "U", "D"}, old : Keys, key : Keys,
            row : Rows \cup {Invalid, Absent}]

ASSUME InvalidAssumption == Invalid \notin Rows \cup {Absent}
ASSUME MenuAssumption == Menu \subseteq Seq(Changes)
ASSUME BoundsAssumption ==
    MaxLsn \in Nat \ {0} /\ MaxCrashes \in Nat /\ MaxTimeouts \in Nat

NoLsn == 0

VARIABLES
    wal,          \* committed transactions of publications the slot reads
    walEnd,       \* pg_current_wal_lsn
    slotFlush,    \* confirmed_flush_lsn of the slot
    checkpoint,   \* last_applied_lsn kept by the orchestrator
    phase,        \* stage of the run in progress
    start,        \* window_start_lsn
    window,       \* window_end_lsn
    first, next,  \* the stream starts at wal[first]; wal[next] comes next
    lastDecoded,  \* last_decoded_lsn
    reached,      \* reached_window_end
    toWrite,      \* keys classify_changes found to be new or changed
    saved, acked, \* what the orchestrator has done with the resolved LSN
    crashes, timeouts

sourceVars == <<wal, walEnd>>
runVars == <<start, window, first, next, lastDecoded, reached, toWrite, saved, acked>>
limits == <<crashes, timeouts>>
vars == <<curated, hashState, wal, walEnd, slotFlush, checkpoint, phase, start, window,
          first, next, lastDecoded, reached, toWrite, saved, acked, crashes, timeouts>>

Phases == {"idle", "reading", "read", "landed", "classified", "upserted",
           "applied"}
-----------------------------------------------------------------------------
(* A transaction without changes is one on other tables.  Its WAL is the *)
(* commit record, one LSN long.                                          *)
CommitLsn(i) == wal[i].commit
(* Mutant: one past the position that follows the commit record. *)
PastEndLsn(i) == wal[i].commit + 2

EndLsn(i) == wal[i].commit + 1

(* _normalize_source_event: the key a change removes, the key it writes. *)
EventsOf(c, n) ==
    (IF c.op = "D" \/ (c.op = "U" /\ c.old # c.key)
     THEN {[key |-> c.old, row |-> Absent, index |-> n]} ELSE {})
    \cup
    (IF c.op = "D" THEN {} ELSE {[key |-> c.key, row |-> c.row, index |-> n]})

(* A transaction with one invalid change is quarantined (_flush_transaction). *)
IsValid(changes) == \A n \in DOMAIN changes : changes[n].row # Invalid

(* Decoded transactions, those of the artifact, and the artifact's events. *)
HasChanges(i) == wal[i].changes # <<>>
Accepted(from, to) == {i \in from..to : HasChanges(i) /\ IsValid(wal[i].changes)}
(* Mutant: an invalid change is quarantined alone, its transaction is not. *)
DeltaEventsByChange(from, to) ==
    UNION {UNION {{[key |-> e.key, row |-> e.row, txn |-> i, index |-> n] :
                        e \in EventsOf(wal[i].changes[n], n)} :
                  n \in {m \in DOMAIN wal[i].changes : wal[i].changes[m].row # Invalid}} :
           i \in from..to}

DeltaEvents(from, to) ==
    UNION {UNION {{[key |-> e.key, row |-> e.row, txn |-> i, index |-> n] :
                        e \in EventsOf(wal[i].changes[n], n)} :
                  n \in DOMAIN wal[i].changes} :
           i \in Accepted(from, to)}

(* position_sort_key: (commit_lsn, change_index). *)
NotAfter(e, f) == e.txn < f.txn \/ (e.txn = f.txn /\ e.index <= f.index)
Latest(events, k) ==
    CHOOSE e \in events :
        e.key = k /\ \A f \in events : f.key = k => NotAfter(f, e)
EffectiveRows(events) == [k \in {e.key : e \in events} |-> Latest(events, k).row]

(* The artifact of the run in progress. *)
Artifact == EffectiveRows(DeltaEvents(first, next - 1))
UpsertKeys(eff) == {k \in DOMAIN eff : eff[k] # Absent}
ChangedKeys(eff) == {k \in UpsertKeys(eff) : hashState[k] # RowHash[eff[k]]}

(* last_applied_lsn: the end_lsn of the artifact's last event. *)
LastApplied ==
    LET txns == Accepted(first, next - 1)
    IN  IF txns = {} THEN NoLsn
        ELSE EndLsn(CHOOSE i \in txns : \A j \in txns : j <= i)

(* Mutants: the window's end whether or not the stream reached it; nothing *)
(* without an applied event; no LSN at all when nothing was decoded.       *)
ResolvedUnreached ==
    CASE LastApplied # NoLsn -> LastApplied
      [] LastApplied = NoLsn /\ lastDecoded # NoLsn -> lastDecoded
      [] OTHER -> window
ResolvedAppliedOnly == IF LastApplied # NoLsn THEN LastApplied ELSE start
ResolvedOrNone ==
    CASE LastApplied # NoLsn -> LastApplied
      [] LastApplied = NoLsn /\ lastDecoded # NoLsn -> lastDecoded
      [] LastApplied = NoLsn /\ lastDecoded = NoLsn /\ reached -> window
      [] OTHER -> NoLsn

(* resolve_checkpoint_lsn. *)
Resolved ==
    CASE LastApplied # NoLsn -> LastApplied
      [] LastApplied = NoLsn /\ lastDecoded # NoLsn -> lastDecoded
      [] LastApplied = NoLsn /\ lastDecoded = NoLsn /\ reached -> window
      [] OTHER -> start
-----------------------------------------------------------------------------
(* The source table after its transactions, and whether one more can run *)
(* on it.                                                                *)
Max2(a, b) == IF a >= b THEN a ELSE b

RowAfter(c, k, row) ==
    IF c.op # "D" /\ c.key = k THEN c.row ELSE IF c.op # "I" /\ c.old = k THEN Absent ELSE row

AfterChanges(table, changes) ==
    LET after[n \in 0..Len(changes)] ==
            IF n = 0 THEN table
            ELSE LET before == after[n - 1]
                 IN  [k \in Keys |-> RowAfter(changes[n], k, before[k])]
    IN  after

EmptyTable == [k \in Keys |-> Absent]

(* What the first m transactions and the valid ones from there to n give. *)
Accumulated(m, n) ==
    LET after[i \in 0..n] ==
            IF i = 0 THEN EmptyTable
            ELSE IF i <= m \/ IsValid(wal[i].changes)
            THEN AfterChanges(after[i - 1], wal[i].changes)[Len(wal[i].changes)]
            ELSE after[i - 1]
    IN  after[n]

SourceTable == Accumulated(Len(wal), Len(wal))

CanRunOn(before, changes) ==
    \A n \in DOMAIN changes :
        LET c == changes[n]
            table == AfterChanges(before, changes)[n - 1]
        IN  /\ c.op # "I" => table[c.old] # Absent
            /\ c.op = "I" \/ c.key # c.old => c.op = "D" \/ table[c.key] = Absent
-----------------------------------------------------------------------------
(* Between runs nothing of a run is kept but the checkpoint and the slot. *)
EndRun ==
    /\ phase' = "idle"
    /\ start' = NoLsn /\ window' = NoLsn /\ lastDecoded' = NoLsn
    /\ first' = 1 /\ next' = 1
    /\ toWrite' = {}
    /\ reached' = FALSE /\ saved' = FALSE /\ acked' = FALSE

NoRun ==
    /\ checkpoint = NoLsn
    /\ phase = "idle"
    /\ start = NoLsn /\ window = NoLsn /\ lastDecoded = NoLsn
    /\ first = 1 /\ next = 1
    /\ toWrite = {}
    /\ reached = FALSE /\ saved = FALSE /\ acked = FALSE
    /\ crashes = 0 /\ timeouts = 0

Init ==
    /\ TargetInit
    /\ wal = <<>>
    /\ walEnd = 1
    /\ slotFlush = 1
    /\ NoRun

(* A transaction commits in the source database. *)
SourceCommit ==
    /\ walEnd < MaxLsn
    /\ \E changes \in Menu :
        /\ CanRunOn(SourceTable, changes)
        /\ wal' = Append(wal, [commit |-> walEnd, changes |-> changes])
    /\ walEnd' = walEnd + 1
    /\ UNCHANGED <<targetVars, slotFlush, checkpoint, phase, runVars, limits>>

(* WAL that is no transaction of the publication. *)
OtherWal ==
    /\ walEnd < MaxLsn
    /\ walEnd' = walEnd + 1
    /\ UNCHANGED <<targetVars, wal, slotFlush, checkpoint, phase, runVars, limits>>

(* The transactions the server will never send again: how many they are. *)
Released ==
    CHOOSE n \in 0..Len(wal) :
        \A i \in DOMAIN wal : i <= n <=> CommitLsn(i) < Max2(checkpoint, slotFlush)

(* The window is fixed and replication started: the server sends what      *)
(* commits at or after both start_lsn and the slot's confirmed_flush_lsn.  *)
StartExtract ==
    /\ phase = "idle"
    /\ phase' = "reading"
    /\ start' = checkpoint
    /\ window' = walEnd
    /\ first' = Released + 1 /\ next' = Released + 1
    /\ lastDecoded' = NoLsn
    /\ reached' = FALSE
    /\ saved' = FALSE
    /\ acked' = FALSE
    /\ UNCHANGED <<targetVars, sourceVars, slotFlush, checkpoint, toWrite, limits>>

StopReading == phase' = "read"
KeepReading == phase' = "reading"

(* read_message returns the COMMIT of the next transaction: _consume first *)
(* notes how far the stream is, then looks at the clock, then decodes.     *)
ReadCommit ==
    /\ phase = "reading"
    /\ next <= Len(wal)
    /\ reached' = (reached \/ EndLsn(next) >= window)
    /\ IF HasChanges(next) /\ CommitLsn(next) > window
       THEN StopReading /\ UNCHANGED <<next, lastDecoded>>
       ELSE /\ KeepReading
            /\ next' = next + 1
            /\ lastDecoded' = IF HasChanges(next) THEN EndLsn(next) ELSE lastDecoded
    /\ UNCHANGED <<targetVars, sourceVars, slotFlush, checkpoint, start, window, first,
                   toWrite, saved, acked, limits>>

(* The same, and max_extract_seconds pass between the test at the top of *)
(* the read loop and the test in _consume.                               *)
ReadCommitTooLate ==
    /\ phase = "reading"
    /\ timeouts < MaxTimeouts
    /\ timeouts' = timeouts + 1
    /\ next <= Len(wal)
    /\ reached' = (reached \/ EndLsn(next) >= window)
    /\ StopReading
    /\ UNCHANGED <<targetVars, sourceVars, slotFlush, checkpoint, start, window, first,
                   next, lastDecoded, toWrite, saved, acked, crashes>>

(* read_message returns nothing.  A keepalive may have told how far the  *)
(* server has sent: everything that commits before that has arrived.     *)
SentEnd == IF next <= Len(wal) THEN CommitLsn(next) ELSE walEnd

ReadNothing ==
    /\ phase = "reading"
    /\ reached' = (reached \/ SentEnd >= window)
    /\ reached'
    /\ StopReading
    /\ UNCHANGED <<targetVars, sourceVars, slotFlush, checkpoint, start, window, first,
                   next, lastDecoded, toWrite, saved, acked, limits>>

(* max_extract_seconds or idle_timeout_seconds pass. *)
ReadTimeout ==
    /\ phase = "reading"
    /\ timeouts < MaxTimeouts
    /\ timeouts' = timeouts + 1
    /\ StopReading
    /\ UNCHANGED <<targetVars, sourceVars, slotFlush, checkpoint, runVars, crashes>>

(* The artifact is uploaded: errors, delta, manifest. *)
Land ==
    /\ phase = "read"
    /\ phase' = "landed"
    /\ UNCHANGED <<targetVars, sourceVars, slotFlush, checkpoint, runVars, limits>>

(* apply_wal_delta_to_curated: the recorded hashes are read ... *)
Classify ==
    /\ phase = "landed"
    /\ phase' = "classified"
    /\ \E rows \in {Artifact} : toWrite' = ChangedKeys(rows)
    /\ UNCHANGED <<targetVars, sourceVars, slotFlush, checkpoint, start, window, first,
                   next, lastDecoded, reached, saved, acked, limits>>

(* ... the changed rows written, in a second transaction ... *)
ApplyUpserts ==
    /\ phase = "classified"
    /\ phase' = "upserted"
    /\ \E rows \in {Artifact} : Upsert([k \in toWrite |-> rows[k]])
    /\ toWrite' = {}
    /\ UNCHANGED <<sourceVars, slotFlush, checkpoint, start, window, first, next,
                   lastDecoded, reached, saved, acked, limits>>

(* ... and the deleted keys removed in a third, which may miss rows that *)
(* others insert while it runs.                                          *)
DeletedKeys(eff) == DOMAIN eff \ UpsertKeys(eff)

DeleteAllBut(missed, kept) ==
    /\ phase = "upserted"
    /\ phase' = "applied"
    /\ \E rows \in {Artifact} :
          Delete(DeletedKeys(rows) \ missed, DeletedKeys(rows) \ kept)
    /\ UNCHANGED <<sourceVars, slotFlush, checkpoint, runVars, limits>>

(* Nobody else writes the table. *)
ApplyDeletes == DeleteAllBut({}, {})

(* The orchestrator stores the resolved LSN and acknowledges it, in an *)
(* order this code does not fix; then the run is over.                 *)
SaveCheckpoint ==
    /\ phase = "applied" /\ ~saved
    /\ checkpoint' = Resolved
    /\ \/ acked /\ EndRun
       \/ /\ ~acked
          /\ saved' = TRUE
          /\ UNCHANGED <<phase, start, window, first, next, lastDecoded, reached, toWrite, acked>>
    /\ UNCHANGED <<targetVars, sourceVars, slotFlush, limits>>

(* ack_logical_replication_slot; the server never moves a slot back. *)
AckSlot ==
    /\ phase = "applied" /\ ~acked
    /\ slotFlush' = Max2(slotFlush, Resolved)
    /\ \/ saved /\ EndRun
       \/ /\ ~saved
          /\ acked' = TRUE
          /\ UNCHANGED <<phase, start, window, first, next, lastDecoded, reached, toWrite, saved>>
    /\ UNCHANGED <<targetVars, sourceVars, checkpoint, limits>>

(* A stage fails or its process dies; the next run starts over. *)
Crash ==
    /\ phase # "idle"
    /\ crashes < MaxCrashes
    /\ crashes' = crashes + 1
    /\ EndRun
    /\ UNCHANGED <<targetVars, sourceVars, slotFlush, checkpoint, timeouts>>

Source == SourceCommit \/ OtherWal
Run ==
    \/ StartExtract \/ ReadCommit \/ ReadNothing \/ Land
    \/ Classify \/ ApplyUpserts \/ ApplyDeletes \/ SaveCheckpoint \/ AckSlot

OnTime == Source \/ Run \/ ReadTimeout \/ Crash
Next == OnTime \/ ReadCommitTooLate

Spec == Init /\ [][Next]_vars

(* Deadlines pass at the top of the read loop only.  The orchestrator       *)
(* schedules run after run, and a run that is not cut short comes to its    *)
(* end.                                                                     *)
OnTimeSpec == Init /\ [][OnTime]_vars /\ WF_vars(Run)
-----------------------------------------------------------------------------
Transactions == [commit : 1..MaxLsn, changes : Menu]

TypeOK ==
    /\ TargetTypeOK
    /\ wal \in Seq(Transactions)
    /\ walEnd \in 1..MaxLsn
    /\ slotFlush \in 1..MaxLsn
    /\ checkpoint \in 0..MaxLsn
    /\ phase \in Phases
    /\ start \in 0..MaxLsn /\ window \in 0..MaxLsn /\ lastDecoded \in 0..MaxLsn
    /\ first \in 1..MaxLsn /\ next \in 1..MaxLsn
    /\ toWrite \subseteq Keys
    /\ reached \in BOOLEAN /\ saved \in BOOLEAN /\ acked \in BOOLEAN
    /\ crashes \in 0..MaxCrashes /\ timeouts \in 0..MaxTimeouts

(* The table a replica has after the first n transactions, those with an *)
(* invalid row left out.                                                 *)
Replica(n) == Accumulated(0, n)

(***************************************************************************)
(* No accepted change is lost.  Every row is at least as recent as the     *)
(* transactions the saved checkpoint or the acknowledged slot leave        *)
(* behind, at every moment, through crashes between any two stages, reads  *)
(* cut short, quarantined transactions and empty windows.                  *)
(***************************************************************************)
NothingLost ==
    \A k \in Keys : \E n \in Released..Len(wal) : curated[k] = Replica(n)[k]

(***************************************************************************)
(* Between runs, the curated table as a whole is the source at one moment: *)
(* a quarantined transaction leaves nothing of itself, and a moved row is  *)
(* there once.  (A crash may mix two moments until the next full run.)     *)
(***************************************************************************)
CuratedIsASourceState ==
    (phase = "idle" /\ crashes = 0) => \E n \in Released..Len(wal) : curated = Replica(n)

(* The checkpoint never moves back, whichever of its three sources it is *)
(* taken from, and however runs end.                                     *)
CheckpointNeverMovesBack == [][checkpoint' >= checkpoint]_vars

(***************************************************************************)
(* The checkpoint moves to the window's end only when the stream has       *)
(* caught up: no transaction of the table before the window's end is       *)
(* undecoded (tests/test_logical_cdc.py,                                   *)
(* ..._advances_to_window_end_after_stream_catches_up).                    *)
(***************************************************************************)
WindowEndMeansCaughtUp ==
    (phase = "applied" /\ LastApplied = NoLsn /\ lastDecoded = NoLsn /\ reached) =>
        \A i \in first..Len(wal) : HasChanges(i) /\ CommitLsn(i) < window => i < next

(***************************************************************************)
(* Once the source rests, the curated table becomes and stays the source's *)
(* last state (the quarantined transactions apart), and the checkpoint     *)
(* passes every transaction, so that the slot holds back no WAL.           *)
(***************************************************************************)
CatchesUp ==
    <>[](/\ checkpoint = walEnd
         /\ Released = Len(wal)
         /\ curated = Replica(Len(wal)))
=============================================================================
