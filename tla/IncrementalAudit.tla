-------------------------- MODULE IncrementalAudit --------------------------
(***************************************************************************)
(* The incremental audit pipeline (strategies/incremental_audit): triggers *)
(* that record every change of the source table in an audit table; the     *)
(* audit table read one window at a time, from the checkpoint's watermark  *)
(* to the latest one; the accepted events landed and applied.              *)
(*                                                                         *)
(* A watermark is an ordering timestamp and an event id.  The timestamp is *)
(* the time the event was written (recorded_at) or the time its            *)
(* transaction committed (commit_timestamp); that the second falls back to *)
(* the first for a transaction whose commit timestamp the server does not  *)
(* have (sql.py:40) is left out.  PostgreSQL is external: a                *)
(* transaction's events are seen only once it has committed, its commit    *)
(* timestamp is taken before that, and it locks the rows it writes.        *)
(***************************************************************************)
EXTENDS AtomicTarget, Naturals, Sequences

CONSTANTS
    Txns,        \* source transactions
    Menu,        \* row changes they may make: old key, key, row (Absent is a DELETE)
    Invalid,     \* a row_after that fails the contract
    Modes,       \* watermark modes resolve_watermark_mode may return
    MaxEvents,   \* bound: audit events
    MaxCrashes   \* bound: failed or killed tasks

ASSUME InvalidAssumption == Invalid \notin Rows \cup {Absent}
(* A change of a key is an UPDATE, with the row it leaves. *)
ASSUME MenuAssumption ==
    \A c \in Menu : /\ c.old \in Keys /\ c.key \in Keys
                    /\ c.row \in Rows \cup {Absent, Invalid}
                    /\ c.old # c.key => c.row # Absent
ASSUME BoundsAssumption == MaxEvents \in Nat /\ MaxCrashes \in Nat
ASSUME ModesAssumption == Modes \subseteq {"recorded_at", "commit_timestamp"}

VARIABLES
    audit,        \* the audit table, by audit_event_id, open transactions included
    stage,        \* of each transaction: "open", "stamped", "visible"
    commitTs,     \* its commit timestamp
    clock,
    mode,         \* watermark_mode
    checkpoint,   \* the watermark kept by the orchestrator
    phase, start, windowEnd,   \* the run in progress
    accepted,     \* ids of the events in the landed artifact
    applied,      \* ids of events applied so far, by any run
    overtaken,    \* events that became visible after a later one had
    crashes

sourceVars == <<audit, stage, commitTs, clock, overtaken>>
runVars == <<phase, start, windowEnd, accepted>>
vars == <<curated, hashState, audit, stage, commitTs, clock, mode, checkpoint, phase,
          start, windowEnd, accepted, applied, overtaken, crashes>>

Ids == DOMAIN audit
NoWatermark == [ts |-> 0, id |-> 0]
-----------------------------------------------------------------------------
(* ordering_expression, and the order of (ordering_ts, audit_event_id). *)
OrderingTs(i) == IF mode = "commit_timestamp" THEN commitTs[audit[i].txn] ELSE audit[i].recorded
Watermark(i) == [ts |-> OrderingTs(i), id |-> i]
Before(v, w) == v.ts < w.ts \/ (v.ts = w.ts /\ v.id < w.id)
UpTo(v, w) == v = w \/ Before(v, w)

Visible == {i \in Ids : stage[audit[i].txn] = "visible"}
LatestOf(S) == CHOOSE i \in S : \A j \in S : UpTo(Watermark(j), Watermark(i))

(* build_select_latest_watermark_sql, build_select_audit_window_sql. *)
LatestWatermark == IF Visible = {} THEN NoWatermark ELSE Watermark(LatestOf(Visible))
(* Mutant: the event the window ends with is left out of it. *)
WindowBelowEnd(from, to) ==
    {i \in Visible : Before(from, Watermark(i)) /\ Before(Watermark(i), to)}

Window(from, to) == {i \in Visible : Before(from, Watermark(i)) /\ UpTo(Watermark(i), to)}

(* _normalize_source_audit_event; each event stands or falls alone. *)
IsAccepted(i) == audit[i].row # Invalid

(* Mutant: an UPDATE of the key removes nothing under the old key. *)
NewKeyOnly(i) == {[key |-> audit[i].key, row |-> audit[i].row, id |-> i]}

(* An UPDATE that changes the key is a DELETE and an UPSERT with one id. *)
DeltaEvents(i) ==
    {[key |-> audit[i].key, row |-> audit[i].row, id |-> i]}
    \cup
    (IF audit[i].old # audit[i].key THEN {[key |-> audit[i].old, row |-> Absent, id |-> i]} ELSE {})

(* _select_latest_effective_rows: the last event of each key decides. *)
EffectiveRows(S) ==
    LET events == UNION {DeltaEvents(i) : i \in S}
        Last(k) == LatestOf({e.id : e \in {f \in events : f.key = k}})
    IN  [k \in {e.key : e \in events} |->
            (CHOOSE e \in events : e.key = k /\ e.id = Last(k)).row]

UpsertKeys(eff) == {k \in DOMAIN eff : eff[k] # Absent}
ChangedKeys(eff) == {k \in UpsertKeys(eff) : hashState[k] # RowHash[eff[k]]}

(* Mutant: a checkpoint payload without window_end. *)
ResolvedAppliedOnly == IF accepted # {} THEN Watermark(LatestOf(accepted)) ELSE NoWatermark

(* checkpoint_watermark_from_payload: the last applied event, or else the *)
(* window's end, or else what it was.                                     *)
Resolved ==
    CASE accepted # {} -> Watermark(LatestOf(accepted))
      [] accepted = {} /\ windowEnd # NoWatermark -> windowEnd
      [] OTHER -> start
-----------------------------------------------------------------------------
Init ==
    /\ TargetInit
    /\ audit = <<>>
    /\ stage = [t \in Txns |-> "open"]
    /\ commitTs = [t \in Txns |-> 0]
    /\ clock = 1
    /\ mode \in Modes
    /\ checkpoint = NoWatermark
    /\ phase = "idle" /\ start = NoWatermark /\ windowEnd = NoWatermark
    /\ accepted = {} /\ applied = {} /\ overtaken = {}
    /\ crashes = 0

(* The row an event leaves under a key it touches, and what transaction t *)
(* sees there.                                                            *)
Touches(i, k) == k \in {audit[i].old, audit[i].key}
RowLeft(i, k) == IF audit[i].key = k THEN audit[i].row ELSE Absent

RowSeen(t, k) ==
    LET S == {i \in Ids : Touches(i, k)
                          /\ (audit[i].txn = t \/ stage[audit[i].txn] = "visible")}
    IN  IF S = {} THEN Absent ELSE RowLeft(CHOOSE i \in S : \A j \in S : j <= i, k)
LockedByOther(t, k) ==
    \E i \in Ids : Touches(i, k) /\ audit[i].txn # t /\ stage[audit[i].txn] # "visible"

(* A row changes and the trigger inserts its event, in one transaction. *)
SourceWrite(t) ==
    /\ stage[t] = "open"
    /\ Len(audit) < MaxEvents
    /\ \E c \in Menu :
        /\ ~LockedByOther(t, c.old) /\ ~LockedByOther(t, c.key)
        /\ c.row # RowSeen(t, c.key)
        /\ c.old # c.key => RowSeen(t, c.old) # Absent /\ RowSeen(t, c.key) = Absent
        /\ audit' = Append(audit, [txn |-> t, old |-> c.old, key |-> c.key, row |-> c.row,
                                   recorded |-> clock])
    /\ clock' = clock + 1
    /\ UNCHANGED <<targetVars, stage, commitTs, mode, checkpoint, runVars, applied,
                   overtaken, crashes>>

(* COMMIT takes its timestamp ... *)
SourceStamp(t) ==
    /\ stage[t] = "open"
    /\ \E i \in Ids : audit[i].txn = t
    /\ stage' = [stage EXCEPT ![t] = "stamped"]
    /\ commitTs' = [commitTs EXCEPT ![t] = clock]
    /\ clock' = clock + 1
    /\ UNCHANGED <<targetVars, audit, mode, checkpoint, runVars, applied, overtaken, crashes>>

(* ... and lets others see the transaction. *)
SourceCommit(t) ==
    /\ stage[t] = "stamped"
    /\ stage' = [stage EXCEPT ![t] = "visible"]
    /\ overtaken' = overtaken \cup
            {i \in Ids : audit[i].txn = t /\ Before(Watermark(i), LatestWatermark)}
    /\ UNCHANGED <<targetVars, audit, commitTs, clock, mode, checkpoint, runVars,
                   applied, crashes>>

SelectWindowEnd ==
    /\ phase = "idle"
    /\ phase' = "window"
    /\ start' = checkpoint
    /\ windowEnd' = LatestWatermark
    /\ UNCHANGED <<targetVars, sourceVars, mode, checkpoint, accepted, applied, crashes>>

(* One SELECT reads the window; the artifact is landed. *)
ReadWindowAndLand ==
    /\ phase = "window"
    /\ phase' = "landed"
    /\ accepted' = {i \in Window(start, windowEnd) : IsAccepted(i)}
    /\ UNCHANGED <<targetVars, sourceVars, mode, checkpoint, start, windowEnd, applied, crashes>>

(* apply_delta_to_curated: changed rows, then deleted keys. *)
ApplyUpserts ==
    /\ phase = "landed"
    /\ phase' = "upserted"
    /\ \E rows \in {EffectiveRows(accepted)} :
          Upsert([k \in ChangedKeys(rows) |-> rows[k]])
    /\ UNCHANGED <<sourceVars, mode, checkpoint, start, windowEnd, accepted, applied, crashes>>

(* Mutant: delete events are not applied. *)
IgnoreDeletes ==
    /\ phase = "upserted"
    /\ phase' = "applied"
    /\ applied' = applied \cup accepted
    /\ UNCHANGED <<targetVars, sourceVars, mode, checkpoint, start, windowEnd, accepted, crashes>>

ApplyDeletes ==
    /\ phase = "upserted"
    /\ phase' = "applied"
    /\ \E rows \in {EffectiveRows(accepted)} :
          LET K == DOMAIN rows \ UpsertKeys(rows) IN Delete(K, K)
    /\ applied' = applied \cup accepted
    /\ UNCHANGED <<sourceVars, mode, checkpoint, start, windowEnd, accepted, crashes>>

EndRun ==
    /\ phase' = "idle"
    /\ start' = NoWatermark /\ windowEnd' = NoWatermark
    /\ accepted' = {}

SaveCheckpoint ==
    /\ phase = "applied"
    /\ checkpoint' = Resolved
    /\ EndRun
    /\ UNCHANGED <<targetVars, sourceVars, mode, applied, crashes>>

(* A stage fails or its process dies: the next run starts over. *)
Crash ==
    /\ phase # "idle"
    /\ crashes < MaxCrashes
    /\ crashes' = crashes + 1
    /\ EndRun
    /\ UNCHANGED <<targetVars, sourceVars, mode, checkpoint, applied>>

Source == \E t \in Txns : SourceWrite(t) \/ SourceStamp(t) \/ SourceCommit(t)
Run == SelectWindowEnd \/ ReadWindowAndLand \/ ApplyUpserts \/ ApplyDeletes \/ SaveCheckpoint
Next == Source \/ Run \/ Crash

Spec == Init /\ [][Next]_vars

(* The orchestrator schedules run after run; open transactions commit. *)
FairSpec ==
    /\ Spec
    /\ WF_vars(Run)
    /\ \A t \in Txns : WF_vars(SourceStamp(t) \/ SourceCommit(t))
-----------------------------------------------------------------------------
Watermarks == [ts : 0..clock, id : 0..MaxEvents]
AuditEvents == [txn : Txns, old : Keys, key : Keys, row : Rows \cup {Absent, Invalid},
                recorded : 1..clock]

TypeOK ==
    /\ TargetTypeOK
    /\ clock \in Nat \ {0}
    /\ audit \in Seq(AuditEvents) /\ Len(audit) <= MaxEvents
    /\ stage \in [Txns -> {"open", "stamped", "visible"}]
    /\ commitTs \in [Txns -> 0..clock]
    /\ mode \in Modes
    /\ {checkpoint, start, windowEnd} \subseteq Watermarks
    /\ phase \in {"idle", "window", "landed", "upserted", "applied"}
    /\ accepted \cup applied \cup overtaken \subseteq Visible
    /\ crashes \in 0..MaxCrashes

Skipped == {i \in Visible : IsAccepted(i) /\ UpTo(Watermark(i), checkpoint) /\ i \notin applied}

(***************************************************************************)
(* Every accepted change of the source reaches the curated table: what the *)
(* checkpoint has passed has been applied.                                 *)
(***************************************************************************)
NothingSkipped == Skipped = {}

(***************************************************************************)
(* The only changes that are ever skipped are those that became visible    *)
(* after a change with a later watermark: a transaction that ran alone, or *)
(* that committed in watermark order, loses nothing, through crashes,      *)
(* quarantined events and windows whose end and content are read at        *)
(* different moments.                                                      *)
(***************************************************************************)
OnlyOvertakenSkipped == Skipped \subseteq overtaken

(* The checkpoint never moves back, whether it is taken from the last *)
(* applied event or from the window's end.                            *)
CheckpointNeverMovesBack == [][UpTo(checkpoint, checkpoint')]_vars

(***************************************************************************)
(* Between the runs no row is older than the checkpoint says, nor one that *)
(* a newer accepted change has replaced there: it is the row left by some  *)
(* accepted change at or after the last applied one of its key.            *)
(***************************************************************************)
NoStaleRow ==
    overtaken = {} =>
        \A k \in Keys :
            LET S == {i \in Visible : Touches(i, k) /\ IsAccepted(i)}
                passed == {i \in S : UpTo(Watermark(i), checkpoint)}
            IN  passed # {} =>
                    \E i \in S : /\ UpTo(Watermark(LatestOf(passed)), Watermark(i))
                                 /\ curated[k] = RowLeft(i, k)

(***************************************************************************)
(* In the end the curated table holds the last accepted change of every    *)
(* key, if none of its changes was overtaken.                              *)
(***************************************************************************)
CatchesUp ==
    <>[](\A k \in Keys :
            LET S == {i \in Visible : Touches(i, k) /\ IsAccepted(i)}
            IN  S # {} /\ S \cap overtaken = {} => curated[k] = RowLeft(LatestOf(S), k))
=============================================================================
