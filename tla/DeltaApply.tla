----------------------------- MODULE DeltaApply -----------------------------
(***************************************************************************)
(* apply_delta_artifact_to_curated (strategies/common/delta_apply.py) run  *)
(* by several processes: the tasks that apply fresh artifacts, retries,    *)
(* and replays of stored ones.                                             *)
(*                                                                         *)
(* An apply loads its artifact into a staging table of its own, keeps the  *)
(* latest event of each key, skips rows whose hash is recorded, commits    *)
(* the upserts, then the deletes, and drops the staging table.  The write  *)
(* calls are those of AtomicTarget, which CuratedTarget implements for     *)
(* contracts that have a field outside their key.                          *)
(***************************************************************************)
EXTENDS AtomicTarget, Naturals, FiniteSets

CONSTANTS
    Appliers,    \* processes
    Artifact,    \* the events in the artifact each of them applies
    Names,       \* staging table names build_delta_staging_table_name may draw
    MaxFaults,   \* bound: exceptions and process deaths, together
    MaxReplays   \* bound: applies of an artifact that was already applied

(* Events of an artifact.  A DELETE has no row. *)
Events == [key : Keys, row : Rows \cup {Absent}, pos : Nat]

NoOwner == "none"
NoName == "none"

ASSUME ArtifactAssumption ==
    /\ Artifact \in [Appliers -> SUBSET Events]
    /\ \A p \in Appliers : IsFiniteSet(Artifact[p])
ASSUME NamesAssumption == NoName \notin Names /\ NoOwner \notin Appliers
ASSUME BoundsAssumption == MaxFaults \in Nat /\ MaxReplays \in Nat

Tables == {"curated", "hash_state"}
Creating == [t \in Tables |-> IF t = "curated" THEN "creating curated" ELSE "creating hash_state"]

VARIABLES
    phase,      \* where each apply is
    name,       \* its staging_table_name
    staging,    \* staging tables in the database: owner and rows
    tables,     \* which of the target tables exist
    effective,  \* effective_rows: key -> row, Absent for a DELETE
    changed,    \* keys of [*inserts, *updates]
    raced,      \* keys others upserted while this apply was deleting
    faults,     \* exceptions so far
    leaks,      \* those of them that left a staging table
    kills,      \* process deaths so far
    replays

applyVars == <<phase, name, effective, changed, raced>>
vars == <<curated, hashState, phase, name, staging, tables, effective, changed,
          raced, faults, leaks, kills, replays>>

Phases == {"idle", "created", "staged", "loaded", "creating curated", "creating hash_state",
           "ready", "selected", "classified", "upserted", "written", "failing", "failed",
           "killed", "done"}
Loaded == {"loaded", "ready"} \cup {Creating[t] : t \in Tables}
Working == Phases \ {"idle", "failed", "killed", "done"}

(* What an artifact may come down to: per key a row, or none for a DELETE. *)
EffectiveSets == UNION {[K -> Rows \cup {Absent}] : K \in SUBSET Keys}

Free == [owner |-> NoOwner, events |-> {}]
NoRows == [k \in {} |-> Absent]

Init ==
    /\ TargetInit
    /\ phase = [p \in Appliers |-> "idle"]
    /\ name = [p \in Appliers |-> NoName]
    /\ staging = [n \in Names |-> Free]
    /\ tables = {}
    /\ effective = [p \in Appliers |-> NoRows]
    /\ changed = [p \in Appliers |-> {}]
    /\ raced = [p \in Appliers |-> {}]
    /\ faults = 0
    /\ leaks = 0
    /\ kills = 0
    /\ replays = 0
-----------------------------------------------------------------------------
(* Mutant: ordered ascending, DISTINCT ON keeps the first event. *)
Earliest(events) ==
    {e \in events : \A f \in events : f.key = e.key => f.pos >= e.pos}

(* _select_latest_effective_rows: per key, the event with the last position. *)
Latest(events) ==
    {e \in events : \A f \in events : f.key = e.key => f.pos <= e.pos}
EffectiveRows(events) ==
    [k \in {e.key : e \in events} |-> (CHOOSE e \in Latest(events) : e.key = k).row]

UpsertKeys(eff) == {k \in DOMAIN eff : eff[k] # Absent}
DeleteKeys(eff) == {k \in DOMAIN eff : eff[k] = Absent}

(* classify_changes: the rows whose hash is not the one recorded. *)
ChangedKeys(eff) == {k \in UpsertKeys(eff) : hashState[k] # RowHash[eff[k]]}

Goto(p, ph) == phase' = [phase EXCEPT ![p] = ph]
-----------------------------------------------------------------------------
(* Mutant: checkfirst=True takes over a table of the same name. *)
CreateOrTakeOver(p) ==
    /\ phase[p] = "idle"
    /\ \E n \in Names :
        /\ name' = [name EXCEPT ![p] = n]
        /\ staging' = [staging EXCEPT ![n].owner = p]
    /\ Goto(p, "created")
    /\ UNCHANGED <<targetVars, tables, effective, changed, raced, faults, leaks, kills, replays>>

(* _create_delta_staging_table creates the table, with checkfirst=False, *)
(* and commits it.                                                       *)
CreateFresh(p) ==
    /\ phase[p] = "idle"
    /\ \E n \in Names :
        /\ staging[n] = Free
        /\ name' = [name EXCEPT ![p] = n]
        /\ staging' = [staging EXCEPT ![n] = [owner |-> p, events |-> {}]]
    /\ Goto(p, "created")
    /\ UNCHANGED <<targetVars, tables, effective, changed, raced, faults, leaks, kills, replays>>

(* The name drawn is taken: CREATE TABLE fails, outside the inner try. *)
CreateCollides(p) ==
    /\ phase[p] = "idle"
    /\ \E n \in Names : staging[n] # Free
    /\ Goto(p, "failed")
    /\ UNCHANGED <<targetVars, name, staging, tables, effective, changed, raced, faults, leaks, kills, replays>>

(* It looks the table up again and binds it; the inner try begins. *)
Reflect(p) ==
    /\ phase[p] = "created"
    /\ Goto(p, "staged")
    /\ UNCHANGED <<targetVars, name, staging, tables, effective, changed, raced,
                   faults, leaks, kills, replays>>

(* The whole artifact is inserted in one transaction. *)
Load(p) ==
    /\ phase[p] = "staged"
    /\ staging' = [staging EXCEPT ![name[p]].events = @ \cup Artifact[p]]
    /\ Goto(p, "loaded")
    /\ UNCHANGED <<targetVars, name, tables, effective, changed, raced, faults, leaks, kills, replays>>

(* Mutant: both tables are created when the second is missing. *)
LookForHashStateOnly(p) ==
    /\ phase[p] = "loaded"
    /\ Goto(p, IF {"curated", "hash_state"} \subseteq tables THEN "ready" ELSE "creating curated")
    /\ UNCHANGED <<targetVars, name, staging, tables, effective, changed, raced,
                   faults, leaks, kills, replays>>

(* ensure_target_table_from_contract and ensure_hash_state_table look for *)
(* their table first ...                                                  *)
LookForTables(p) ==
    /\ phase[p] = "loaded"
    /\ Goto(p, CASE "curated" \notin tables -> "creating curated"
                 [] "curated" \in tables /\ "hash_state" \notin tables -> "creating hash_state"
                 [] OTHER -> "ready")
    /\ UNCHANGED <<targetVars, name, staging, tables, effective, changed, raced,
                   faults, leaks, kills, replays>>

(* ... and create it when it was not there.  Meanwhile another apply may *)
(* have created it: CREATE TABLE then fails.                             *)
CreateTable(p) ==
    /\ \E t \in Tables :
        /\ phase[p] = Creating[t]
        /\ IF t \in tables
           THEN Goto(p, "failing") /\ UNCHANGED tables
           ELSE Goto(p, "loaded") /\ tables' = tables \cup {t}
    /\ UNCHANGED <<targetVars, name, staging, effective, changed, raced,
                   faults, leaks, kills, replays>>

SelectEffectiveRows(p) ==
    /\ phase[p] = "ready"
    /\ effective' = [effective EXCEPT ![p] = EffectiveRows(staging[name[p]].events)]
    /\ Goto(p, "selected")
    /\ UNCHANGED <<targetVars, name, staging, tables, changed, raced, faults, leaks, kills, replays>>

(* read_existing_hashes_for_keys, in a transaction of its own, and *)
(* classify_changes.                                               *)
Classify(p) ==
    /\ phase[p] = "selected"
    /\ changed' = [changed EXCEPT ![p] = ChangedKeys(effective[p])]
    /\ Goto(p, "classified")
    /\ UNCHANGED <<targetVars, name, staging, tables, effective, raced, faults, leaks, kills, replays>>

(* Mutant: an error of the upserts is swallowed and the deletes go on. *)
SwallowUpsertError(p) ==
    /\ phase[p] = "classified"
    /\ \E K \in {changed[p], {}} : Upsert([k \in K |-> effective[p][k]])
    /\ raced' = [q \in Appliers |->
            IF q = p THEN {}
            ELSE IF phase[q] = "upserted" THEN raced[q] \cup changed[p]
            ELSE raced[q]]
    /\ Goto(p, "upserted")
    /\ UNCHANGED <<name, staging, tables, effective, changed, faults, leaks, kills, replays>>

(* upsert_changed_rows commits; an empty list opens no transaction. *)
WriteUpserts(p) ==
    /\ phase[p] = "classified"
    /\ Upsert([k \in changed[p] |-> effective[p][k]])
    /\ raced' = [q \in Appliers |->
            IF q = p THEN {}
            ELSE IF phase[q] = "upserted" THEN raced[q] \cup changed[p]
            ELSE raced[q]]
    /\ Goto(p, "upserted")
    /\ UNCHANGED <<name, staging, tables, effective, changed, faults, leaks, kills, replays>>

(* delete_rows_by_keys commits.  What others upserted since it began may be *)
(* missed, by the statement on the curated table or by both.                *)
WriteDeletes(p) ==
    /\ phase[p] = "upserted"
    /\ LET K == DeleteKeys(effective[p])
       IN  \E missed \in SUBSET (K \cap raced[p]) : \E kept \in SUBSET missed :
              Delete(K \ missed, K \ kept)
    /\ Goto(p, "written")
    /\ UNCHANGED <<name, staging, tables, effective, changed, raced, faults, leaks, kills, replays>>

(* What a call held in memory goes with it. *)
Forget(p) ==
    /\ name' = [name EXCEPT ![p] = NoName]
    /\ effective' = [effective EXCEPT ![p] = NoRows]
    /\ changed' = [changed EXCEPT ![p] = {}]
    /\ raced' = [raced EXCEPT ![p] = {}]

(* Mutant: the drop is no finally, a failed apply leaves its table. *)
DropOnlyOnSuccess(p) ==
    /\ phase[p] \in {"written", "failing"}
    /\ staging' = IF phase[p] = "written" THEN [staging EXCEPT ![name[p]] = Free] ELSE staging
    /\ Goto(p, IF phase[p] = "written" THEN "done" ELSE "failed")
    /\ Forget(p)
    /\ UNCHANGED <<targetVars, tables, faults, leaks, kills, replays>>

(* The inner finally: the staging table is dropped, after the result or *)
(* after an exception.                                                  *)
DropStaging(p) ==
    /\ phase[p] \in {"written", "failing"}
    /\ staging' = [staging EXCEPT ![name[p]] = Free]
    /\ Goto(p, IF phase[p] = "written" THEN "done" ELSE "failed")
    /\ Forget(p)
    /\ UNCHANGED <<targetVars, tables, faults, leaks, kills, replays>>

(* Anything inside the inner try raises: bad payload, store or database error. *)
Fail(p) ==
    /\ phase[p] \in Working \ {"created", "written", "failing"}
    /\ faults + kills < MaxFaults
    /\ faults' = faults + 1
    /\ Goto(p, "failing")
    /\ UNCHANGED <<targetVars, name, staging, tables, effective, changed, raced, leaks,
                   kills, replays>>

(* An exception that no drop follows: reflecting the new table raises, which *)
(* is before the inner try, or the drop does, also after a finished apply.   *)
Leak(p) ==
    /\ phase[p] \in {"created", "written", "failing"}
    /\ faults + kills < MaxFaults
    /\ faults' = faults + 1
    /\ leaks' = leaks + 1
    /\ Goto(p, "failed")
    /\ Forget(p)
    /\ UNCHANGED <<targetVars, staging, tables, kills, replays>>

(* The process dies: no finally runs, the staging table stays. *)
Kill(p) ==
    /\ phase[p] \in Working
    /\ faults + kills < MaxFaults
    /\ kills' = kills + 1
    /\ Goto(p, "killed")
    /\ Forget(p)
    /\ UNCHANGED <<targetVars, staging, tables, faults, leaks, replays>>

(* The orchestrator runs the task again. *)
Retry(p) ==
    /\ phase[p] \in {"failed", "killed"}
    /\ Goto(p, "idle")
    /\ UNCHANGED <<targetVars, name, staging, tables, effective, changed, raced,
                   faults, leaks, kills, replays>>

(* A stored artifact is applied once more. *)
Replay(p) ==
    /\ phase[p] = "done"
    /\ replays < MaxReplays
    /\ replays' = replays + 1
    /\ Goto(p, "idle")
    /\ UNCHANGED <<targetVars, name, staging, tables, effective, changed, raced, faults, leaks, kills>>

Step(p) ==
    \/ CreateCollides(p) \/ Reflect(p) \/ Load(p) \/ LookForTables(p) \/ CreateTable(p)
    \/ SelectEffectiveRows(p) \/ Classify(p)
    \/ WriteUpserts(p) \/ WriteDeletes(p) \/ DropStaging(p) \/ Retry(p)

Next ==
    \E p \in Appliers :
        CreateFresh(p) \/ Step(p) \/ Fail(p) \/ Leak(p) \/ Kill(p) \/ Replay(p)

Spec == Init /\ [][Next]_vars

(* Every task goes on running and is retried; the ten hex digits of a fresh *)
(* uuid are not taken for ever.                                             *)
Fairness ==
    \A p \in Appliers : WF_vars(Step(p)) /\ SF_vars(CreateFresh(p))

FairSpec == Spec /\ Fairness
-----------------------------------------------------------------------------
TypeOK ==
    /\ TargetTypeOK
    /\ phase \in [Appliers -> Phases]
    /\ name \in [Appliers -> Names \cup {NoName}]
    /\ staging \in [Names -> [owner : Appliers \cup {NoOwner}, events : SUBSET Events]]
    /\ tables \in SUBSET Tables
    /\ effective \in [Appliers -> EffectiveSets]
    /\ changed \in [Appliers -> SUBSET Keys]
    /\ raced \in [Appliers -> SUBSET Keys]
    /\ faults \in Nat /\ leaks \in 0..faults /\ kills \in Nat /\ faults + kills <= MaxFaults
    /\ replays \in 0..MaxReplays

Touches(p, k) == \E e \in Artifact[p] : e.key = k

(* The rows an artifact's last events for key k leave there. *)
LastRows(p, k) ==
    {e.row : e \in {d \in Artifact[p] :
        d.key = k /\ \A f \in Artifact[p] : f.key = k => f.pos <= d.pos}}

(***************************************************************************)
(* When every artifact that touches a key has been applied, the key holds  *)
(* the last event for it of one of them: no skipped row, no interleaving   *)
(* of appliers and no crash between the two write transactions leaves      *)
(* anything else.                                                          *)
(***************************************************************************)
AppliedRowIsSomeArtifacts ==
    \A k \in Keys :
        LET touching == {p \in Appliers : Touches(p, k)}
        IN  touching # {} /\ (\A p \in touching : phase[p] = "done") =>
                \E p \in touching : curated[k] \in LastRows(p, k)

(***************************************************************************)
(* A row moved to another key is never missing: when an apply removes      *)
(* rows, all the rows of its artifact are there, unless another artifact   *)
(* deletes them (delta_apply.py:298-314).                                  *)
(***************************************************************************)
MovedRowNeverMissing ==
    [][\A p \in Appliers :
        (phase[p] = "upserted" /\ phase'[p] = "written" /\ curated' # curated) =>
            \A k \in UpsertKeys(EffectiveRows(Artifact[p])) :
                \/ curated[k] # Absent
                \/ \E q \in Appliers \ {p} :
                        k \in DeleteKeys(EffectiveRows(Artifact[q]))]_vars

(***************************************************************************)
(* No two applies share a staging table, so each selects from its own      *)
(* artifact and nobody else drops what it loaded.                          *)
(***************************************************************************)
StagingPrivate ==
    \A p \in Appliers : phase[p] \in Working =>
        /\ staging[name[p]].owner = p
        /\ staging[name[p]].events \subseteq Artifact[p]
        /\ phase[p] \in Loaded => staging[name[p]].events = Artifact[p]

(***************************************************************************)
(* Staging tables are short-lived.  A table without a running apply was    *)
(* left by a process that died, or by an exception of the two calls that   *)
(* no finally covers, the look-up of the new table (delta_apply.py:123)    *)
(* and the drop itself (333); each left one.  An error of the artifact,    *)
(* the store or the target leaves none, at whatever step it comes.         *)
(***************************************************************************)
Orphans ==
    {n \in Names : staging[n] # Free /\ \A p \in Appliers : name[p] # n}
StagingShortLived == Cardinality(Orphans) <= kills + leaks

(***************************************************************************)
(* Every artifact is applied in the end, whatever fails on the way.        *)
(***************************************************************************)
EveryArtifactApplied == <>[](\A p \in Appliers : phase[p] = "done")
=============================================================================
