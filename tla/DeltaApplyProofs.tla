-------------------------- MODULE DeltaApplyProofs --------------------------
(***************************************************************************)
(* Proofs about DeltaApply: any number of appliers, artifacts, keys and    *)
(* staging table names, and any number of failures, deaths and replays.    *)
(*                                                                         *)
(* An apply skips a row whose hash is recorded.  Only what it leaves in    *)
(* such a row's place depends on hashes telling rows apart: that result    *)
(* has the hypothesis NoCollisions.                                        *)
(***************************************************************************)
EXTENDS DeltaApply, AtomicTargetProofs

(* What the artifact of p comes down to. *)
Effect(p) == EffectiveRows(Artifact[p])

Selected == {"selected", "classified", "upserted", "written"}

(* Only a working apply has a staging table; it is its own and not dropped. *)
StagingHeld ==
    \A p \in Appliers :
        /\ phase[p] \notin Working => name[p] = NoName
        /\ phase[p] \in Working => name[p] \in Names /\ staging[name[p]].owner = p

(* What an apply has selected and classified. *)
Derived ==
    \A p \in Appliers :
        /\ phase[p] \in Selected => effective[p] = Effect(p)
        /\ phase[p] \in {"classified", "upserted"} => changed[p] \subseteq UpsertKeys(Effect(p))

(* Orphaned staging tables are as many as deaths and undropped tables, or *)
(* fewer.                                                                 *)
OrphansCounted == IsFiniteSet(Orphans) /\ Cardinality(Orphans) <= kills + leaks

(* A row of p's artifact is there, or another artifact deletes it. *)
PresentOrDeleted(p, k) ==
    \/ curated[k] # Absent
    \/ \E q \in Appliers \ {p} : k \in DeleteKeys(Effect(q))

RowsPresent ==
    \A p \in Appliers :
        /\ phase[p] = "classified" =>
              \A k \in UpsertKeys(Effect(p)) \ changed[p] : PresentOrDeleted(p, k)
        /\ phase[p] = "upserted" =>
              \A k \in UpsertKeys(Effect(p)) : PresentOrDeleted(p, k)

(* Key k holds what some artifact leaves there. *)
LeftBySome(k) ==
    \E q \in Appliers : k \in DOMAIN Effect(q) /\ curated[k] = Effect(q)[k]

(* How far an apply has got, in keys: what it upserted or found recorded,  *)
(* what others upserted during its deletes, and, after these, all of them. *)
AppliedKeys ==
    \A p \in Appliers :
        /\ \A k \in raced[p] : LeftBySome(k)
        /\ phase[p] = "classified" =>
              \A k \in UpsertKeys(Effect(p)) \ changed[p] : LeftBySome(k)
        /\ phase[p] = "upserted" => \A k \in UpsertKeys(Effect(p)) : LeftBySome(k)
        /\ phase[p] \in {"written", "done"} => \A k \in DOMAIN Effect(p) : LeftBySome(k)

(* Equal hashes are equal rows: then a recorded row needs no writing. *)
KeysAreLeft == NoCollisions => AppliedKeys

IInv ==
    /\ TypeOK
    /\ HashStateSound
    /\ StagingHeld
    /\ StagingPrivate
    /\ Derived
    /\ OrphansCounted
    /\ RowsPresent
    /\ KeysAreLeft
-----------------------------------------------------------------------------
(* Every key of an artifact has a last event. *)
LEMMA LatestExists ==
    ASSUME NEW events \in SUBSET Events, IsFiniteSet(events), NEW d \in events
    PROVE  \E e \in Latest(events) : e.key = d.key
<1> DEFINE S == {e \in events : e.key = d.key}
           num == [e \in S |-> e.pos]
<1>1. IsFiniteSet(S) /\ S # {}
    BY FS_Subset
<1>2. num \in [S -> Int]
    BY DEF Events
<1>3. \E x \in S : \A y \in S : num[y] <= num[x]
    <2> HIDE DEF S, num
    <2> QED BY <1>1, <1>2, LargestExists
<1>4. PICK x \in S : \A y \in S : num[y] <= num[x]
    BY <1>3
<1>5. x \in Latest(events) /\ x.key = d.key
    BY <1>4 DEF Latest
<1> QED BY <1>5

(* The phases in which the staging table is full and not yet read. *)
LEMMA LoadedPhases ==
    Loaded = {"loaded", "ready", "creating curated", "creating hash_state"}
BY DEF Loaded, Creating, Tables

(* What an artifact leaves under each of its keys is the row of a last event. *)
LEMMA EffectOfKey ==
    ASSUME NEW p \in Appliers
    PROVE  /\ DOMAIN Effect(p) = {k \in Keys : Touches(p, k)}
           /\ \A k \in DOMAIN Effect(p) :
                 Effect(p)[k] \in LastRows(p, k) /\ Effect(p)[k] \in Rows \cup {Absent}
<1> DEFINE events == Artifact[p]
           D == {e.key : e \in events}
<1>1. events \in SUBSET Events /\ IsFiniteSet(events)
    BY ArtifactAssumption
<1>2. D = {k \in Keys : Touches(p, k)}
    BY <1>1 DEF Touches, Events
<1>3. Effect(p) = [k \in D |-> (CHOOSE e \in Latest(events) : e.key = k).row]
    BY DEF Effect, EffectiveRows
<1>4. ASSUME NEW k \in D
      PROVE  Effect(p)[k] \in LastRows(p, k) /\ Effect(p)[k] \in Rows \cup {Absent}
    <2>1. \E e \in Latest(events) : e.key = k
        BY <1>1, LatestExists
    <2>2. PICK e \in Latest(events) : e.key = k /\ Effect(p)[k] = e.row
        <3>1. /\ (CHOOSE e \in Latest(events) : e.key = k) \in Latest(events)
              /\ (CHOOSE e \in Latest(events) : e.key = k).key = k
            BY <2>1, Zenon
        <3> QED BY <1>3, <3>1
    <2>3. e \in Artifact[p] /\ \A f \in Artifact[p] : f.key = k => f.pos <= e.pos
        BY <2>2 DEF Latest
    <2> QED BY <1>1, <2>2, <2>3 DEF LastRows, Events
<1> QED BY <1>2, <1>3, <1>4

(* It is well typed. *)
LEMMA EffectType ==
    ASSUME NEW p \in Appliers
    PROVE  Effect(p) \in EffectiveSets
<1> DEFINE D == DOMAIN Effect(p)
<1>1. Effect(p) = [k \in D |-> Effect(p)[k]]
    BY DEF Effect, EffectiveRows
<1>2. D \subseteq Keys /\ \A k \in D : Effect(p)[k] \in Rows \cup {Absent}
    BY EffectOfKey
<1> HIDE DEF D
<1>3. Effect(p) \in [D -> Rows \cup {Absent}]
    BY <1>1, <1>2
<1> QED BY <1>2, <1>3 DEF EffectiveSets

(* The rows to be upserted are a batch. *)
LEMMA UpsertIsBatch ==
    ASSUME NEW eff \in EffectiveSets, NEW K, K \subseteq UpsertKeys(eff)
    PROVE  [k \in K |-> eff[k]] \in Batches
<1>1. K \subseteq Keys /\ \A k \in K : eff[k] \in Rows
    BY DEF UpsertKeys, EffectiveSets
<1>2. [k \in K |-> eff[k]] \in [K -> Rows]
    BY <1>1
<1> QED BY <1>1, <1>2 DEF Batches

(* An apply that has selected nothing is well typed. *)
LEMMA NoRowsType == NoRows \in EffectiveSets
<1>1. NoRows \in [{} -> Rows \cup {Absent}]
    BY DEF NoRows
<1> QED BY <1>1 DEF EffectiveSets

(* The invariant holds before anything runs. *)
LEMMA InitIInv == Init => IInv
<1> SUFFICES ASSUME Init PROVE IInv
    OBVIOUS
<1> USE DEF Init
<1>1. TypeOK
    <2>1. Free \in [owner : Appliers \cup {NoOwner}, events : SUBSET Events]
        BY DEF Free
    <2> QED BY <2>1, NoRowsType, TargetInitSound, BoundsAssumption DEF TypeOK, Phases
<1>2. HashStateSound /\ StagingHeld /\ StagingPrivate /\ Derived
    BY TargetInitSound DEF StagingHeld, StagingPrivate, Derived, Working, Phases, Selected
<1>3. OrphansCounted
    <2>1. Orphans = {}
        BY DEF Orphans
    <2> QED BY <2>1, FS_EmptySet DEF OrphansCounted
<1>4. RowsPresent /\ KeysAreLeft
    BY DEF RowsPresent, KeysAreLeft, AppliedKeys
<1> QED BY <1>1, <1>2, <1>3, <1>4 DEF IInv
-----------------------------------------------------------------------------
(* A step that writes no row and claims no more keys than it had. *)
LEMMA QuietStep ==
    ASSUME IInv, NEW p \in Appliers, NEW ph, Goto(p, ph), UNCHANGED targetVars,
           \A q \in Appliers : raced'[q] \subseteq raced[q],
           \A q \in Appliers \ {p} : changed'[q] = changed[q],
           ph \in {"classified", "upserted", "written", "done"} =>
                phase[p] = "written" /\ ph = "done"
    PROVE  TargetTypeOK' /\ HashStateSound' /\ RowsPresent' /\ KeysAreLeft'
<1> USE DEF IInv, TypeOK, Goto, targetVars
<1>1. TargetTypeOK' /\ HashStateSound'
    BY DEF TargetTypeOK, HashStateSound
<1>2. RowsPresent'
    BY DEF RowsPresent, PresentOrDeleted
<1>3. KeysAreLeft'
    BY DEF KeysAreLeft, AppliedKeys, LeftBySome
<1> QED BY <1>1, <1>2, <1>3

(* A step that leaves the staging tables alone, and keeps its own or none. *)
LEMMA StagingUntouched ==
    ASSUME IInv, NEW p \in Appliers, NEW ph \in Phases, Goto(p, ph),
           UNCHANGED <<name, staging, kills, leaks>>,
           phase[p] \in Working <=> ph \in Working,
           ph \in Loaded => phase[p] \in Loaded
    PROVE  StagingHeld' /\ StagingPrivate' /\ OrphansCounted'
<1> USE DEF IInv, TypeOK, Goto
<1>1. StagingHeld'
    BY DEF StagingHeld
<1>2. StagingPrivate'
    BY DEF StagingPrivate
<1>3. OrphansCounted'
    BY DEF OrphansCounted, Orphans
<1> QED BY <1>1, <1>2, <1>3

(* A new staging table belongs to the apply that created it. *)
LEMMA CreateFreshIInv ==
    ASSUME IInv, NEW p \in Appliers, CreateFresh(p)
    PROVE  IInv'
<1> USE DEF IInv
<1>1. PICK n \in Names :
        /\ staging[n] = Free
        /\ name' = [name EXCEPT ![p] = n]
        /\ staging' = [staging EXCEPT ![n] = [owner |-> p, events |-> {}]]
    BY DEF CreateFresh
<1>2. /\ phase[p] = "idle" /\ Goto(p, "created")
      /\ phase' = [phase EXCEPT ![p] = "created"]
      /\ UNCHANGED <<targetVars, tables, effective, changed, raced, faults, leaks, kills, replays>>
    BY DEF CreateFresh, Goto
<1>3. TargetTypeOK' /\ HashStateSound' /\ RowsPresent' /\ KeysAreLeft'
    BY <1>2, QuietStep
<1>4. TypeOK'
    BY <1>1, <1>2, <1>3 DEF TypeOK, Phases
<1>5. name[p] = NoName /\ NoName \notin Names
    BY <1>2, NamesAssumption DEF StagingHeld, Working
<1>6. \A q \in Appliers : name[q] # n
    <2>1. \A q \in Appliers : phase[q] \in Working => staging[name[q]].owner \in Appliers
        BY DEF StagingHeld
    <2> QED BY <1>1, <1>5, <2>1, NamesAssumption DEF StagingHeld, Free
<1>7. StagingHeld'
    BY <1>1, <1>2, <1>6 DEF StagingHeld, TypeOK, Working, Phases
<1>8. StagingPrivate'
    <2>1. \A q \in Appliers \ {p} : phase'[q] = phase[q] /\ name'[q] = name[q]
                                     /\ staging'[name'[q]] = staging[name[q]]
        BY <1>1, <1>2, <1>6 DEF TypeOK
    <2>2. /\ staging'[name'[p]].owner = p /\ staging'[name'[p]].events = {}
          /\ phase'[p] = "created"
        BY <1>1, <1>2 DEF TypeOK
    <2>3. "created" \notin Loaded
        BY LoadedPhases
    <2> QED BY <2>1, <2>2, <2>3 DEF StagingPrivate
<1>9. Derived'
    BY <1>2 DEF Derived, TypeOK, Selected
<1>10. OrphansCounted'
    <2>1. Orphans' = Orphans
        BY <1>1, <1>2, <1>5, <1>6 DEF Orphans, TypeOK, Free
    <2> QED BY <1>2, <2>1 DEF OrphansCounted
<1> QED BY <1>3, <1>4, <1>7, <1>8, <1>9, <1>10

(* An apply that found its name taken has no staging table. *)
LEMMA CreateCollidesIInv ==
    ASSUME IInv, NEW p \in Appliers, CreateCollides(p)
    PROVE  IInv'
<1> USE DEF IInv, CreateCollides
<1>1. TargetTypeOK' /\ HashStateSound' /\ RowsPresent' /\ KeysAreLeft'
    BY QuietStep
<1>2. StagingHeld' /\ StagingPrivate' /\ OrphansCounted'
    BY StagingUntouched, LoadedPhases DEF Working, Phases
<1>3. TypeOK' /\ Derived'
    BY <1>1 DEF TypeOK, Goto, Phases, Derived, Selected
<1> QED BY <1>1, <1>2, <1>3

(* Looking the new table up changes nothing but the phase. *)
LEMMA ReflectIInv ==
    ASSUME IInv, NEW p \in Appliers, Reflect(p)
    PROVE  IInv'
<1> USE DEF IInv, Reflect
<1>1. TargetTypeOK' /\ HashStateSound' /\ RowsPresent' /\ KeysAreLeft'
    BY QuietStep
<1>2. StagingHeld' /\ StagingPrivate' /\ OrphansCounted'
    BY StagingUntouched, LoadedPhases DEF Working, Phases
<1>3. TypeOK' /\ Derived'
    BY <1>1 DEF TypeOK, Goto, Phases, Derived, Selected
<1> QED BY <1>1, <1>2, <1>3

(* Loading fills the apply's own table with its own artifact. *)
LEMMA LoadIInv ==
    ASSUME IInv, NEW p \in Appliers, Load(p)
    PROVE  IInv'
<1> USE DEF IInv
<1>1. /\ phase[p] = "staged" /\ Goto(p, "loaded")
      /\ phase' = [phase EXCEPT ![p] = "loaded"]
      /\ staging' = [staging EXCEPT ![name[p]].events = @ \cup Artifact[p]]
      /\ UNCHANGED <<targetVars, name, tables, effective, changed, raced, faults, leaks, kills, replays>>
    BY DEF Load, Goto
<1>2. TargetTypeOK' /\ HashStateSound' /\ RowsPresent' /\ KeysAreLeft'
    BY <1>1, QuietStep
<1>3. /\ name[p] \in Names /\ staging[name[p]].owner = p
      /\ staging[name[p]].events \subseteq Artifact[p] /\ Artifact[p] \subseteq Events
    BY <1>1, ArtifactAssumption DEF StagingHeld, StagingPrivate, Working, Phases
<1>4. staging' = [staging EXCEPT ![name[p]] = [owner |-> p, events |-> Artifact[p]]]
    <2> DEFINE r == staging[name[p]]
    <2>1. r \in [owner : Appliers \cup {NoOwner}, events : SUBSET Events]
        BY <1>3 DEF TypeOK
    <2>2. r.events \cup Artifact[p] = Artifact[p] /\ r.owner = p
        BY <1>3
    <2>3. [r EXCEPT !.events = @ \cup Artifact[p]] = [owner |-> p, events |-> Artifact[p]]
        <3> HIDE DEF r
        <3> QED BY <2>1, <2>2
    <2> QED BY <1>1, <2>3
<1>5. TypeOK' /\ Derived'
    <2>1. staging' \in [Names -> [owner : Appliers \cup {NoOwner}, events : SUBSET Events]]
        <3>1. [owner |-> p, events |-> Artifact[p]]
                \in [owner : Appliers \cup {NoOwner}, events : SUBSET Events]
            BY <1>3
        <3> QED BY <1>4, <3>1 DEF TypeOK
    <2> QED BY <1>1, <1>2, <2>1 DEF TypeOK, Phases, Derived, Selected
<1>6. \A q \in Appliers \ {p} : name[q] # name[p]
    BY <1>3, NamesAssumption DEF StagingHeld
<1>7. StagingHeld'
    <2>1. \A q \in Appliers \ {p} : phase'[q] = phase[q] /\ name'[q] = name[q]
                                     /\ staging'[name'[q]] = staging[name[q]]
        BY <1>1, <1>4, <1>6 DEF TypeOK
    <2>2. /\ name'[p] \in Names /\ staging'[name'[p]].owner = p /\ phase'[p] = "loaded"
        BY <1>1, <1>3, <1>4 DEF TypeOK
    <2> QED BY <2>1, <2>2 DEF StagingHeld, Working, Phases
<1>8. StagingPrivate'
    <2>1. \A q \in Appliers \ {p} : phase'[q] = phase[q] /\ name'[q] = name[q]
                                     /\ staging'[name'[q]] = staging[name[q]]
        BY <1>1, <1>4, <1>6 DEF TypeOK
    <2>2. staging'[name'[p]].owner = p /\ staging'[name'[p]].events = Artifact[p]
        BY <1>1, <1>3, <1>4 DEF TypeOK
    <2> QED BY <2>1, <2>2 DEF StagingPrivate
<1>9. OrphansCounted'
    <2>1. Orphans' = Orphans
        BY <1>1, <1>3, <1>4, NamesAssumption DEF Orphans, TypeOK, Free
    <2> QED BY <1>1, <2>1 DEF OrphansCounted
<1> QED BY <1>2, <1>5, <1>7, <1>8, <1>9

(* Looking for the target tables changes nothing but the phase. *)
LEMMA LookForTablesIInv ==
    ASSUME IInv, NEW p \in Appliers, LookForTables(p)
    PROVE  IInv'
<1> USE DEF IInv
<1>1. PICK ph \in {"creating curated", "creating hash_state", "ready"} : Goto(p, ph)
    BY DEF LookForTables
<1>2. /\ phase[p] = "loaded"
      /\ UNCHANGED <<targetVars, name, staging, tables, effective, changed, raced,
                     faults, leaks, kills, replays>>
    BY DEF LookForTables
<1>3. TargetTypeOK' /\ HashStateSound' /\ RowsPresent' /\ KeysAreLeft'
    BY <1>1, <1>2, QuietStep
<1>4. StagingHeld' /\ StagingPrivate' /\ OrphansCounted'
    BY <1>1, <1>2, StagingUntouched, LoadedPhases DEF Working, Phases
<1>5. TypeOK' /\ Derived'
    BY <1>1, <1>2, <1>3 DEF TypeOK, Goto, Phases, Derived, Selected
<1> QED BY <1>3, <1>4, <1>5

(* Creating a target table, or finding it created. *)
LEMMA CreateTableIInv ==
    ASSUME IInv, NEW p \in Appliers, CreateTable(p)
    PROVE  IInv'
<1> USE DEF IInv
<1>1. PICK ph \in {"failing", "loaded"} : Goto(p, ph)
    BY DEF CreateTable
<1>2. /\ phase[p] \in {"creating curated", "creating hash_state"}
      /\ tables' \in SUBSET Tables
      /\ UNCHANGED <<targetVars, name, staging, effective, changed, raced,
                     faults, leaks, kills, replays>>
    BY DEF CreateTable, Creating, Tables, TypeOK
<1>3. TargetTypeOK' /\ HashStateSound' /\ RowsPresent' /\ KeysAreLeft'
    BY <1>1, <1>2, QuietStep
<1>4. StagingHeld' /\ StagingPrivate' /\ OrphansCounted'
    BY <1>1, <1>2, StagingUntouched, LoadedPhases DEF Working, Phases
<1>5. TypeOK' /\ Derived'
    BY <1>1, <1>2, <1>3 DEF TypeOK, Goto, Phases, Derived, Selected
<1> QED BY <1>3, <1>4, <1>5

(* An apply selects from its own artifact. *)
LEMMA SelectEffectiveRowsIInv ==
    ASSUME IInv, NEW p \in Appliers, SelectEffectiveRows(p)
    PROVE  IInv'
<1> USE DEF IInv
<1>1. /\ phase[p] = "ready" /\ Goto(p, "selected")
      /\ UNCHANGED <<targetVars, name, staging, tables, changed, raced, faults, leaks, kills, replays>>
    BY DEF SelectEffectiveRows
<1>2. effective' = [effective EXCEPT ![p] = Effect(p)] /\ Effect(p) \in EffectiveSets
    BY <1>1, LoadedPhases, EffectType
    DEF SelectEffectiveRows, StagingPrivate, Effect, Working, Phases
<1>3. TargetTypeOK' /\ HashStateSound' /\ RowsPresent' /\ KeysAreLeft'
    BY <1>1, QuietStep
<1>4. StagingHeld' /\ StagingPrivate' /\ OrphansCounted'
    BY <1>1, StagingUntouched, LoadedPhases DEF Working, Phases
<1>5. TypeOK' /\ Derived'
    BY <1>1, <1>2, <1>3 DEF TypeOK, Goto, Phases, Derived, Selected
<1> QED BY <1>3, <1>4, <1>5

(* A row that is recorded with its hash is there, whatever hashes are; it *)
(* is that very row when no two rows have one hash.                       *)
LEMMA ClassifyIInv ==
    ASSUME IInv, NEW p \in Appliers, Classify(p)
    PROVE  IInv'
<1> USE DEF IInv
<1>1. /\ phase[p] = "selected" /\ Goto(p, "classified")
      /\ phase' = [phase EXCEPT ![p] = "classified"]
      /\ effective[p] = Effect(p)
      /\ changed' = [changed EXCEPT ![p] = ChangedKeys(Effect(p))]
      /\ UNCHANGED <<targetVars, name, staging, tables, effective, raced, faults, leaks, kills, replays>>
      /\ UNCHANGED <<curated, hashState>>
    BY DEF Classify, Goto, Derived, Selected, targetVars
<1>2. UpsertKeys(Effect(p)) \subseteq DOMAIN Effect(p) /\ DOMAIN Effect(p) \subseteq Keys
    BY EffectOfKey DEF UpsertKeys
<1>3. \A k \in UpsertKeys(Effect(p)) : Effect(p)[k] \in Rows
    BY EffectOfKey DEF UpsertKeys
<1>4. \A k \in UpsertKeys(Effect(p)) \ ChangedKeys(Effect(p)) :
        hashState[k] = RowHash[Effect(p)[k]] /\ hashState[k] # Absent
    BY <1>3, RowHashAssumption, AbsentAssumption DEF ChangedKeys
<1>5. TypeOK'
    BY <1>1, <1>2 DEF TypeOK, TargetTypeOK, Phases, ChangedKeys
<1>6. HashStateSound'
    BY <1>1 DEF HashStateSound
<1>7. StagingHeld' /\ StagingPrivate' /\ OrphansCounted'
    BY <1>1, StagingUntouched, LoadedPhases DEF Working, Phases
<1>8. Derived'
    BY <1>1 DEF Derived, TypeOK, Selected, ChangedKeys
<1>9. RowsPresent'
    <2>1. \A k \in UpsertKeys(Effect(p)) \ ChangedKeys(Effect(p)) : curated[k] # Absent
        BY <1>2, <1>4 DEF HashStateSound
    <2> QED BY <1>1, <2>1 DEF RowsPresent, PresentOrDeleted, TypeOK
<1>10. KeysAreLeft'
    <2>1. ASSUME NoCollisions
          PROVE  \A k \in UpsertKeys(Effect(p)) \ ChangedKeys(Effect(p)) : LeftBySome(k)
        BY <1>2, <1>3, <1>4, <2>1, RecordedRowIsThere DEF LeftBySome, TypeOK
    <2> QED BY <1>1, <2>1 DEF KeysAreLeft, AppliedKeys, LeftBySome, TypeOK
<1> QED BY <1>5, <1>6, <1>7, <1>8, <1>9, <1>10

(* The upserts leave p's rows under all keys they write. *)
LEMMA WriteUpsertsIInv ==
    ASSUME IInv, NEW p \in Appliers, WriteUpserts(p)
    PROVE  IInv'
<1> USE DEF IInv
<1> DEFINE K == changed[p]
<1>1. /\ phase[p] = "classified" /\ Goto(p, "upserted")
      /\ phase' = [phase EXCEPT ![p] = "upserted"]
      /\ effective[p] = Effect(p) /\ K \subseteq UpsertKeys(Effect(p))
      /\ Upsert([k \in K |-> Effect(p)[k]])
      /\ raced' = [q \in Appliers |->
            IF q = p THEN {}
            ELSE IF phase[q] = "upserted" THEN raced[q] \cup K
            ELSE raced[q]]
      /\ UNCHANGED <<name, staging, tables, effective, changed, faults, leaks, kills, replays>>
    BY DEF WriteUpserts, Goto, Derived, Selected
<1>2. [k \in K |-> Effect(p)[k]] \in Batches
    BY <1>1, EffectType, UpsertIsBatch
<1>3. TargetTypeOK' /\ HashStateSound'
    BY <1>1, <1>2, UpsertSound DEF TypeOK
<1>4. /\ K \subseteq Keys /\ K \subseteq DOMAIN Effect(p)
      /\ \A k \in K : curated'[k] = Effect(p)[k] /\ curated'[k] # Absent
      /\ \A k \in Keys \ K : curated'[k] = curated[k]
    BY <1>1, EffectOfKey DEF Upsert, UpsertKeys
<1>5. TypeOK'
    BY <1>1, <1>3, <1>4 DEF TypeOK, Phases
<1>6. StagingHeld' /\ StagingPrivate' /\ OrphansCounted'
    BY <1>1, StagingUntouched, LoadedPhases DEF Working, Phases
<1>7. Derived'
    BY <1>1 DEF Derived, TypeOK, Selected
<1>8. \A q \in Appliers : UpsertKeys(Effect(q)) \subseteq Keys
    BY EffectOfKey DEF UpsertKeys
<1>9. RowsPresent'
    <2>1. \A q \in Appliers, k \in Keys : PresentOrDeleted(q, k) => PresentOrDeleted(q, k)'
        BY <1>4 DEF PresentOrDeleted
    <2>2. \A q \in Appliers, k \in K : PresentOrDeleted(q, k)'
        BY <1>4 DEF PresentOrDeleted
    <2> QED BY <1>1, <1>8, <2>1, <2>2 DEF RowsPresent, TypeOK
<1>10. KeysAreLeft'
    <2>1. \A k \in Keys : LeftBySome(k) => LeftBySome(k)'
        BY <1>4 DEF LeftBySome
    <2>2. \A k \in K : LeftBySome(k)'
        BY <1>4 DEF LeftBySome
    <2>3. \A q \in Appliers : DOMAIN Effect(q) \subseteq Keys /\ raced[q] \subseteq Keys
        BY EffectOfKey DEF TypeOK
    <2> QED BY <1>1, <1>8, <2>1, <2>2, <2>3 DEF KeysAreLeft, AppliedKeys, TypeOK
<1> QED BY <1>3, <1>5, <1>6, <1>7, <1>9, <1>10

(* What the deletes do: rows of deleted keys go, unless another apply has  *)
(* upserted them meanwhile.                                                *)
LEMMA WriteDeletesEffect ==
    ASSUME IInv, NEW p \in Appliers, WriteDeletes(p)
    PROVE  \E C \in SUBSET DeleteKeys(Effect(p)) :
            /\ DeleteKeys(Effect(p)) \ C \subseteq raced[p]
            /\ \A k \in C : k \in Keys /\ curated'[k] = Absent
            /\ \A k \in Keys \ C : curated'[k] = curated[k]
            /\ TargetTypeOK' /\ HashStateSound'
<1> USE DEF IInv
<1>1. effective[p] = Effect(p)
    BY DEF WriteDeletes, Derived, Selected
<1>2. PICK missed \in SUBSET (DeleteKeys(Effect(p)) \cap raced[p]) :
        \E kept \in SUBSET missed :
            Delete(DeleteKeys(Effect(p)) \ missed, DeleteKeys(Effect(p)) \ kept)
    BY <1>1 DEF WriteDeletes
<1>3. TargetTypeOK' /\ HashStateSound'
    BY <1>2, DeleteSound DEF TypeOK
<1>4. DeleteKeys(Effect(p)) \subseteq Keys
    BY EffectOfKey DEF DeleteKeys
<1> DEFINE C == DeleteKeys(Effect(p)) \ missed
<1>5. /\ \A k \in C : k \in Keys /\ curated'[k] = Absent
      /\ \A k \in Keys \ C : curated'[k] = curated[k]
    BY <1>2, <1>4 DEF Delete
<1>6. DeleteKeys(Effect(p)) \ C \subseteq raced[p]
    OBVIOUS
<1> QED BY <1>3, <1>5, <1>6

(* After the deletes every key of p's artifact is as some artifact says. *)
LEMMA WriteDeletesIInv ==
    ASSUME IInv, NEW p \in Appliers, WriteDeletes(p)
    PROVE  IInv'
<1> USE DEF IInv
<1>1. /\ phase[p] = "upserted" /\ Goto(p, "written")
      /\ phase' = [phase EXCEPT ![p] = "written"]
      /\ UNCHANGED <<name, staging, tables, effective, changed, raced, faults, leaks, kills, replays>>
    BY DEF WriteDeletes, Goto
<1>2. PICK C \in SUBSET DeleteKeys(Effect(p)) :
        /\ DeleteKeys(Effect(p)) \ C \subseteq raced[p]
        /\ \A k \in C : k \in Keys /\ curated'[k] = Absent
        /\ \A k \in Keys \ C : curated'[k] = curated[k]
        /\ TargetTypeOK' /\ HashStateSound'
    BY WriteDeletesEffect
<1>3. TypeOK'
    BY <1>1, <1>2 DEF TypeOK, Phases
<1>4. StagingHeld' /\ StagingPrivate' /\ OrphansCounted'
    BY <1>1, StagingUntouched, LoadedPhases DEF Working, Phases
<1>5. Derived'
    BY <1>1 DEF Derived, TypeOK, Selected
<1>6. \A q \in Appliers : UpsertKeys(Effect(q)) \subseteq Keys
    BY EffectOfKey DEF UpsertKeys
<1>7. RowsPresent'
    <2>1. \A q \in Appliers \ {p}, k \in Keys : PresentOrDeleted(q, k) => PresentOrDeleted(q, k)'
        BY <1>2 DEF PresentOrDeleted
    <2> QED BY <1>1, <1>6, <2>1 DEF RowsPresent, TypeOK
<1>8. KeysAreLeft'
    <2>1. \A k \in C : LeftBySome(k)'
        BY <1>2 DEF LeftBySome, DeleteKeys
    <2>2. \A k \in Keys : LeftBySome(k) => LeftBySome(k)'
        BY <1>2, <2>1 DEF LeftBySome
    <2>3. \A q \in Appliers : DOMAIN Effect(q) \subseteq Keys /\ raced[q] \subseteq Keys
        BY EffectOfKey DEF TypeOK
    <2>4. DOMAIN Effect(p) = UpsertKeys(Effect(p)) \cup DeleteKeys(Effect(p))
        BY DEF UpsertKeys, DeleteKeys
    <2>5. AppliedKeys => \A k \in DOMAIN Effect(p) : LeftBySome(k)'
        <3> SUFFICES ASSUME AppliedKeys, NEW k \in DOMAIN Effect(p) PROVE LeftBySome(k)'
            OBVIOUS
        <3>1. k \in UpsertKeys(Effect(p)) \/ k \in C \/ k \in raced[p]
            BY <1>2, <2>4
        <3> QED BY <1>1, <2>1, <2>2, <2>3, <3>1 DEF AppliedKeys
    <2>6. AppliedKeys => AppliedKeys'
        BY <1>1, <1>6, <2>2, <2>3, <2>5 DEF AppliedKeys, TypeOK
    <2> QED BY <2>6 DEF KeysAreLeft
<1> QED BY <1>2, <1>3, <1>4, <1>5, <1>7, <1>8

(* Dropping the staging table frees its name and nobody else's. *)
LEMMA DropStagingIInv ==
    ASSUME IInv, NEW p \in Appliers, DropStaging(p)
    PROVE  IInv'
<1> USE DEF IInv
<1>1. PICK ph \in {"done", "failed"} :
        Goto(p, ph) /\ (ph = "done" => phase[p] = "written")
    BY DEF DropStaging
<1>2. /\ phase[p] \in {"written", "failing"} /\ phase' = [phase EXCEPT ![p] = ph]
      /\ staging' = [staging EXCEPT ![name[p]] = Free]
      /\ name' = [name EXCEPT ![p] = NoName]
      /\ effective' = [effective EXCEPT ![p] = NoRows]
      /\ changed' = [changed EXCEPT ![p] = {}]
      /\ raced' = [raced EXCEPT ![p] = {}]
      /\ UNCHANGED <<targetVars, tables, faults, leaks, kills, replays>>
    BY <1>1 DEF DropStaging, Forget, Goto
<1>3. TargetTypeOK' /\ HashStateSound' /\ RowsPresent' /\ KeysAreLeft'
    BY <1>1, <1>2, QuietStep DEF TypeOK
<1>4. name[p] \in Names /\ staging[name[p]].owner = p /\ NoName \notin Names
    BY <1>2, NamesAssumption DEF StagingHeld, Working, Phases
<1>5. \A q \in Appliers \ {p} : name[q] # name[p]
    BY <1>4, NamesAssumption DEF StagingHeld
<1>6. TypeOK'
    <2>1. Free \in [owner : Appliers \cup {NoOwner}, events : SUBSET Events]
        BY DEF Free
    <2> QED BY <1>1, <1>2, <1>3, <2>1, NoRowsType DEF TypeOK, Phases
<1>7. \A q \in Appliers \ {p} : phase'[q] = phase[q] /\ name'[q] = name[q]
                                 /\ staging'[name'[q]] = staging[name[q]]
    <2>1. \A q \in Appliers \ {p} : phase'[q] = phase[q] /\ name'[q] = name[q]
        BY <1>2 DEF TypeOK
    <2>2. \A q \in Appliers \ {p} : staging'[name[q]] = staging[name[q]]
        BY <1>2, <1>5 DEF TypeOK
    <2> QED BY <2>1, <2>2
<1>8. StagingHeld' /\ StagingPrivate'
    <2>1. phase'[p] \notin Working /\ name'[p] = NoName
        BY <1>1, <1>2 DEF Working, Phases, TypeOK
    <2> QED BY <1>7, <2>1 DEF StagingHeld, StagingPrivate
<1>9. Derived'
    BY <1>1, <1>2 DEF Derived, TypeOK, Selected
<1>10. OrphansCounted'
    <2>1. Orphans' = Orphans
        BY <1>2, <1>4, <1>5 DEF Orphans, TypeOK, Free
    <2> QED BY <1>2, <2>1 DEF OrphansCounted
<1> QED BY <1>3, <1>6, <1>8, <1>9, <1>10

(* An exception leaves everything to the finally. *)
LEMMA FailIInv ==
    ASSUME IInv, NEW p \in Appliers, Fail(p)
    PROVE  IInv'
<1> USE DEF IInv
<1>1. /\ phase[p] \in Working \ {"created", "written", "failing"} /\ Goto(p, "failing")
      /\ faults + kills < MaxFaults /\ faults' = faults + 1
      /\ UNCHANGED <<targetVars, name, staging, tables, effective, changed, raced, leaks,
                     kills, replays>>
    BY DEF Fail
<1>2. TargetTypeOK' /\ HashStateSound' /\ RowsPresent' /\ KeysAreLeft'
    BY <1>1, QuietStep
<1>3. StagingHeld' /\ StagingPrivate' /\ OrphansCounted'
    BY <1>1, StagingUntouched, LoadedPhases DEF Working, Phases
<1>4. faults' \in Nat /\ leaks' \in 0..faults' /\ kills' \in Nat /\ faults' + kills' <= MaxFaults
    <2>1. faults \in Nat /\ leaks \in 0..faults /\ kills \in Nat
        BY DEF TypeOK
    <2> QED BY <1>1, <2>1, BoundsAssumption
<1>5. TypeOK' /\ Derived'
    BY <1>1, <1>2, <1>4 DEF TypeOK, Goto, Phases, Derived, Selected
<1> QED BY <1>2, <1>3, <1>5

(* A death, or an exception that no drop follows, leaves one staging table *)
(* without an apply, at most.                                              *)
LEMMA AbandonIInv ==
    ASSUME IInv, NEW p \in Appliers, Kill(p) \/ Leak(p)
    PROVE  IInv'
<1> USE DEF IInv
<1>1. PICK ph \in {"killed", "failed"} : Goto(p, ph)
    BY DEF Kill, Leak
<1>2. /\ phase[p] \in Working
      /\ phase' = [phase EXCEPT ![p] = ph]
      /\ name' = [name EXCEPT ![p] = NoName]
      /\ effective' = [effective EXCEPT ![p] = NoRows]
      /\ changed' = [changed EXCEPT ![p] = {}]
      /\ raced' = [raced EXCEPT ![p] = {}]
      /\ UNCHANGED <<targetVars, staging, tables, replays>>
    BY <1>1 DEF Kill, Leak, Forget, Goto, Working, Phases
<1>3. /\ faults \in Nat /\ leaks \in 0..faults /\ kills \in Nat /\ faults + kills < MaxFaults
      /\ \/ kills' = kills + 1 /\ UNCHANGED <<faults, leaks>>
         \/ kills' = kills /\ faults' = faults + 1 /\ leaks' = leaks + 1
    BY DEF TypeOK, Kill, Leak
<1>4. TargetTypeOK' /\ HashStateSound' /\ RowsPresent' /\ KeysAreLeft'
    BY <1>1, <1>2, QuietStep DEF TypeOK
<1>5. /\ faults' \in Nat /\ leaks' \in 0..faults' /\ kills' \in Nat
      /\ faults' + kills' <= MaxFaults /\ kills' + leaks' = kills + leaks + 1
    BY <1>3, BoundsAssumption
<1>6. TypeOK' /\ Derived'
    BY <1>2, <1>4, <1>5, NoRowsType DEF TypeOK, Phases, Derived, Selected
<1>7. StagingHeld' /\ StagingPrivate'
    <2>1. phase'[p] \notin Working /\ name'[p] = NoName
        BY <1>2 DEF Working, TypeOK
    <2>2. \A q \in Appliers \ {p} : phase'[q] = phase[q] /\ name'[q] = name[q]
                                     /\ staging'[name'[q]] = staging[name[q]]
        BY <1>2 DEF TypeOK
    <2> QED BY <2>1, <2>2 DEF StagingHeld, StagingPrivate
<1>8. OrphansCounted'
    <2>1. Orphans' \subseteq Orphans \cup {name[p]}
        BY <1>2 DEF Orphans, TypeOK
    <2>2. /\ IsFiniteSet(Orphans \cup {name[p]})
          /\ Cardinality(Orphans \cup {name[p]}) <= Cardinality(Orphans) + 1
        <3>1. IsFiniteSet(Orphans)
            BY DEF OrphansCounted
        <3>2. /\ IsFiniteSet(Orphans \cup {name[p]})
              /\ Cardinality(Orphans \cup {name[p]}) =
                    IF name[p] \in Orphans THEN Cardinality(Orphans) ELSE Cardinality(Orphans) + 1
            BY <3>1, FS_AddElement
        <3>3. Cardinality(Orphans) \in Nat
            BY <3>1, FS_CardinalityType
        <3> QED BY <3>2, <3>3
    <2>3. IsFiniteSet(Orphans') /\ Cardinality(Orphans') <= Cardinality(Orphans \cup {name[p]})
        BY <2>1, <2>2, FS_Subset
    <2>4. /\ Cardinality(Orphans) \in Nat /\ Cardinality(Orphans') \in Nat
          /\ Cardinality(Orphans \cup {name[p]}) \in Nat
          /\ Cardinality(Orphans) <= kills + leaks
        BY <2>2, <2>3, FS_CardinalityType DEF OrphansCounted
    <2>5. Cardinality(Orphans') <= kills' + leaks'
        BY <1>3, <1>5, <2>2, <2>3, <2>4
    <2> QED BY <2>3, <2>5 DEF OrphansCounted
<1> QED BY <1>4, <1>6, <1>7, <1>8

(* A retry or a replay starts from nothing. *)
LEMMA AgainIInv ==
    ASSUME IInv, NEW p \in Appliers, Retry(p) \/ Replay(p)
    PROVE  IInv'
<1> USE DEF IInv
<1>1. /\ phase[p] \in {"failed", "killed", "done"} /\ Goto(p, "idle")
      /\ UNCHANGED <<targetVars, name, staging, tables, effective, changed, raced, faults, leaks, kills>>
    BY DEF Retry, Replay
<1>2. TargetTypeOK' /\ HashStateSound' /\ RowsPresent' /\ KeysAreLeft'
    BY <1>1, QuietStep
<1>3. StagingHeld' /\ StagingPrivate' /\ OrphansCounted'
    BY <1>1, StagingUntouched, LoadedPhases DEF Working, Phases
<1>4. replays' \in 0..MaxReplays
    <2>1. \/ replays' = replays
          \/ replays < MaxReplays /\ replays' = replays + 1
        BY DEF Retry, Replay
    <2>2. replays \in 0..MaxReplays
        BY DEF TypeOK
    <2> QED BY <2>1, <2>2, BoundsAssumption
<1>5. TypeOK' /\ Derived'
    BY <1>1, <1>2, <1>4 DEF TypeOK, Goto, Phases, Derived, Selected
<1> QED BY <1>2, <1>3, <1>5
-----------------------------------------------------------------------------
(* The invariant is inductive. *)
LEMMA StepIInv == IInv /\ [Next]_vars => IInv'
<1> SUFFICES ASSUME IInv, [Next]_vars PROVE IInv'
    OBVIOUS
<1>1. CASE Next
    BY <1>1, CreateFreshIInv, CreateCollidesIInv, ReflectIInv, LoadIInv, LookForTablesIInv,
        CreateTableIInv, SelectEffectiveRowsIInv, ClassifyIInv, WriteUpsertsIInv,
        WriteDeletesIInv, DropStagingIInv, FailIInv, AbandonIInv, AgainIInv
    DEF Next, Step
<1>2. CASE UNCHANGED vars
    <2> USE <1>2 DEF vars, IInv
    <2>1. TypeOK' /\ HashStateSound'
        BY DEF TypeOK, TargetTypeOK, HashStateSound
    <2>2. StagingHeld' /\ StagingPrivate' /\ Derived' /\ OrphansCounted'
        BY DEF StagingHeld, StagingPrivate, Derived, OrphansCounted, Orphans
    <2>3. RowsPresent' /\ KeysAreLeft'
        BY DEF RowsPresent, PresentOrDeleted, KeysAreLeft, AppliedKeys, LeftBySome
    <2> QED BY <2>1, <2>2, <2>3
<1> QED BY <1>1, <1>2

(* The invariant holds in every reachable state. *)
THEOREM SpecIInv == Spec => []IInv
BY InitIInv, StepIInv, PTL DEF Spec

(* Every variable of the appliers keeps its type. *)
THEOREM SpecTypeOK == Spec => []TypeOK
<1>1. IInv => TypeOK
    BY DEF IInv
<1> QED BY SpecIInv, <1>1, PTL

(***************************************************************************)
(* No two applies ever share a staging table, and each selects from all of *)
(* its own artifact: CREATE without IF NOT EXISTS is what gives a name to  *)
(* one apply only (delta_apply.py).                                        *)
(***************************************************************************)
THEOREM SpecStagingPrivate == Spec => []StagingPrivate
<1>1. IInv => StagingPrivate
    BY DEF IInv
<1> QED BY SpecIInv, <1>1, PTL

(***************************************************************************)
(* Staging tables without an apply are at most as many as processes that   *)
(* died and exceptions that came where no drop follows: the inner finally  *)
(* (delta_apply.py:332-333) cleans up after all others.                    *)
(***************************************************************************)
THEOREM SpecStagingShortLived == Spec => []StagingShortLived
<1>1. IInv => StagingShortLived
    BY DEF IInv, OrphansCounted, StagingShortLived
<1> QED BY SpecIInv, <1>1, PTL

(* A recorded hash is the hash of the curated row, whatever applies overlap. *)
THEOREM SpecHashStateSound == Spec => []HashStateSound
<1>1. IInv => HashStateSound
    BY DEF IInv
<1> QED BY SpecIInv, <1>1, PTL

(***************************************************************************)
(* When every artifact that touches a key has been applied, the key holds  *)
(* the last event for it of one of them: a key once left as an artifact    *)
(* says is written only to what another one says.                          *)
(***************************************************************************)
THEOREM SpecAppliedRowIsSomeArtifacts ==
    ASSUME NoCollisions PROVE Spec => []AppliedRowIsSomeArtifacts
<1>1. IInv => AppliedRowIsSomeArtifacts
    <2>1. ASSUME IInv, NEW k \in Keys, NEW p \in Appliers, Touches(p, k), phase[p] = "done"
          PROVE  \E q \in Appliers : Touches(q, k) /\ curated[k] \in LastRows(q, k)
        <3>1. LeftBySome(k)
            BY <2>1, EffectOfKey DEF IInv, KeysAreLeft, AppliedKeys
        <3> QED BY <3>1, EffectOfKey DEF LeftBySome
    <2>2. ASSUME IInv, NEW k \in Keys
          PROVE  LET touching == {p \in Appliers : Touches(p, k)}
                 IN  touching # {} /\ (\A p \in touching : phase[p] = "done") =>
                        \E p \in touching : curated[k] \in LastRows(p, k)
        BY <2>1, <2>2
    <2> QED BY <2>2 DEF AppliedRowIsSomeArtifacts
<1> QED BY SpecIInv, <1>1, PTL
-----------------------------------------------------------------------------
(* A row moved to another key is there before the row it leaves is gone. *)
LEMMA StepKeepsMovedRows ==
    ASSUME IInv, NEW p \in Appliers, phase[p] = "upserted",
           NEW k \in UpsertKeys(EffectiveRows(Artifact[p]))
    PROVE  \/ curated[k] # Absent
           \/ \E q \in Appliers \ {p} : k \in DeleteKeys(EffectiveRows(Artifact[q]))
BY DEF IInv, RowsPresent, PresentOrDeleted, Effect

(***************************************************************************)
(* A row moved to another key is never missing: the deletes come after the *)
(* committed upserts (delta_apply.py:298-314), and a row that was skipped  *)
(* as recorded was there and is taken away by an artifact's delete only.   *)
(***************************************************************************)
THEOREM SpecMovedRowNeverMissing == Spec => MovedRowNeverMissing
<1>1. IInv /\ [Next]_vars =>
        [\A p \in Appliers :
            (phase[p] = "upserted" /\ phase'[p] = "written" /\ curated' # curated) =>
                \A k \in UpsertKeys(EffectiveRows(Artifact[p])) :
                    \/ curated[k] # Absent
                    \/ \E q \in Appliers \ {p} :
                            k \in DeleteKeys(EffectiveRows(Artifact[q]))]_vars
    BY StepKeepsMovedRows
<1> QED BY SpecIInv, <1>1, PTL DEF Spec, MovedRowNeverMissing
=============================================================================
