----------------------- MODULE IncrementalAuditProofs -----------------------
(***************************************************************************)
(* Proofs about IncrementalAudit: any number of transactions, keys and     *)
(* events, both watermark modes.                                           *)
(***************************************************************************)
EXTENDS IncrementalAudit, AtomicTargetProofs

(* A watermark some event has, or none. *)
IsReached(w) == w = NoWatermark \/ \E i \in Visible : w = Watermark(i)

(* A run reads on from the checkpoint, to an end that is not before it. *)
RunInOrder ==
    /\ IsReached(checkpoint)
    /\ phase = "idle" => accepted = {}
    /\ phase # "idle" => /\ start = checkpoint
                         /\ IsReached(windowEnd)
                         /\ UpTo(start, windowEnd)
    /\ phase = "window" => accepted = {}

(* What has been landed is the window, but for what was overtaken since. *)
Landed ==
    /\ \A i \in accepted : IsAccepted(i) /\ Before(start, Watermark(i))
                           /\ UpTo(Watermark(i), windowEnd)
    /\ phase \in {"landed", "upserted", "applied"} =>
            \A i \in Window(start, windowEnd) : IsAccepted(i) => i \in accepted \cup overtaken
    /\ phase = "applied" => accepted \subseteq applied

(* Event i is the last of S that touches k. *)
IsLastOf(i, k, S) ==
    /\ i \in S /\ Touches(i, k)
    /\ \A j \in S : Touches(j, k) => UpTo(Watermark(j), Watermark(i))

(* The rows of the landed events are in the target, the deletes last. *)
Applied ==
    \A k \in Keys, i \in Ids : IsLastOf(i, k, accepted) =>
        /\ phase = "applied" => curated[k] = RowLeft(i, k)
        /\ phase = "upserted" /\ RowLeft(i, k) # Absent => curated[k] = RowLeft(i, k)

(* NoStaleRow, said of every event passed. *)
NothingStale ==
    overtaken = {} =>
        \A k \in Keys :
            LET S == {i \in Visible : Touches(i, k) /\ IsAccepted(i)}
                passed == {i \in S : UpTo(Watermark(i), checkpoint)}
            IN  passed # {} =>
                    \E i \in S : /\ \A j \in passed : UpTo(Watermark(j), Watermark(i))
                                 /\ curated[k] = RowLeft(i, k)

IInv ==
    /\ TypeOK
    /\ HashStateSound
    /\ RunInOrder
    /\ Landed
    /\ OnlyOvertakenSkipped
    /\ NoCollisions => Applied /\ NothingStale
-----------------------------------------------------------------------------
Marks == [ts : Nat, id : Nat]

(* Watermarks are compared by timestamp, then by event id: a total order. *)
LEMMA MarksInOrder ==
    ASSUME NEW u \in Marks, NEW v \in Marks, NEW w \in Marks
    PROVE  /\ UpTo(u, v) \/ Before(v, u)
           /\ ~(Before(u, v) /\ UpTo(v, u))
           /\ UpTo(u, v) /\ UpTo(v, w) => UpTo(u, w)
           /\ UpTo(u, v) /\ Before(v, w) => Before(u, w)
           /\ Before(u, v) /\ UpTo(v, w) => Before(u, w)
<1>1. /\ u = [ts |-> u.ts, id |-> u.id] /\ u.ts \in Nat /\ u.id \in Nat
      /\ v = [ts |-> v.ts, id |-> v.id] /\ v.ts \in Nat /\ v.id \in Nat
      /\ w = [ts |-> w.ts, id |-> w.id] /\ w.ts \in Nat /\ w.id \in Nat
    BY DEF Marks
<1>2. /\ u = v <=> u.ts = v.ts /\ u.id = v.id
      /\ v = w <=> v.ts = w.ts /\ v.id = w.id
      /\ u = w <=> u.ts = w.ts /\ u.id = w.id
    BY <1>1
<1> QED BY <1>1, <1>2 DEF UpTo, Before

(* Every event has a watermark of its own, after none. *)
LEMMA EventMarks ==
    ASSUME TypeOK
    PROVE  /\ \A i \in Ids : Watermark(i) \in Marks /\ Watermark(i).id = i
           /\ \A i \in Ids : Before(NoWatermark, Watermark(i))
           /\ Ids = 1..Len(audit) /\ Visible \subseteq Ids
           /\ NoWatermark \in Marks /\ checkpoint \in Marks
           /\ start \in Marks /\ windowEnd \in Marks
<1>1. /\ Ids = 1..Len(audit) /\ Len(audit) \in Nat
      /\ \A i \in Ids : audit[i] \in AuditEvents
      /\ clock \in Nat \ {0} /\ commitTs \in [Txns -> 0..clock]
    BY DEF TypeOK, Ids
<1>2. ASSUME NEW i \in Ids
      PROVE  OrderingTs(i) \in Nat /\ i \in Nat \ {0}
    <2>1. audit[i].txn \in Txns /\ audit[i].recorded \in 1..clock
        BY <1>1 DEF AuditEvents
    <2>2. commitTs[audit[i].txn] \in Nat /\ audit[i].recorded \in Nat
        BY <1>1, <2>1
    <2>3. i \in Nat \ {0}
        BY <1>1
    <2> QED BY <2>2, <2>3 DEF OrderingTs
<1>3. \A i \in Ids : Watermark(i) \in Marks /\ Watermark(i).id = i
    BY <1>2 DEF Watermark, Marks
<1>4. \A i \in Ids : Before(NoWatermark, Watermark(i))
    BY <1>2 DEF Watermark, NoWatermark, Before
<1>5. {checkpoint, start, windowEnd} \subseteq Marks
    <2>1. Watermarks \subseteq Marks
        BY <1>1, BoundsAssumption DEF Watermarks, Marks
    <2> QED BY <2>1 DEF TypeOK
<1>6. NoWatermark \in Marks /\ Visible \subseteq Ids
    BY DEF NoWatermark, Marks, Visible
<1> QED BY <1>1, <1>3, <1>4, <1>5, <1>6

(* The fields of an event. *)
LEMMA EventFields ==
    ASSUME TypeOK, NEW i \in Ids
    PROVE  /\ audit[i].txn \in Txns
           /\ audit[i].old \in Keys /\ audit[i].key \in Keys
           /\ audit[i].row \in Rows \cup {Absent, Invalid}
<1>1. audit[i] \in AuditEvents
    BY DEF TypeOK, Ids
<1> QED BY <1>1 DEF AuditEvents

(* Of some events one is the latest. *)
LEMMA LatestIs ==
    ASSUME TypeOK, NEW S, S \subseteq Ids, S # {}
    PROVE  /\ LatestOf(S) \in S
           /\ \A j \in S : UpTo(Watermark(j), Watermark(LatestOf(S)))
<1>1. IsFiniteSet(S)
    <2>1. IsFiniteSet(1..Len(audit))
        BY FS_Interval DEF TypeOK
    <2> QED BY <2>1, EventMarks, FS_Subset
<1>2. \A i \in S : /\ Watermark(i) \in Marks /\ Watermark(i).id = i
                   /\ Watermark(i).ts \in Int /\ i \in Int
    BY EventMarks DEF Marks
<1>3. PICK x \in S : \A y \in S : Watermark(y).ts <= Watermark(x).ts
    <2> DEFINE num == [i \in S |-> Watermark(i).ts]
    <2>1. num \in [S -> Int] /\ \A i \in S : num[i] = Watermark(i).ts
        BY <1>2
    <2> HIDE DEF num
    <2>2. \E x \in S : \A y \in S : num[y] <= num[x]
        BY <1>1, <2>1, LargestExists
    <2> QED BY <2>1, <2>2
<1> DEFINE T == {i \in S : Watermark(i).ts = Watermark(x).ts}
<1>4. PICK z \in T : \A y \in T : y <= z
    <2> DEFINE num == [i \in T |-> i]
    <2>1. num \in [T -> Int] /\ \A i \in T : num[i] = i
        BY <1>2
    <2>2. T # {} /\ IsFiniteSet(T)
        <3>1. x \in T /\ T \subseteq S
            OBVIOUS
        <3> HIDE DEF T
        <3> QED BY <3>1, <1>1, FS_Subset
    <2> HIDE DEF num, T
    <2>3. \E i \in T : \A y \in T : num[y] <= num[i]
        BY <2>1, <2>2, LargestExists
    <2> QED BY <2>1, <2>3
<1>5. z \in S /\ \A j \in S : UpTo(Watermark(j), Watermark(z))
    <2>1. z \in S /\ Watermark(z).ts = Watermark(x).ts
        OBVIOUS
    <2>2. ASSUME NEW j \in S
          PROVE  UpTo(Watermark(j), Watermark(z))
        <3>1. Watermark(j).ts < Watermark(z).ts \/ Watermark(j).ts = Watermark(z).ts
            BY <1>2, <1>3, <2>1
        <3>2. CASE Watermark(j).ts = Watermark(z).ts
            <4>1. j \in T
                BY <2>1, <3>2
            <4>2. j < z \/ j = z
                BY <1>2, <1>4, <2>1, <4>1
            <4> QED BY <1>2, <2>1, <3>2, <4>2 DEF UpTo, Before
        <3> QED BY <3>1, <3>2 DEF UpTo, Before
    <2> QED BY <2>1, <2>2
<1> HIDE DEF T
<1> QED BY <1>5, Zenon DEF LatestOf

(* An event that touches a key leaves one row there. *)
LEMMA DeltaEventsAre ==
    ASSUME NEW i, NEW e
    PROVE  e \in DeltaEvents(i) <=>
                \E k : Touches(i, k) /\ e = [key |-> k, row |-> RowLeft(i, k), id |-> i]
BY DEF DeltaEvents, Touches, RowLeft

(* The effective row of a key is the one left by the last event touching it. *)
LEMMA EffectiveRowsAre ==
    ASSUME TypeOK, NEW S, S \subseteq Ids
    PROVE  /\ DOMAIN EffectiveRows(S) = {k \in Keys : \E i \in S : Touches(i, k)}
           /\ \A k \in DOMAIN EffectiveRows(S) : \E i \in S : IsLastOf(i, k, S)
           /\ \A k \in DOMAIN EffectiveRows(S), i \in S :
                    IsLastOf(i, k, S) => EffectiveRows(S)[k] = RowLeft(i, k)
<1> DEFINE events == UNION {DeltaEvents(i) : i \in S}
           Last(k) == LatestOf({e.id : e \in {f \in events : f.key = k}})
           RowOf(k) == (CHOOSE e \in events : e.key = k /\ e.id = Last(k)).row
<1>1. EffectiveRows(S) = [k \in {e.key : e \in events} |-> RowOf(k)]
    BY DEF EffectiveRows
<1>2. /\ \A e \in events : /\ e.id \in S /\ Touches(e.id, e.key)
                           /\ e.row = RowLeft(e.id, e.key)
      /\ \A i \in S : \A k : Touches(i, k) =>
            \E e \in events : e.key = k /\ e.id = i
    <2>1. \A e \in events :
            \E i \in S : \E k : Touches(i, k) /\ e = [key |-> k, row |-> RowLeft(i, k), id |-> i]
        BY DeltaEventsAre
    <2>2. \A i \in S : \A k : Touches(i, k) =>
            [key |-> k, row |-> RowLeft(i, k), id |-> i] \in events
        BY DeltaEventsAre
    <2> HIDE DEF events
    <2>3. ASSUME NEW e \in events
          PROVE  e.id \in S /\ Touches(e.id, e.key) /\ e.row = RowLeft(e.id, e.key)
        <3>1. PICK i \in S : \E k : Touches(i, k)
                                   /\ e = [key |-> k, row |-> RowLeft(i, k), id |-> i]
            BY <2>1
        <3>2. PICK k : Touches(i, k) /\ e = [key |-> k, row |-> RowLeft(i, k), id |-> i]
            BY <3>1
        <3>3. e.id = i /\ e.key = k /\ e.row = RowLeft(i, k)
            BY <3>2
        <3> QED BY <3>2, <3>3
    <2>4. ASSUME NEW i \in S, NEW k, Touches(i, k)
          PROVE  \E e \in events : e.key = k /\ e.id = i
        <3>1. [key |-> k, row |-> RowLeft(i, k), id |-> i] \in events
            BY <2>2, <2>4
        <3> QED BY <3>1
    <2> QED BY <2>3, <2>4
<1>3. {e.key : e \in events} = {k \in Keys : \E i \in S : Touches(i, k)}
    <2>1. \A i \in S : audit[i].old \in Keys /\ audit[i].key \in Keys
        BY EventFields
    <2>2. \A i \in S : \A k : Touches(i, k) => k \in Keys
        BY <2>1 DEF Touches
    <2> HIDE DEF events
    <2>3. \A k : k \in {e.key : e \in events} <=> k \in Keys /\ \E i \in S : Touches(i, k)
        BY <1>2, <2>2
    <2> QED BY <2>3
<1>4. ASSUME NEW k, NEW i \in S, Touches(i, k)
      PROVE  /\ IsLastOf(Last(k), k, S)
             /\ RowOf(k) = RowLeft(Last(k), k)
    <2>1. {e.id : e \in {f \in events : f.key = k}} = {j \in S : Touches(j, k)}
        <3> HIDE DEF events
        <3>1. \A j : j \in {e.id : e \in {f \in events : f.key = k}} <=>
                        j \in S /\ Touches(j, k)
            BY <1>2
        <3> QED BY <3>1
    <2>2. /\ Last(k) \in {j \in S : Touches(j, k)}
          /\ \A j \in S : Touches(j, k) => UpTo(Watermark(j), Watermark(Last(k)))
        <3>1. {j \in S : Touches(j, k)} # {} /\ {j \in S : Touches(j, k)} \subseteq Ids
            BY <1>4
        <3> QED BY <2>1, <3>1, LatestIs
    <2> HIDE DEF Last, events
    <2>4. \A e \in events : e.key = k /\ e.id = Last(k) => e.row = RowLeft(Last(k), k)
        BY <1>2
    <2>5. \E e \in events : e.key = k /\ e.id = Last(k)
        BY <1>2, <2>2
    <2>6. RowOf(k) = RowLeft(Last(k), k)
        BY <2>4, <2>5
    <2> QED BY <2>2, <2>6 DEF IsLastOf
<1>5. ASSUME NEW k, NEW i \in S, NEW j \in S, IsLastOf(i, k, S), IsLastOf(j, k, S)
      PROVE  i = j
    <2>1. /\ Watermark(i) \in Marks /\ Watermark(i).id = i
          /\ Watermark(j) \in Marks /\ Watermark(j).id = j
        BY EventMarks
    <2>2. UpTo(Watermark(i), Watermark(j)) /\ UpTo(Watermark(j), Watermark(i))
        BY <1>5 DEF IsLastOf
    <2>3. Watermark(i) = Watermark(j)
        BY <2>1, <2>2, MarksInOrder DEF UpTo
    <2> QED BY <2>1, <2>3
<1> HIDE DEF events, Last, RowOf
<1>6. ASSUME NEW k \in DOMAIN EffectiveRows(S)
      PROVE  /\ \E i \in S : IsLastOf(i, k, S)
             /\ \A i \in S : IsLastOf(i, k, S) => EffectiveRows(S)[k] = RowLeft(i, k)
    <2>1. PICK i \in S : Touches(i, k)
        BY <1>1, <1>3
    <2>2. Last(k) \in S
        BY <1>4, <2>1 DEF IsLastOf
    <2>3. EffectiveRows(S)[k] = RowOf(k)
        BY <1>1
    <2> QED BY <1>4, <1>5, <2>1, <2>2, <2>3
<1> QED BY <1>1, <1>3, <1>6
-----------------------------------------------------------------------------
(* The latest watermark is one some event has, none before it. *)
LEMMA LatestWatermarkIs ==
    ASSUME TypeOK
    PROVE  /\ LatestWatermark \in Marks /\ IsReached(LatestWatermark)
           /\ \A i \in Visible : UpTo(Watermark(i), LatestWatermark)
           /\ \A w : IsReached(w) => UpTo(w, LatestWatermark)
<1>1. CASE Visible = {}
    BY <1>1, EventMarks DEF LatestWatermark, IsReached, UpTo
<1>2. CASE Visible # {}
    <2>1. LatestWatermark = Watermark(LatestOf(Visible))
        BY <1>2 DEF LatestWatermark
    <2>2. /\ LatestOf(Visible) \in Visible
          /\ \A i \in Visible : UpTo(Watermark(i), LatestWatermark)
        BY <1>2, <2>1, EventMarks, LatestIs
    <2>3. UpTo(NoWatermark, LatestWatermark)
        BY <2>1, <2>2, EventMarks DEF UpTo
    <2> QED BY <2>1, <2>2, <2>3, EventMarks DEF IsReached
<1> QED BY <1>1, <1>2

(* Watermarks that are reached are within the bounds. *)
LEMMA ReachedInBounds ==
    ASSUME TypeOK, NEW w, IsReached(w)
    PROVE  w \in Watermarks
<1>1. NoWatermark \in Watermarks
    BY BoundsAssumption DEF TypeOK, NoWatermark, Watermarks
<1>2. ASSUME NEW i \in Ids
      PROVE  Watermark(i) \in Watermarks
    <2>1. /\ audit \in Seq(AuditEvents) /\ clock \in Nat \ {0} /\ Len(audit) <= MaxEvents
          /\ commitTs \in [Txns -> 0..clock] /\ Ids = 1..Len(audit)
        BY DEF TypeOK, Ids
    <2>2. audit[i] \in AuditEvents /\ i \in 0..MaxEvents
        BY <2>1, BoundsAssumption
    <2>3. audit[i].txn \in Txns /\ audit[i].recorded \in 0..clock
        BY <2>1, <2>2 DEF AuditEvents
    <2> QED BY <2>1, <2>2, <2>3 DEF Watermark, OrderingTs, Watermarks
<1>3. w = NoWatermark \/ \E i \in Ids : w = Watermark(i)
    BY DEF IsReached, Visible
<1> QED BY <1>1, <1>2, <1>3

(* What the source does to the audit table: visible events stay what they *)
(* are, and one that becomes visible late is overtaken.                   *)
SourceGrows ==
    /\ UNCHANGED <<targetVars, mode, checkpoint, runVars, applied, crashes>>
    /\ Visible \subseteq Visible' /\ overtaken \subseteq overtaken'
    /\ \A i \in Visible : audit'[i] = audit[i] /\ Watermark(i)' = Watermark(i)
    /\ \A i \in Visible' \ Visible : i \in overtaken' \/ ~Before(Watermark(i)', LatestWatermark)

(* A row change is recorded in an open transaction. *)
LEMMA SourceWriteGrows ==
    ASSUME TypeOK, NEW t \in Txns, SourceWrite(t)
    PROVE  TypeOK' /\ SourceGrows
<1>1. PICK c \in Menu :
        audit' = Append(audit, [txn |-> t, old |-> c.old, key |-> c.key, row |-> c.row,
                                recorded |-> clock])
    BY DEF SourceWrite
<1>2. /\ UNCHANGED <<targetVars, stage, commitTs, mode, checkpoint, runVars, applied,
                     overtaken, crashes>>
      /\ clock' = clock + 1 /\ stage[t] = "open" /\ Len(audit) < MaxEvents
    BY DEF SourceWrite
<1>3. /\ audit \in Seq(AuditEvents) /\ clock \in Nat \ {0}
      /\ Len(audit) \in Nat /\ Ids = 1..Len(audit)
    BY DEF TypeOK, Ids
<1> DEFINE new == [txn |-> t, old |-> c.old, key |-> c.key, row |-> c.row,
                   recorded |-> clock]
<1>4. /\ Len(audit') = Len(audit) + 1 /\ Ids' = 1..(Len(audit) + 1)
      /\ \A i \in Ids : audit'[i] = audit[i]
      /\ audit'[Len(audit) + 1] = new
    BY <1>1, <1>3 DEF Ids
<1>5. audit' \in Seq(AuditEvents')
    <2>1. AuditEvents \subseteq AuditEvents'
        <3>1. 1..clock \subseteq 1..clock'
            BY <1>2, <1>3
        <3> QED BY <3>1 DEF AuditEvents
    <2>2. new \in AuditEvents'
        <3>1. clock \in 1..clock'
            BY <1>2, <1>3
        <3> QED BY <3>1, MenuAssumption DEF AuditEvents
    <2>3. audit \in Seq(AuditEvents')
        BY <1>3, <2>1
    <2> HIDE DEF new
    <2> QED BY <1>1, <2>2, <2>3 DEF new
<1>6. Visible' = Visible
    <2>1. \A i : i \in Visible' <=> i \in Ids' /\ stage[audit'[i].txn] = "visible"
        BY <1>2 DEF Visible
    <2>2. \A i : i \in Ids' <=> i \in Ids \/ i = Len(audit) + 1
        BY <1>3, <1>4
    <2>3. stage[audit'[Len(audit) + 1].txn] = "open"
        BY <1>2, <1>4
    <2>4. \A i : i \in Visible' <=> i \in Visible
        BY <1>4, <2>1, <2>2, <2>3 DEF Visible
    <2> QED BY <2>4
<1>7. \A i \in Visible : audit'[i] = audit[i] /\ Watermark(i)' = Watermark(i)
    <2> HIDE DEF new
    <2> QED BY <1>2, <1>4 DEF Visible, Watermark, OrderingTs
<1>8. SourceGrows
    BY <1>2, <1>6, <1>7 DEF SourceGrows
<1>9. TypeOK'
    <2>1. Watermarks \subseteq Watermarks'
        <3>1. 0..clock \subseteq 0..clock'
            BY <1>2, <1>3
        <3> QED BY <3>1 DEF Watermarks
    <2>2. commitTs' \in [Txns -> (0..clock)']
        <3>1. 0..clock \subseteq (0..clock)'
            BY <1>2, <1>3
        <3>2. commitTs \in [Txns -> 0..clock]
            BY DEF TypeOK
        <3> QED BY <1>2, <3>1, <3>2
    <2>3. Len(audit') <= MaxEvents /\ clock' \in Nat \ {0}
        BY <1>2, <1>3, <1>4, BoundsAssumption
    <2>4. {checkpoint', start', windowEnd'} \subseteq Watermarks'
        BY <1>2, <2>1 DEF TypeOK, runVars
    <2>5. TargetTypeOK'
        BY <1>2 DEF TypeOK, TargetTypeOK, targetVars
    <2> HIDE DEF new
    <2> QED BY <1>2, <1>5, <1>6, <2>2, <2>3, <2>4, <2>5 DEF TypeOK, runVars
<1> QED BY <1>8, <1>9

(* The commit timestamp is taken before the events can be seen. *)
LEMMA SourceStampGrows ==
    ASSUME TypeOK, NEW t \in Txns, SourceStamp(t)
    PROVE  TypeOK' /\ SourceGrows
<1>1. /\ stage[t] = "open" /\ stage' = [stage EXCEPT ![t] = "stamped"]
      /\ commitTs' = [commitTs EXCEPT ![t] = clock] /\ clock' = clock + 1
      /\ UNCHANGED <<targetVars, audit, mode, checkpoint, runVars, applied, overtaken, crashes>>
    BY DEF SourceStamp
<1>2. /\ clock \in Nat \ {0} /\ commitTs \in [Txns -> 0..clock]
      /\ stage \in [Txns -> {"open", "stamped", "visible"}]
      /\ \A i \in Ids : audit[i].txn \in Txns
    BY EventFields DEF TypeOK
<1>3. Visible' = Visible
    <2>1. \A i \in Ids : stage'[audit[i].txn] = "visible" <=> stage[audit[i].txn] = "visible"
        BY <1>1, <1>2
    <2> QED BY <1>1, <2>1 DEF Visible, Ids
<1>4. \A i \in Visible : commitTs'[audit[i].txn] = commitTs[audit[i].txn]
    BY <1>1, <1>2 DEF Visible
<1>5. SourceGrows
    BY <1>1, <1>3, <1>4 DEF SourceGrows, Watermark, OrderingTs
<1>6. TypeOK'
    <2>1. Watermarks \subseteq Watermarks' /\ AuditEvents \subseteq AuditEvents'
        <3>1. 0..clock \subseteq 0..clock' /\ 1..clock \subseteq 1..clock'
            BY <1>1, <1>2
        <3> QED BY <3>1 DEF Watermarks, AuditEvents
    <2>2. commitTs' \in [Txns -> (0..clock)'] /\ clock' \in Nat \ {0}
        BY <1>1, <1>2
    <2>3. stage' \in [Txns -> {"open", "stamped", "visible"}]
        BY <1>1, <1>2
    <2>4. audit' \in Seq(AuditEvents') /\ Len(audit') <= MaxEvents
        BY <1>1, <2>1 DEF TypeOK
    <2>5. {checkpoint', start', windowEnd'} \subseteq Watermarks'
        BY <1>1, <2>1 DEF TypeOK, runVars
    <2>6. TargetTypeOK'
        BY <1>1 DEF TypeOK, TargetTypeOK, targetVars
    <2> QED BY <1>1, <1>3, <2>2, <2>3, <2>4, <2>5, <2>6 DEF TypeOK, runVars
<1> QED BY <1>5, <1>6

(* Events that become visible before the latest one are overtaken. *)
LEMMA SourceCommitGrows ==
    ASSUME TypeOK, NEW t \in Txns, SourceCommit(t)
    PROVE  TypeOK' /\ SourceGrows
<1>1. /\ stage[t] = "stamped" /\ stage' = [stage EXCEPT ![t] = "visible"]
      /\ overtaken' = overtaken \cup
            {i \in Ids : audit[i].txn = t /\ Before(Watermark(i), LatestWatermark)}
      /\ UNCHANGED <<targetVars, audit, commitTs, clock, mode, checkpoint, runVars,
                     applied, crashes>>
    BY DEF SourceCommit
<1>2. /\ stage \in [Txns -> {"open", "stamped", "visible"}]
      /\ \A i \in Ids : audit[i].txn \in Txns
    BY EventFields DEF TypeOK
<1>3. \A i \in Ids : i \in Visible' <=> i \in Visible \/ audit[i].txn = t
    <2>1. \A i \in Ids : stage'[audit[i].txn] = "visible" <=>
                            stage[audit[i].txn] = "visible" \/ audit[i].txn = t
        BY <1>1, <1>2
    <2> QED BY <1>1, <2>1 DEF Visible, Ids
<1>4. Visible \subseteq Visible' /\ Visible' \subseteq Ids
    BY <1>1, <1>3 DEF Visible, Ids
<1>5. \A i : Watermark(i)' = Watermark(i)
    BY <1>1 DEF Watermark, OrderingTs
<1>6. SourceGrows
    <2>1. \A i \in Visible' \ Visible : i \in overtaken' \/ ~Before(Watermark(i)', LatestWatermark)
        BY <1>1, <1>3, <1>4, <1>5
    <2> QED BY <1>1, <1>4, <1>5, <2>1 DEF SourceGrows
<1>7. TypeOK'
    <2>1. overtaken' \subseteq Visible'
        BY <1>1, <1>3, <1>4 DEF TypeOK
    <2>2. stage' \in [Txns -> {"open", "stamped", "visible"}]
        BY <1>1, <1>2
    <2>3. TargetTypeOK'
        BY <1>1 DEF TypeOK, TargetTypeOK, targetVars
    <2>4. {checkpoint', start', windowEnd'} \subseteq Watermarks' /\ audit' \in Seq(AuditEvents')
        BY <1>1 DEF TypeOK, Watermarks, AuditEvents, runVars
    <2> QED BY <1>1, <1>4, <2>1, <2>2, <2>3, <2>4 DEF TypeOK, runVars
<1> QED BY <1>6, <1>7
(* What EventMarks says of the events, said of the next state. *)
MarkFacts ==
    /\ \A i \in Ids : Watermark(i) \in Marks /\ Watermark(i).id = i
    /\ \A i \in Ids : Before(NoWatermark, Watermark(i))
    /\ Visible \subseteq Ids

(* They hold of any state of the right type ... *)
LEMMA MarkFactsHold == TypeOK => MarkFacts
BY EventMarks DEF MarkFacts

(* ... also of the next. *)
LEMMA MarkFactsHoldNext == TypeOK' => MarkFacts'
BY MarkFactsHold, PTL

(* So every event after a step has a watermark of its own. *)
LEMMA EventMarksNext ==
    ASSUME TypeOK'
    PROVE  /\ \A i \in Ids' : Watermark(i)' \in Marks /\ Watermark(i)'.id = i
           /\ \A i \in Ids' : Before(NoWatermark, Watermark(i)')
           /\ Visible' \subseteq Ids'
BY MarkFactsHoldNext DEF MarkFacts, NoWatermark, Marks

(* An event that becomes visible behind a watermark is overtaken. *)
LEMMA NewcomersOvertaken ==
    ASSUME TypeOK, TypeOK', SourceGrows, NEW i \in Visible' \ Visible,
           NEW w \in Marks, IsReached(w), UpTo(Watermark(i)', w)
    PROVE  i \in overtaken'
<1>1. /\ i \in Ids' /\ Watermark(i)' \in Marks /\ Watermark(i)'.id = i
      /\ Before(NoWatermark, Watermark(i)')
    BY EventMarksNext
<1>2. PICK j \in Visible : w = Watermark(j)
    <2>1. w # NoWatermark
        BY <1>1, MarksInOrder, EventMarks
    <2> QED BY <2>1 DEF IsReached
<1>3. Watermark(i)' # w /\ Before(Watermark(i)', w)
    <2>1. w.id = j /\ j # i
        BY <1>2, EventMarks
    <2> QED BY <1>1, <2>1 DEF UpTo
<1>4. Before(Watermark(i)', LatestWatermark)
    BY <1>1, <1>2, <1>3, LatestWatermarkIs, MarksInOrder
<1> QED BY <1>4 DEF SourceGrows

(* The source's steps keep the invariant. *)
LEMMA SourceIInv ==
    ASSUME IInv, TypeOK', SourceGrows
    PROVE  IInv'
<1> USE DEF IInv
<1>1. /\ UNCHANGED <<curated, hashState, mode, checkpoint, phase, start, windowEnd,
                     accepted, applied, crashes>>
      /\ Visible \subseteq Visible' /\ overtaken \subseteq overtaken'
    BY DEF SourceGrows, targetVars, runVars
<1>2. ASSUME NEW i \in Visible
      PROVE  /\ Watermark(i)' = Watermark(i) /\ IsAccepted(i)' = IsAccepted(i)
             /\ \A k : Touches(i, k)' = Touches(i, k) /\ RowLeft(i, k)' = RowLeft(i, k)
    BY DEF SourceGrows, IsAccepted, Touches, RowLeft
<1>3. accepted \subseteq Visible /\ applied \subseteq Visible
    BY DEF TypeOK
<1>4. \A w : IsReached(w) => IsReached(w)'
    BY <1>1, <1>2 DEF IsReached, NoWatermark
<1>5. HashStateSound'
    BY <1>1 DEF HashStateSound
<1>6. RunInOrder'
    BY <1>1, <1>4 DEF RunInOrder, UpTo, Before
<1>7. Landed'
    <2>1. \A i \in accepted : /\ IsAccepted(i)' /\ Before(start, Watermark(i)')
                              /\ UpTo(Watermark(i)', windowEnd)
        BY <1>2, <1>3 DEF Landed
    <2>2. ASSUME phase \in {"landed", "upserted", "applied"},
                 NEW i \in Visible', IsAccepted(i)',
                 Before(start, Watermark(i)'), UpTo(Watermark(i)', windowEnd)
          PROVE  i \in accepted \cup overtaken'
        <3>1. CASE i \in Visible
            <4>1. i \in Window(start, windowEnd) /\ IsAccepted(i)
                BY <1>2, <2>2, <3>1 DEF Window
            <4> QED BY <1>1, <2>2, <4>1 DEF Landed
        <3>2. CASE i \notin Visible
            <4>1. IsReached(windowEnd) /\ windowEnd \in Marks
                BY <2>2, EventMarks DEF RunInOrder
            <4> QED BY <2>2, <3>2, <4>1, NewcomersOvertaken
        <3> QED BY <3>1, <3>2
    <2>3. phase = "applied" => accepted \subseteq applied
        BY DEF Landed
    <2>4. \A i : i \in Window(start, windowEnd)' =>
                    /\ i \in Visible' /\ Before(start, Watermark(i)')
                    /\ UpTo(Watermark(i)', windowEnd)
        BY <1>1 DEF Window, UpTo, Before
    <2> QED BY <1>1, <2>1, <2>2, <2>3, <2>4 DEF Landed, UpTo, Before
<1>8. OnlyOvertakenSkipped'
    <2> SUFFICES ASSUME NEW i \in Visible', IsAccepted(i)',
                        UpTo(Watermark(i)', checkpoint), i \notin applied
                 PROVE  i \in overtaken'
        BY <1>1 DEF OnlyOvertakenSkipped, Skipped, UpTo, Before
    <2>1. CASE i \in Visible
        BY <1>1, <1>2, <2>1 DEF OnlyOvertakenSkipped, Skipped
    <2>2. CASE i \notin Visible
        BY <2>2, NewcomersOvertaken, EventMarks DEF RunInOrder
    <2> QED BY <2>1, <2>2
<1>9. ASSUME NoCollisions
      PROVE  Applied'
    <2> SUFFICES ASSUME NEW k \in Keys, NEW i \in accepted, IsLastOf(i, k, accepted)'
                 PROVE  /\ phase = "applied" => curated[k] = RowLeft(i, k)
                        /\ phase = "upserted" /\ RowLeft(i, k) # Absent =>
                                curated[k] = RowLeft(i, k)
        BY <1>1, <1>2, <1>3 DEF Applied, IsLastOf
    <2>1. IsLastOf(i, k, accepted) /\ i \in Ids
        BY <1>1, <1>2, <1>3, EventMarks DEF IsLastOf
    <2> QED BY <1>9, <2>1 DEF Applied
<1>10. ASSUME NoCollisions
       PROVE  NothingStale'
    <2> SUFFICES ASSUME overtaken' = {}, NEW k \in Keys,
                        NEW j \in Visible', Touches(j, k)', IsAccepted(j)',
                        UpTo(Watermark(j)', checkpoint)
                 PROVE  \E i \in Visible' :
                            /\ Touches(i, k)' /\ IsAccepted(i)'
                            /\ curated[k] = RowLeft(i, k)'
                            /\ \A l \in Visible' :
                                    Touches(l, k)' /\ IsAccepted(l)'
                                    /\ UpTo(Watermark(l)', checkpoint) =>
                                        UpTo(Watermark(l)', Watermark(i)')
        BY <1>1 DEF NothingStale, UpTo, Before
    <2>1. \A l \in Visible' : UpTo(Watermark(l)', checkpoint) => l \in Visible
        BY NewcomersOvertaken, EventMarks DEF RunInOrder
    <2>2. /\ j \in Visible /\ Touches(j, k) /\ IsAccepted(j)
          /\ UpTo(Watermark(j), checkpoint)
        BY <1>2, <2>1
    <2>3. PICK i \in Visible :
            /\ Touches(i, k) /\ IsAccepted(i) /\ curated[k] = RowLeft(i, k)
            /\ \A l \in Visible : Touches(l, k) /\ IsAccepted(l)
                                   /\ UpTo(Watermark(l), checkpoint) =>
                                        UpTo(Watermark(l), Watermark(i))
        BY <1>1, <1>10, <2>2 DEF NothingStale
    <2> QED BY <1>1, <1>2, <2>1, <2>3
<1> QED BY <1>5, <1>6, <1>7, <1>8, <1>9, <1>10 DEF NoCollisions
-----------------------------------------------------------------------------
(* A step of a run sees the same audit table before and after. *)
LEMMA SameAudit ==
    ASSUME UNCHANGED <<sourceVars, mode>>
    PROVE  /\ Visible' = Visible /\ Ids' = Ids
           /\ \A i : /\ Watermark(i)' = Watermark(i) /\ IsAccepted(i)' = IsAccepted(i)
                     /\ \A k : Touches(i, k)' = Touches(i, k) /\ RowLeft(i, k)' = RowLeft(i, k)
           /\ \A w : IsReached(w)' = IsReached(w)
<1>1. UNCHANGED <<audit, stage, commitTs, mode>>
    BY DEF sourceVars
<1>2. Visible' = Visible /\ Ids' = Ids
    BY <1>1 DEF Visible, Ids
<1>3. \A i : Watermark(i)' = Watermark(i) /\ IsAccepted(i)' = IsAccepted(i)
    BY <1>1 DEF Watermark, OrderingTs, IsAccepted
<1>4. \A i, k : Touches(i, k)' = Touches(i, k) /\ RowLeft(i, k)' = RowLeft(i, k)
    BY <1>1 DEF Touches, RowLeft
<1>5. \A w : IsReached(w)' = IsReached(w)
    BY <1>2, <1>3 DEF IsReached, NoWatermark
<1> QED BY <1>2, <1>3, <1>4, <1>5

(* What a run's step leaves to be shown of the types. *)
LEMMA RunTypeOK ==
    ASSUME TypeOK, UNCHANGED <<sourceVars, mode>>,
           TargetTypeOK', {checkpoint', start', windowEnd'} \subseteq Watermarks,
           phase' \in {"idle", "window", "landed", "upserted", "applied"},
           accepted' \cup applied' \subseteq Visible, crashes' \in 0..MaxCrashes
    PROVE  TypeOK'
BY SameAudit DEF TypeOK, sourceVars, Watermarks, AuditEvents

(* Steps that leave the checkpoint and the target alone. *)
LEMMA SamePromises ==
    ASSUME IInv, UNCHANGED <<sourceVars, mode, checkpoint, applied>>,
           UNCHANGED targetVars
    PROVE  /\ TargetTypeOK' /\ HashStateSound' /\ OnlyOvertakenSkipped'
           /\ NoCollisions => NothingStale'
<1> USE DEF IInv
<1>1. TargetTypeOK' /\ HashStateSound'
    BY TargetUnchangedSound DEF TypeOK
<1>2. OnlyOvertakenSkipped'
    BY SameAudit DEF OnlyOvertakenSkipped, Skipped, UpTo, Before, sourceVars
<1>3. ASSUME NoCollisions PROVE NothingStale'
    <2>1. UNCHANGED <<curated, checkpoint, overtaken>>
        BY DEF sourceVars, targetVars
    <2>2. NothingStale
        BY <1>3
    <2> QED BY <2>1, <2>2, SameAudit DEF NothingStale, UpTo, Before
<1> QED BY <1>1, <1>2, <1>3

(* A run begins. *)
LEMMA SelectWindowEndIInv ==
    ASSUME IInv, SelectWindowEnd
    PROVE  IInv'
<1> USE DEF IInv
<1>1. /\ phase = "idle" /\ phase' = "window"
      /\ start' = checkpoint /\ windowEnd' = LatestWatermark
      /\ UNCHANGED <<targetVars, sourceVars, mode, checkpoint, accepted, applied, crashes>>
    BY DEF SelectWindowEnd
<1>2. /\ IsReached(LatestWatermark) /\ UpTo(checkpoint, LatestWatermark)
      /\ accepted = {}
    BY <1>1, LatestWatermarkIs DEF RunInOrder
<1>3. LatestWatermark \in Watermarks
    BY <1>2, ReachedInBounds
<1>4. /\ TargetTypeOK' /\ HashStateSound' /\ OnlyOvertakenSkipped'
      /\ NoCollisions => NothingStale'
    BY <1>1, SamePromises
<1>5. TypeOK'
    BY <1>1, <1>3, <1>4, RunTypeOK DEF TypeOK
<1>6. RunInOrder'
    BY <1>1, <1>2, SameAudit DEF RunInOrder, UpTo, Before
<1>7. Landed' /\ Applied'
    BY <1>1, <1>2 DEF Landed, Applied, IsLastOf
<1> QED BY <1>4, <1>5, <1>6, <1>7

(* What the window's SELECT returns is landed. *)
LEMMA ReadWindowAndLandIInv ==
    ASSUME IInv, ReadWindowAndLand
    PROVE  IInv'
<1> USE DEF IInv
<1>1. /\ phase = "window" /\ phase' = "landed"
      /\ accepted' = {i \in Window(start, windowEnd) : IsAccepted(i)}
      /\ UNCHANGED <<targetVars, sourceVars, mode, checkpoint, start, windowEnd, applied,
                     crashes>>
    BY DEF ReadWindowAndLand
<1>2. /\ TargetTypeOK' /\ HashStateSound' /\ OnlyOvertakenSkipped'
      /\ NoCollisions => NothingStale'
    BY <1>1, SamePromises
<1>3. TypeOK'
    <2>1. accepted' \subseteq Visible
        BY <1>1 DEF Window
    <2> QED BY <1>1, <1>2, <2>1, RunTypeOK DEF TypeOK
<1>4. RunInOrder'
    BY <1>1, SameAudit DEF RunInOrder, UpTo, Before
<1>5. Landed'
    <2>1. \A i : i \in Window(start, windowEnd)' <=> i \in Window(start, windowEnd)
        BY <1>1, SameAudit DEF Window, UpTo, Before
    <2>2. \A i \in accepted' : /\ IsAccepted(i)' /\ Before(start, Watermark(i)')
                               /\ UpTo(Watermark(i)', windowEnd)
        BY <1>1, SameAudit DEF Window
    <2>3. \A i \in Window(start, windowEnd)' : IsAccepted(i)' => i \in accepted'
        BY <1>1, <2>1, SameAudit
    <2> QED BY <1>1, <2>2, <2>3 DEF Landed, UpTo, Before
<1>6. Applied'
    BY <1>1 DEF Applied
<1> QED BY <1>2, <1>3, <1>4, <1>5, <1>6
(* A row left by a landed event is not older than what the checkpoint says. *)
LEMMA LandedRowsAreFresh ==
    ASSUME IInv, NothingStale, phase # "idle",
           UNCHANGED <<sourceVars, mode, checkpoint>>,
           \A k \in Keys : \/ curated'[k] = curated[k]
                          \/ \E i \in accepted : Touches(i, k) /\ curated'[k] = RowLeft(i, k)
    PROVE  NothingStale'
<1> USE DEF IInv
<1> SUFFICES ASSUME overtaken = {}, NEW k \in Keys,
                    NEW j \in Visible, Touches(j, k), IsAccepted(j),
                    UpTo(Watermark(j), checkpoint)
             PROVE  \E i \in Visible :
                        /\ Touches(i, k) /\ IsAccepted(i) /\ curated'[k] = RowLeft(i, k)
                        /\ \A l \in Visible :
                                Touches(l, k) /\ IsAccepted(l)
                                /\ UpTo(Watermark(l), checkpoint) =>
                                    UpTo(Watermark(l), Watermark(i))
    BY SameAudit DEF NothingStale, UpTo, Before, sourceVars
<1>1. CASE curated'[k] = curated[k]
    BY <1>1 DEF NothingStale
<1>2. ASSUME NEW i \in accepted, Touches(i, k), curated'[k] = RowLeft(i, k)
      PROVE  /\ i \in Visible /\ IsAccepted(i)
             /\ \A l \in Visible : UpTo(Watermark(l), checkpoint) =>
                                        UpTo(Watermark(l), Watermark(i))
    <2>1. /\ i \in Visible /\ IsAccepted(i) /\ Before(checkpoint, Watermark(i))
        BY DEF TypeOK, Landed, RunInOrder
    <2>2. ASSUME NEW l \in Visible, UpTo(Watermark(l), checkpoint)
          PROVE  UpTo(Watermark(l), Watermark(i))
        <3>1. /\ Watermark(l) \in Marks /\ Watermark(i) \in Marks /\ checkpoint \in Marks
            BY <2>1, EventMarks
        <3>2. Before(Watermark(l), Watermark(i))
            BY <2>1, <2>2, <3>1, MarksInOrder
        <3> QED BY <3>2 DEF UpTo
    <2> QED BY <2>1, <2>2
<1> QED BY <1>1, <1>2

(* The rows of the landed events, by key. *)
LEMMA LandedRows ==
    ASSUME TypeOK, Landed, NEW k \in DOMAIN EffectiveRows(accepted)
    PROVE  /\ k \in Keys
           /\ EffectiveRows(accepted)[k] \in Rows \cup {Absent}
           /\ \E i \in accepted : /\ IsLastOf(i, k, accepted) /\ Touches(i, k)
                                  /\ EffectiveRows(accepted)[k] = RowLeft(i, k)
<1>1. accepted \subseteq Ids
    BY EventMarks DEF TypeOK
<1>2. PICK i \in accepted : IsLastOf(i, k, accepted)
    BY <1>1, EffectiveRowsAre
<1>3. EffectiveRows(accepted)[k] = RowLeft(i, k) /\ k \in Keys
    BY <1>1, <1>2, EffectiveRowsAre
<1>4. RowLeft(i, k) \in Rows \cup {Absent}
    <2>1. audit[i].row \in Rows \cup {Absent, Invalid} /\ audit[i].row # Invalid
        BY <1>1, EventFields DEF Landed, IsAccepted
    <2> QED BY <2>1 DEF RowLeft
<1> QED BY <1>2, <1>3, <1>4 DEF IsLastOf

(* The changed rows are written. *)
LEMMA ApplyUpsertsIInv ==
    ASSUME IInv, ApplyUpserts
    PROVE  IInv'
<1> USE DEF IInv
<1> DEFINE eff == EffectiveRows(accepted)
           batch == [k \in ChangedKeys(eff) |-> eff[k]]
<1>1. /\ phase = "landed" /\ phase' = "upserted" /\ Upsert(batch)
      /\ UNCHANGED <<sourceVars, mode, checkpoint, start, windowEnd, accepted, applied,
                     crashes>>
    BY DEF ApplyUpserts
<1>2. \A k \in DOMAIN eff :
        /\ k \in Keys /\ eff[k] \in Rows \cup {Absent}
        /\ \E i \in accepted : /\ IsLastOf(i, k, accepted) /\ Touches(i, k)
                              /\ eff[k] = RowLeft(i, k)
    BY LandedRows
<1>3. accepted \subseteq Ids
    BY EventMarks DEF TypeOK
<1>4. \A k \in Keys, i \in accepted : IsLastOf(i, k, accepted) =>
            k \in DOMAIN eff /\ eff[k] = RowLeft(i, k)
    BY <1>3, EffectiveRowsAre DEF IsLastOf
<1> HIDE DEF eff
<1>5. /\ UpsertKeys(eff) = {k \in DOMAIN eff : eff[k] # Absent}
      /\ ChangedKeys(eff) = {k \in UpsertKeys(eff) : hashState[k] # RowHash[eff[k]]}
    BY DEF UpsertKeys, ChangedKeys
<1>6. batch \in Batches /\ DOMAIN batch = ChangedKeys(eff)
    <2>1. ChangedKeys(eff) \in SUBSET Keys /\ \A k \in ChangedKeys(eff) : eff[k] \in Rows
        BY <1>2, <1>5
    <2>2. batch \in [ChangedKeys(eff) -> Rows]
        BY <2>1
    <2> QED BY <2>1, <2>2 DEF Batches
<1>7. TargetTypeOK' /\ HashStateSound'
    <2> HIDE DEF batch
    <2> QED BY <1>1, <1>6, UpsertSound DEF TypeOK
<1>8. \A k \in Keys : curated'[k] = IF k \in ChangedKeys(eff) THEN eff[k] ELSE curated[k]
    BY <1>1, <1>6 DEF Upsert
<1>9. TypeOK'
    BY <1>1, <1>7, RunTypeOK DEF TypeOK
<1>10. RunInOrder'
    BY <1>1, SameAudit DEF RunInOrder, UpTo, Before
<1>11. Landed'
    BY <1>1, SameAudit DEF Landed, Window, UpTo, Before, sourceVars
<1>12. OnlyOvertakenSkipped'
    BY <1>1, SameAudit DEF OnlyOvertakenSkipped, Skipped, UpTo, Before, sourceVars
<1>13. ASSUME NoCollisions
       PROVE  Applied'
    <2>1. ASSUME NEW k \in Keys, NEW i \in accepted, IsLastOf(i, k, accepted),
                 RowLeft(i, k) # Absent
          PROVE  curated'[k] = RowLeft(i, k)
        <3>1. k \in UpsertKeys(eff) /\ eff[k] = RowLeft(i, k) /\ eff[k] \in Rows
            BY <1>2, <1>4, <1>5, <2>1
        <3>2. CASE hashState[k] = RowHash[eff[k]]
            BY <1>5, <1>8, <1>13, <3>1, <3>2, RecordedRowIsThere DEF TypeOK
        <3>3. CASE hashState[k] # RowHash[eff[k]]
            BY <1>5, <1>8, <3>1, <3>3
        <3> QED BY <3>2, <3>3
    <2>2. \A k, i : /\ IsLastOf(i, k, accepted)' <=> IsLastOf(i, k, accepted)
                   /\ RowLeft(i, k)' = RowLeft(i, k)
        BY <1>1, SameAudit DEF IsLastOf, UpTo, Before
    <2> QED BY <1>1, <2>1, <2>2 DEF Applied, IsLastOf
<1>14. ASSUME NoCollisions
       PROVE  NothingStale'
    <2>1. \A k \in Keys : \/ curated'[k] = curated[k]
                         \/ \E i \in accepted : Touches(i, k) /\ curated'[k] = RowLeft(i, k)
        BY <1>2, <1>5, <1>8
    <2> QED BY <1>1, <1>14, <2>1, LandedRowsAreFresh
<1> QED BY <1>7, <1>9, <1>10, <1>11, <1>12, <1>13, <1>14 DEF NoCollisions
(* The deleted keys are removed, and the landed events are applied. *)
LEMMA ApplyDeletesIInv ==
    ASSUME IInv, ApplyDeletes
    PROVE  IInv'
<1> USE DEF IInv
<1> DEFINE eff == EffectiveRows(accepted)
           K == DOMAIN eff \ UpsertKeys(eff)
<1>1. /\ phase = "upserted" /\ phase' = "applied" /\ Delete(K, K)
      /\ applied' = applied \cup accepted
      /\ UNCHANGED <<sourceVars, mode, checkpoint, start, windowEnd, accepted, crashes>>
    BY DEF ApplyDeletes
<1>2. \A k \in DOMAIN eff :
        \E i \in accepted : /\ IsLastOf(i, k, accepted) /\ Touches(i, k)
                           /\ eff[k] = RowLeft(i, k)
    BY LandedRows
<1>3. accepted \subseteq Ids
    BY EventMarks DEF TypeOK
<1>4. \A k \in Keys, i \in accepted : IsLastOf(i, k, accepted) =>
            k \in DOMAIN eff /\ eff[k] = RowLeft(i, k)
    BY <1>3, EffectiveRowsAre DEF IsLastOf
<1> HIDE DEF eff
<1>5. \A k : k \in K <=> k \in DOMAIN eff /\ eff[k] = Absent
    BY DEF UpsertKeys
<1> HIDE DEF K
<1>6. TargetTypeOK' /\ HashStateSound'
    BY <1>1, DeleteSound DEF TypeOK
<1>7. \A k \in Keys : curated'[k] = IF k \in K THEN Absent ELSE curated[k]
    BY <1>1 DEF Delete
<1>8. TypeOK'
    BY <1>1, <1>6, RunTypeOK DEF TypeOK
<1>9. RunInOrder'
    BY <1>1, SameAudit DEF RunInOrder, UpTo, Before
<1>10. Landed'
    BY <1>1, SameAudit DEF Landed, Window, UpTo, Before, sourceVars
<1>11. OnlyOvertakenSkipped'
    BY <1>1, SameAudit DEF OnlyOvertakenSkipped, Skipped, UpTo, Before, sourceVars
<1>12. ASSUME NoCollisions
       PROVE  Applied'
    <2>1. ASSUME NEW k \in Keys, NEW i \in accepted, IsLastOf(i, k, accepted)
          PROVE  curated'[k] = RowLeft(i, k)
        <3>1. RowLeft(i, k) # Absent => curated[k] = RowLeft(i, k)
            BY <1>1, <1>3, <1>12, <2>1 DEF Applied
        <3> QED BY <1>4, <1>5, <1>7, <2>1, <3>1
    <2>2. \A k, i : /\ IsLastOf(i, k, accepted)' <=> IsLastOf(i, k, accepted)
                   /\ RowLeft(i, k)' = RowLeft(i, k)
        BY <1>1, SameAudit DEF IsLastOf, UpTo, Before
    <2> QED BY <1>1, <2>1, <2>2 DEF Applied, IsLastOf
<1>13. ASSUME NoCollisions
       PROVE  NothingStale'
    <2>1. \A k \in Keys : \/ curated'[k] = curated[k]
                         \/ \E i \in accepted : Touches(i, k) /\ curated'[k] = RowLeft(i, k)
        BY <1>2, <1>5, <1>7
    <2> QED BY <1>1, <1>13, <2>1, LandedRowsAreFresh
<1> QED BY <1>6, <1>8, <1>9, <1>10, <1>11, <1>12, <1>13 DEF NoCollisions

(* The watermark saved is that of the last landed event, or the window's end. *)
LEMMA ResolvedIs ==
    ASSUME TypeOK, RunInOrder, Landed, phase = "applied"
    PROVE  /\ IsReached(Resolved) /\ UpTo(start, Resolved) /\ UpTo(Resolved, windowEnd)
           /\ \A i \in accepted : UpTo(Watermark(i), Resolved)
<1>1. IsReached(start) /\ IsReached(windowEnd) /\ UpTo(start, windowEnd)
    BY DEF RunInOrder
<1>2. CASE accepted # {}
    <2>1. Resolved = Watermark(LatestOf(accepted))
        BY <1>2 DEF Resolved
    <2>2. /\ LatestOf(accepted) \in accepted
          /\ \A i \in accepted : UpTo(Watermark(i), Watermark(LatestOf(accepted)))
        BY <1>2, EventMarks, LatestIs DEF TypeOK
    <2>3. /\ LatestOf(accepted) \in Visible
          /\ Before(start, Watermark(LatestOf(accepted)))
          /\ UpTo(Watermark(LatestOf(accepted)), windowEnd)
        BY <2>2 DEF TypeOK, Landed
    <2> QED BY <2>1, <2>2, <2>3 DEF IsReached, UpTo
<1>3. CASE accepted = {} /\ windowEnd # NoWatermark
    BY <1>1, <1>3 DEF Resolved, UpTo
<1>4. CASE accepted = {} /\ windowEnd = NoWatermark
    BY <1>1, <1>4 DEF Resolved, UpTo
<1> QED BY <1>2, <1>3, <1>4

(* The run ends and its checkpoint is kept. *)
LEMMA SaveCheckpointIInv ==
    ASSUME IInv, SaveCheckpoint
    PROVE  IInv' /\ UpTo(checkpoint, checkpoint')
<1> USE DEF IInv
<1>1. /\ phase = "applied" /\ phase' = "idle" /\ checkpoint' = Resolved
      /\ start' = NoWatermark /\ windowEnd' = NoWatermark /\ accepted' = {}
      /\ UNCHANGED <<targetVars, sourceVars, mode, applied, crashes>>
    BY DEF SaveCheckpoint, EndRun
<1>2. /\ IsReached(Resolved) /\ UpTo(checkpoint, Resolved) /\ UpTo(Resolved, windowEnd)
      /\ \A i \in accepted : UpTo(Watermark(i), Resolved)
      /\ Resolved \in Watermarks /\ start = checkpoint
    BY <1>1, ResolvedIs, ReachedInBounds DEF RunInOrder
<1>3. NoWatermark \in Watermarks
    BY ReachedInBounds DEF IsReached
<1>4. TargetTypeOK' /\ HashStateSound'
    BY <1>1, TargetUnchangedSound DEF TypeOK
<1>5. TypeOK'
    BY <1>1, <1>2, <1>3, <1>4, RunTypeOK DEF TypeOK
<1>6. RunInOrder'
    BY <1>1, <1>2, SameAudit DEF RunInOrder
<1>7. Landed' /\ Applied'
    BY <1>1 DEF Landed, Applied, IsLastOf
<1>8. ASSUME NEW i \in Visible, IsAccepted(i), UpTo(Watermark(i), Resolved)
      PROVE  UpTo(Watermark(i), checkpoint) \/ i \in accepted \/ i \in overtaken
    <2>1. /\ Watermark(i) \in Marks /\ checkpoint \in Marks /\ windowEnd \in Marks
          /\ Resolved \in Marks
        <3>1. Watermarks \subseteq Marks
            BY BoundsAssumption DEF TypeOK, Watermarks, Marks
        <3> QED BY <1>2, <3>1, EventMarks
    <2>2. UpTo(Watermark(i), windowEnd)
        BY <1>2, <1>8, <2>1, MarksInOrder
    <2>3. UpTo(Watermark(i), checkpoint) \/ Before(checkpoint, Watermark(i))
        BY <2>1, MarksInOrder
    <2>4. CASE Before(checkpoint, Watermark(i))
        <3>1. i \in Window(start, windowEnd)
            BY <1>2, <2>2, <2>4 DEF Window
        <3> QED BY <1>1, <1>8, <3>1 DEF Landed
    <2> QED BY <2>3, <2>4
<1>9. OnlyOvertakenSkipped'
    <2> SUFFICES ASSUME NEW i \in Visible, IsAccepted(i), UpTo(Watermark(i), Resolved),
                        i \notin applied
                 PROVE  i \in overtaken
        BY <1>1, SameAudit DEF OnlyOvertakenSkipped, Skipped, UpTo, Before, sourceVars
    <2> QED BY <1>1, <1>8 DEF OnlyOvertakenSkipped, Skipped, Landed
<1>10. ASSUME NoCollisions
       PROVE  NothingStale'
    <2> SUFFICES ASSUME overtaken = {}, NEW k \in Keys,
                        NEW j \in Visible, Touches(j, k), IsAccepted(j),
                        UpTo(Watermark(j), Resolved)
                 PROVE  \E i \in Visible :
                            /\ Touches(i, k) /\ IsAccepted(i) /\ curated[k] = RowLeft(i, k)
                            /\ \A l \in Visible :
                                    Touches(l, k) /\ IsAccepted(l)
                                    /\ UpTo(Watermark(l), Resolved) =>
                                        UpTo(Watermark(l), Watermark(i))
        BY <1>1, SameAudit DEF NothingStale, UpTo, Before, sourceVars, targetVars
    <2>1. CASE \A l \in accepted : ~Touches(l, k)
        <3>1. \A l \in Visible : Touches(l, k) /\ IsAccepted(l) /\ UpTo(Watermark(l), Resolved)
                                => UpTo(Watermark(l), checkpoint)
            BY <1>8, <2>1
        <3>2. NothingStale
            BY <1>10
        <3> QED BY <3>1, <3>2 DEF NothingStale
    <2>2. CASE \E l \in accepted : Touches(l, k)
        <3>1. PICK i \in accepted : IsLastOf(i, k, accepted)
            <4>1. accepted \subseteq Ids
                BY EventMarks DEF TypeOK
            <4> QED BY <2>2, <4>1, EffectiveRowsAre
        <3>2. /\ i \in Visible /\ i \in Ids /\ IsAccepted(i) /\ Touches(i, k)
              /\ Before(checkpoint, Watermark(i))
            BY <1>2, <3>1, EventMarks DEF IsLastOf, TypeOK, Landed
        <3>3. curated[k] = RowLeft(i, k)
            BY <1>1, <1>10, <3>1, <3>2 DEF Applied
        <3>4. ASSUME NEW l \in Visible, Touches(l, k), IsAccepted(l),
                     UpTo(Watermark(l), Resolved)
              PROVE  UpTo(Watermark(l), Watermark(i))
            <4>1. CASE l \in accepted
                BY <3>1, <3>4, <4>1 DEF IsLastOf
            <4>2. CASE UpTo(Watermark(l), checkpoint)
                <5>1. /\ Watermark(l) \in Marks /\ Watermark(i) \in Marks
                      /\ checkpoint \in Marks
                    BY <3>2, EventMarks
                <5>2. Before(Watermark(l), Watermark(i))
                    BY <3>2, <4>2, <5>1, MarksInOrder
                <5> QED BY <5>2 DEF UpTo
            <4> QED BY <1>8, <3>4, <4>1, <4>2
        <3> QED BY <3>2, <3>3, <3>4
    <2> QED BY <2>1, <2>2
<1>11. UpTo(checkpoint, checkpoint')
    BY <1>1, <1>2
<1> QED BY <1>4, <1>5, <1>6, <1>7, <1>9, <1>10, <1>11 DEF NoCollisions

(* A run that dies leaves the checkpoint and what it wrote. *)
LEMMA CrashIInv ==
    ASSUME IInv, Crash
    PROVE  IInv'
<1> USE DEF IInv
<1>1. /\ phase' = "idle" /\ crashes < MaxCrashes /\ crashes' = crashes + 1
      /\ start' = NoWatermark /\ windowEnd' = NoWatermark /\ accepted' = {}
      /\ UNCHANGED <<targetVars, sourceVars, mode, checkpoint, applied>>
    BY DEF Crash, EndRun
<1>2. /\ TargetTypeOK' /\ HashStateSound' /\ OnlyOvertakenSkipped'
      /\ NoCollisions => NothingStale'
    BY <1>1, SamePromises
<1>3. TypeOK'
    <2>1. NoWatermark \in Watermarks
        BY ReachedInBounds DEF IsReached
    <2>2. crashes' \in 0..MaxCrashes
        BY <1>1, BoundsAssumption DEF TypeOK
    <2> QED BY <1>1, <1>2, <2>1, <2>2, RunTypeOK DEF TypeOK
<1>4. RunInOrder'
    BY <1>1, SameAudit DEF RunInOrder
<1>5. Landed' /\ Applied'
    BY <1>1 DEF Landed, Applied, IsLastOf
<1> QED BY <1>2, <1>3, <1>4, <1>5
-----------------------------------------------------------------------------
(* The invariant holds before anything has happened. *)
LEMMA InitIInv == Init => IInv
<1> SUFFICES ASSUME Init PROVE IInv
    OBVIOUS
<1> USE DEF Init
<1>1. Ids = {} /\ Visible = {} /\ audit \in Seq(AuditEvents) /\ Len(audit) = 0
    BY DEF Ids, Visible
<1>2. TargetTypeOK /\ HashStateSound
    BY TargetInitSound
<1>3. NoWatermark \in Watermarks
    BY BoundsAssumption DEF NoWatermark, Watermarks
<1>4. TypeOK
    BY <1>1, <1>2, <1>3, BoundsAssumption DEF TypeOK
<1>5. RunInOrder /\ Landed /\ Applied
    BY DEF RunInOrder, Landed, Applied, IsLastOf, IsReached
<1>6. OnlyOvertakenSkipped /\ NothingStale
    BY <1>1 DEF OnlyOvertakenSkipped, Skipped, NothingStale
<1> QED BY <1>2, <1>4, <1>5, <1>6 DEF IInv

(* The source's steps and the runs' keep the invariant, and the checkpoint *)
(* does not move back.                                                     *)
LEMMA StepIInv ==
    ASSUME IInv, [Next]_vars
    PROVE  IInv' /\ (checkpoint' = checkpoint \/ UpTo(checkpoint, checkpoint'))
<1>1. ASSUME NEW t \in Txns, SourceWrite(t) \/ SourceStamp(t) \/ SourceCommit(t)
      PROVE  IInv' /\ checkpoint' = checkpoint
    <2>1. TypeOK' /\ SourceGrows
        BY <1>1, SourceWriteGrows, SourceStampGrows, SourceCommitGrows DEF IInv
    <2> QED BY <2>1, SourceIInv DEF SourceGrows
<1>2. CASE SelectWindowEnd
    BY <1>2, SelectWindowEndIInv DEF SelectWindowEnd
<1>3. CASE ReadWindowAndLand
    BY <1>3, ReadWindowAndLandIInv DEF ReadWindowAndLand
<1>4. CASE ApplyUpserts
    BY <1>4, ApplyUpsertsIInv DEF ApplyUpserts
<1>5. CASE ApplyDeletes
    BY <1>5, ApplyDeletesIInv DEF ApplyDeletes
<1>6. CASE SaveCheckpoint
    BY <1>6, SaveCheckpointIInv
<1>7. CASE Crash
    BY <1>7, CrashIInv DEF Crash
<1>8. CASE UNCHANGED vars
    <2>1. UNCHANGED <<sourceVars, mode, checkpoint, applied>> /\ UNCHANGED targetVars
          /\ UNCHANGED <<phase, start, windowEnd, accepted, crashes>>
        BY <1>8 DEF vars, sourceVars, targetVars
    <2>2. /\ TargetTypeOK' /\ HashStateSound' /\ OnlyOvertakenSkipped'
          /\ NoCollisions => NothingStale'
        BY <2>1, SamePromises
    <2>3. TypeOK'
        BY <2>1, <2>2, RunTypeOK DEF IInv, TypeOK
    <2>4. RunInOrder'
        BY <2>1, SameAudit DEF IInv, RunInOrder, UpTo, Before
    <2>5. Landed'
        BY <2>1, SameAudit DEF IInv, Landed, Window, UpTo, Before, sourceVars
    <2>6. NoCollisions => Applied'
        BY <2>1, SameAudit DEF IInv, Applied, IsLastOf, UpTo, Before, targetVars
    <2> QED BY <2>1, <2>2, <2>3, <2>4, <2>5, <2>6 DEF IInv, NoCollisions
<1> QED BY <1>1, <1>2, <1>3, <1>4, <1>5, <1>6, <1>7, <1>8 DEF Next, Source, Run

(* The invariant holds in every reachable state. *)
THEOREM SpecIInv == Spec => []IInv
<1>1. IInv /\ [Next]_vars => IInv'
    BY StepIInv
<1> QED BY InitIInv, <1>1, PTL DEF Spec

(* Every variable of the source, the runs and the target keeps its type. *)
THEOREM SpecTypeOK == Spec => []TypeOK
<1>1. IInv => TypeOK
    BY DEF IInv
<1> QED BY SpecIInv, <1>1, PTL

(***************************************************************************)
(* The only changes ever skipped are those that became visible after one   *)
(* with a later watermark, in both watermark modes, whatever was           *)
(* quarantined and wherever runs died: the checkpoint is the last landed   *)
(* event's watermark or the window's end (checkpoint.py), and all that lie *)
(* below it was in the window or had been applied.                         *)
(***************************************************************************)
THEOREM SpecOnlyOvertakenSkipped == Spec => []OnlyOvertakenSkipped
<1>1. IInv => OnlyOvertakenSkipped
    BY DEF IInv
<1> QED BY SpecIInv, <1>1, PTL

(***************************************************************************)
(* checkpoint_watermark_from_payload never answers a watermark before the  *)
(* one the run started from, so a checkpoint never moves back.             *)
(***************************************************************************)
THEOREM SpecCheckpointNeverMovesBack == Spec => CheckpointNeverMovesBack
<1>1. IInv /\ [Next]_vars => [UpTo(checkpoint, checkpoint')]_vars
    BY StepIInv DEF UpTo
<1> QED BY SpecIInv, <1>1, PTL DEF Spec, CheckpointNeverMovesBack

(***************************************************************************)
(* As long as no change was overtaken, no row is older than the checkpoint *)
(* says: if no two rows have one hash, what an apply writes, skips as      *)
(* unchanged or leaves half-done under a key is the row of an accepted     *)
(* change at or after the last one passed.                                 *)
(***************************************************************************)
THEOREM SpecNoStaleRow ==
    ASSUME NoCollisions
    PROVE  Spec => []NoStaleRow
<1>1. IInv => NoStaleRow
    <2> SUFFICES ASSUME IInv, overtaken = {}, NEW k \in Keys PROVE
            LET S == {i \in Visible : Touches(i, k) /\ IsAccepted(i)}
                passed == {i \in S : UpTo(Watermark(i), checkpoint)}
            IN  passed # {} =>
                    \E i \in S : /\ UpTo(Watermark(LatestOf(passed)), Watermark(i))
                                 /\ curated[k] = RowLeft(i, k)
        BY DEF NoStaleRow
    <2> DEFINE S == {i \in Visible : Touches(i, k) /\ IsAccepted(i)}
               passed == {i \in S : UpTo(Watermark(i), checkpoint)}
    <2> SUFFICES ASSUME passed # {}
                 PROVE  \E i \in S : /\ UpTo(Watermark(LatestOf(passed)), Watermark(i))
                                     /\ curated[k] = RowLeft(i, k)
        OBVIOUS
    <2>1. LatestOf(passed) \in passed
        <3>1. passed \subseteq Ids
            BY DEF Visible
        <3> HIDE DEF passed
        <3> QED BY <3>1, LatestIs DEF IInv
    <2>2. \E i \in S : /\ \A j \in passed : UpTo(Watermark(j), Watermark(i))
                       /\ curated[k] = RowLeft(i, k)
        BY DEF IInv, NothingStale
    <2> HIDE DEF S, passed
    <2> QED BY <2>1, <2>2
<1> QED BY SpecIInv, <1>1, PTL
=============================================================================
