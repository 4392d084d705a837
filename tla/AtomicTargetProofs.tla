------------------------- MODULE AtomicTargetProofs -------------------------
(***************************************************************************)
(* Facts about the write calls of AtomicTarget, for any keys, rows and     *)
(* hashes, and before them three facts of mathematics: a finite set has a  *)
(* largest element, induction said of a set of numbers, and that a         *)
(* function defined by recursion on the naturals exists.  The proofs about *)
(* the pipelines, and those about CuratedTarget, rest on them.             *)
(***************************************************************************)
EXTENDS AtomicTarget, FiniteSetTheorems, TLAPS

(* Of finitely many things that have a number, one has the largest.  With  *)
(* the things whose number is larger still taken away, fewer remain.       *)
LEMMA LargestExists ==
    ASSUME NEW S, IsFiniteSet(S), S # {}, NEW num \in [S -> Int]
    PROVE  \E x \in S : \A y \in S : num[y] <= num[x]
<1> SUFFICES ASSUME \A x \in S : \E y \in S : num[x] < num[y]
             PROVE  FALSE
    OBVIOUS
<1> DEFINE Above(x) == {y \in S : num[x] < num[y]}
           Aboves == {Above(x) : x \in S}
<1>1. \E M \in Aboves : \A N \in Aboves : ~(<<N, M>> \in StrictSubsetOrdering(S))
    <2>1. Aboves \subseteq FiniteSubsetsOf(S)
        BY FS_Subset DEF FiniteSubsetsOf
    <2>2. Aboves # {}
        <3>1. \A x \in S : Above(x) \in Aboves
            OBVIOUS
        <3> HIDE DEF Above, Aboves
        <3> QED BY <3>1
    <2> HIDE DEF Aboves
    <2> QED BY <2>1, <2>2, WFMin, FS_StrictSubsetOrderingWellFounded
<1>2. PICK x \in S : \A N \in Aboves : ~(<<N, Above(x)>> \in StrictSubsetOrdering(S))
    BY <1>1
<1>3. PICK y \in S : num[x] < num[y]
    OBVIOUS
<1>4. Above(y) \subseteq Above(x) /\ y \in Above(x) /\ y \notin Above(y)
    BY <1>3
<1>5. <<Above(y), Above(x)>> \in StrictSubsetOrdering(S)
    BY <1>4 DEF StrictSubsetOrdering
<1> QED BY <1>2, <1>5

(* Induction, said of a set: the least number outside it would follow one *)
(* that is in it.                                                         *)
LEMMA NatSetInduction ==
    ASSUME NEW T, 0 \in T, \A n \in Nat : n \in T => n + 1 \in T
    PROVE  \A n \in Nat : n \in T
<1> DEFINE Rest == Nat \ T
           Less == {p \in Nat \X Nat : p[1] < p[2]}
<1> SUFFICES ASSUME Rest # {} PROVE FALSE
    OBVIOUS
<1>1. PICK n \in Rest : \A m \in Rest : ~(<<m, n>> \in Less)
    <2>1. IsWellFoundedOn(Less, Nat)
        BY NatLessThanWellFounded DEF OpToRel
    <2>2. Rest \subseteq Nat
        OBVIOUS
    <2> HIDE DEF Less, Rest
    <2> QED BY <2>1, <2>2, WFMin
<1>2. n \in Nat /\ n \notin T /\ n - 1 \in Nat
    <2>1. n \in Nat /\ n \notin T /\ n # 0
        OBVIOUS
    <2> QED BY <2>1
<1>3. n - 1 \notin T
    <2>1. n - 1 \in T => (n - 1) + 1 \in T
        BY <1>2
    <2> QED BY <1>2, <2>1
<1>4. n - 1 \in Rest /\ <<n - 1, n>> \in Less
    BY <1>2, <1>3
<1> HIDE DEF Less, Rest
<1> QED BY <1>1, <1>4

(* f begins with c and goes on by step. *)
GoesOn(f, c, step) == f[0] = c /\ \A n \in Nat : f[n + 1] = step[n][f[n]]

(* What is defined step by step exists. *)
LEMMA RecursionExists ==
    ASSUME NEW S, NEW c \in S, NEW step, step \in [Nat -> [S -> S]]
    PROVE  \E f \in [Nat -> S] : GoesOn(f, c, step)
<1> DEFINE Follows(g, n) ==
                /\ g \in [Nat -> S] /\ g[0] = c
                /\ \A i \in Nat : i < n => g[i + 1] = step[i][g[i]]
           T == {n \in Nat : \E g : Follows(g, n)}
<1>1. 0 \in T
    <2>1. Follows([i \in Nat |-> c], 0)
        OBVIOUS
    <2> QED BY <2>1
<1>2. ASSUME NEW n \in Nat, n \in T
      PROVE  n + 1 \in T
    <2>1. PICK g : Follows(g, n)
        BY <1>2
    <2> DEFINE h == [i \in Nat |-> IF i = n + 1 THEN step[n][g[n]] ELSE g[i]]
    <2>2. h \in [Nat -> S] /\ h[0] = c
        BY <2>1
    <2>3. ASSUME NEW i \in Nat, i < n + 1
          PROVE  h[i + 1] = step[i][h[i]]
        <3>1. h[i] = g[i]
            BY <2>3
        <3>2. CASE i = n
            BY <3>1, <3>2
        <3>3. CASE i # n
            <4>1. i < n /\ i + 1 # n + 1
                BY <2>3, <3>3
            <4>2. h[i + 1] = g[i + 1]
                BY <4>1
            <4> QED BY <2>1, <3>1, <4>1, <4>2
        <3> QED BY <3>2, <3>3
    <2> HIDE DEF h
    <2>4. Follows(h, n + 1)
        BY <2>2, <2>3
    <2> QED BY <2>4
<1>3. \A n \in Nat : \E g : Follows(g, n)
    <2> HIDE DEF T
    <2>1. \A n \in Nat : n \in T
        BY <1>1, <1>2, NatSetInduction
    <2> QED BY <2>1 DEF T
<1>4. ASSUME NEW m \in Nat, NEW n \in Nat, NEW g, NEW h, Follows(g, m), Follows(h, n)
      PROVE  \A i \in Nat : i <= m /\ i <= n => g[i] = h[i]
    <2> DEFINE Same == {i \in Nat : i <= m /\ i <= n => g[i] = h[i]}
    <2>1. 0 \in Same
        BY <1>4
    <2>2. ASSUME NEW i \in Nat, i \in Same
          PROVE  i + 1 \in Same
        <3>1. SUFFICES ASSUME i + 1 <= m, i + 1 <= n PROVE g[i + 1] = h[i + 1]
            OBVIOUS
        <3>2. i < m /\ i < n /\ i <= m /\ i <= n
            BY <3>1
        <3>3. g[i] = h[i]
            BY <2>2, <3>2
        <3>4. g[i + 1] = step[i][g[i]] /\ h[i + 1] = step[i][h[i]]
            BY <1>4, <3>2
        <3> QED BY <3>3, <3>4
    <2> HIDE DEF Same
    <2>3. \A i \in Nat : i \in Same
        BY <2>1, <2>2, NatSetInduction
    <2> QED BY <2>3 DEF Same
<1> DEFINE part == [n \in Nat |-> CHOOSE g : Follows(g, n)]
           f == [n \in Nat |-> part[n][n]]
<1>5. \A n \in Nat : Follows(part[n], n)
    <2> HIDE DEF Follows
    <2>1. \A n \in Nat : part[n] = CHOOSE g : Follows(g, n)
        OBVIOUS
    <2> QED BY <1>3, <2>1, Zenon
<1> HIDE DEF part
<1>6. f \in [Nat -> S] /\ f[0] = c
    BY <1>5
<1>7. ASSUME NEW n \in Nat
      PROVE  f[n + 1] = step[n][f[n]]
    <2>1. /\ Follows(part[n], n) /\ Follows(part[n + 1], n + 1)
          /\ n + 1 \in Nat
        BY <1>5
    <2>2. part[n + 1][n] = part[n][n]
        <3>1. \A i \in Nat : i <= n /\ i <= n + 1 => part[n][i] = part[n + 1][i]
            <4> HIDE DEF Follows
            <4> QED BY <1>4, <2>1
        <3> QED BY <3>1
    <2>3. part[n + 1][n + 1] = step[n][part[n + 1][n]]
        BY <2>1
    <2> QED BY <2>1, <2>2, <2>3
<1> HIDE DEF f
<1> QED BY <1>6, <1>7 DEF GoesOn

(* Every row of a batch is a row of Rows, under one of its keys. *)
LEMMA BatchRow ==
    ASSUME NEW b \in Batches
    PROVE  /\ DOMAIN b \subseteq Keys
           /\ \A k \in DOMAIN b : b[k] \in Rows
BY DEF Batches

(* A call without rows. *)
LEMMA EmptyBatch == [k \in {} |-> Absent] \in Batches
<1>1. [k \in {} |-> Absent] \in [{} -> Rows]
    OBVIOUS
<1> QED BY <1>1 DEF Batches

(* Empty tables are well typed, and record no hash. *)
LEMMA TargetInitSound == TargetInit => TargetTypeOK /\ HashStateSound
BY DEF TargetInit, TargetTypeOK, HashStateSound

(* An upsert keeps recorded hashes right. *)
LEMMA UpsertSound ==
    ASSUME TargetTypeOK, HashStateSound, NEW batch \in Batches, Upsert(batch)
    PROVE  TargetTypeOK' /\ HashStateSound'
<1>1. \A k \in DOMAIN batch : batch[k] \in Rows /\ RowHash[batch[k]] \in Hashes
    BY BatchRow, RowHashAssumption
<1> QED BY <1>1, AbsentAssumption DEF Upsert, TargetTypeOK, HashStateSound

(* A delete keeps recorded hashes right. *)
LEMMA DeleteSound ==
    ASSUME TargetTypeOK, HashStateSound, NEW C, NEW H, Delete(C, H)
    PROVE  TargetTypeOK' /\ HashStateSound'
BY DEF Delete, TargetTypeOK, HashStateSound

(* Calls that leave the target alone keep them right. *)
LEMMA TargetUnchangedSound ==
    ASSUME TargetTypeOK, HashStateSound, UNCHANGED targetVars
    PROVE  TargetTypeOK' /\ HashStateSound'
BY DEF targetVars, TargetTypeOK, HashStateSound

(***************************************************************************)
(* What classify_changes concludes: a row whose hash is recorded is the    *)
(* row the curated table holds (change_detection.py:19-36).                *)
(***************************************************************************)
LEMMA RecordedRowIsThere ==
    ASSUME NoCollisions, TargetTypeOK, HashStateSound,
           NEW k \in Keys, NEW row \in Rows, hashState[k] = RowHash[row]
    PROVE  curated[k] = row
<1>1. hashState[k] # Absent
    BY RowHashAssumption, AbsentAssumption
<1> QED BY <1>1 DEF NoCollisions, TargetTypeOK, HashStateSound

(***************************************************************************)
(* Atomic write calls keep every recorded hash that of the row they left:  *)
(* what upsert_changed_rows and delete_rows_by_keys promise to whoever     *)
(* uses them as AtomicTarget says they may be.                             *)
(***************************************************************************)
THEOREM TargetHashStateSound == TargetSpec => [](TargetTypeOK /\ HashStateSound)
<1>1. TargetTypeOK /\ HashStateSound /\ [TargetNext]_targetVars =>
        (TargetTypeOK /\ HashStateSound)'
    BY UpsertSound, DeleteSound, TargetUnchangedSound DEF TargetNext
<1> QED BY TargetInitSound, <1>1, PTL DEF TargetSpec
=============================================================================
