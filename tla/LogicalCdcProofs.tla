-------------------------- MODULE LogicalCdcProofs --------------------------
(***************************************************************************)
(* Proofs about LogicalCdc: any menu of transactions, any length of the    *)
(* WAL, any number of crashes and reads cut short.  After them, those      *)
(* about Reconciliation, where CDC is not alone: any number of merges, and *)
(* any interleaving of their statements with those of CDC.                 *)
(***************************************************************************)
EXTENDS Reconciliation, AtomicTargetProofs

Tables == [Keys -> Rows \cup {Absent, Invalid}]

(* A change of a transaction touches key k, and what it leaves there. *)
Alters(c, k) == (c.op # "D" /\ c.key = k) \/ (c.op # "I" /\ c.old = k)
Leaves(c, k) == RowAfter(c, k, Absent)
-----------------------------------------------------------------------------
(* A non-empty set of integers within bounds has a largest one. *)
LEMMA LargestInRange ==
    ASSUME NEW a \in Int, NEW b \in Int, NEW S, S \subseteq a..b, S # {}
    PROVE  \E x \in S : \A y \in S : y <= x
<1> DEFINE num == [x \in S |-> x]
<1>1. num \in [S -> Int] /\ \A x \in S : num[x] = x
    OBVIOUS
<1>2. IsFiniteSet(S)
    <2>1. IsFiniteSet(a..b)
        BY FS_Interval
    <2> QED BY <2>1, FS_Subset
<1> HIDE DEF num
<1>3. \E x \in S : \A y \in S : num[y] <= num[x]
    BY <1>1, <1>2, LargestExists
<1> QED BY <1>1, <1>3

(* A row after a change is the one it leaves, or the one before. *)
LEMMA RowAfterIs ==
    ASSUME NEW c \in Changes, NEW k, NEW row
    PROVE  /\ Alters(c, k) => RowAfter(c, k, row) = Leaves(c, k)
           /\ ~Alters(c, k) => RowAfter(c, k, row) = row
           /\ Leaves(c, k) \in Rows \cup {Absent, Invalid}
BY DEF Alters, Leaves, RowAfter, Changes

(* The table after each change of a transaction. *)
LEMMA AfterChangesIs ==
    ASSUME NEW table \in Tables, NEW changes \in Seq(Changes)
    PROVE  /\ AfterChanges(table, changes)[0] = table
           /\ \A n \in 1..Len(changes) :
                AfterChanges(table, changes)[n] =
                    [k \in Keys |-> RowAfter(changes[n], k, AfterChanges(table, changes)[n - 1][k])]
           /\ \A n \in 0..Len(changes) : AfterChanges(table, changes)[n] \in Tables
<1> DEFINE NextTable(n, t) == [k \in Keys |-> RowAfter(changes[n], k, t[k])]
           Body(f, n) == IF n = 0 THEN table ELSE NextTable(n, f[n - 1])
           IsAfter(f) == f = [n \in 0..Len(changes) |-> Body(f, n)]
           chain == [n \in Nat |-> [t \in Tables |->
                        IF n + 1 \in 1..Len(changes) THEN NextTable(n + 1, t) ELSE t]]
<1>1. Len(changes) \in Nat /\ \A n \in 1..Len(changes) : changes[n] \in Changes
    OBVIOUS
<1>2. \A n \in 1..Len(changes), t \in Tables : NextTable(n, t) \in Tables
    <2>1. ASSUME NEW n \in 1..Len(changes), NEW t \in Tables, NEW k \in Keys
          PROVE  RowAfter(changes[n], k, t[k]) \in Rows \cup {Absent, Invalid}
        BY <1>1, RowAfterIs DEF Tables
    <2> QED BY <2>1 DEF Tables
<1>3. PICK f \in [Nat -> Tables] :
        f[0] = table /\ \A n \in Nat : f[n + 1] = chain[n][f[n]]
    <2>1. chain \in [Nat -> [Tables -> Tables]]
        BY <1>2
    <2> HIDE DEF chain
    <2>2. \E f \in [Nat -> Tables] : GoesOn(f, table, chain)
        BY <2>1, RecursionExists
    <2> QED BY <2>2 DEF GoesOn
<1>4. ASSUME NEW n \in 1..Len(changes)
      PROVE  f[n] = NextTable(n, f[n - 1])
    <2>1. n - 1 \in Nat /\ (n - 1) + 1 = n
        BY <1>1
    <2>2. f[n] = chain[n - 1][f[n - 1]] /\ f[n - 1] \in Tables
        BY <1>3, <2>1
    <2>3. \A m \in Nat, t \in Tables : m + 1 \in 1..Len(changes) =>
            chain[m][t] = NextTable(m + 1, t)
        <3> HIDE DEF NextTable
        <3> QED OBVIOUS
    <2> HIDE DEF NextTable, chain
    <2> QED BY <2>1, <2>2, <2>3
<1> DEFINE g == [n \in 0..Len(changes) |-> f[n]]
<1>5. IsAfter(g)
    <2>1. \A n \in 0..Len(changes) : n # 0 => n \in 1..Len(changes) /\ n - 1 \in 0..Len(changes)
        BY <1>1
    <2>2. \A n \in 0..Len(changes) : f[n] = Body(g, n)
        <3> HIDE DEF NextTable, chain
        <3> QED BY <1>3, <1>4, <2>1
    <2> HIDE DEF Body
    <2> QED BY <2>2
<1> DEFINE after == AfterChanges(table, changes)
<1>6. IsAfter(after)
    <2>1. AfterChanges(table, changes) = CHOOSE h : IsAfter(h)
        BY DEF AfterChanges
    <2> HIDE DEF IsAfter, g, after
    <2> QED BY <1>5, <2>1, Zenon DEF after
<1>7. /\ after[0] = table
      /\ \A n \in 1..Len(changes) : after[n] = NextTable(n, after[n - 1])
    <2> HIDE DEF after
    <2>1. \A n \in 0..Len(changes) : after[n] = Body(after, n)
        <3> HIDE DEF Body
        <3> QED BY <1>6
    <2> HIDE DEF NextTable
    <2> QED BY <1>1, <2>1
<1>8. \A n \in 0..Len(changes) : after[n] \in Tables
    <2> DEFINE T == {n \in Nat : n <= Len(changes) => after[n] \in Tables}
    <2> HIDE DEF after
    <2>1. 0 \in T
        BY <1>7
    <2>2. ASSUME NEW n \in Nat, n \in T
          PROVE  n + 1 \in T
        <3> SUFFICES ASSUME n + 1 <= Len(changes) PROVE after[n + 1] \in Tables
            OBVIOUS
        <3>1. n + 1 \in 1..Len(changes) /\ (n + 1) - 1 = n /\ n <= Len(changes)
            BY <1>1
        <3>2. after[n] \in Tables
            BY <2>2, <3>1
        <3>3. after[n + 1] = NextTable(n + 1, after[n])
            BY <1>7, <3>1
        <3> HIDE DEF NextTable
        <3> QED BY <1>2, <3>1, <3>2, <3>3
    <2> HIDE DEF T
    <2>3. \A n \in Nat : n \in T
        BY <2>1, <2>2, NatSetInduction
    <2> QED BY <1>1, <2>3 DEF T
<1> QED BY <1>7, <1>8

(* The last change of a transaction that touches a key decides its row. *)
LEMMA LastChangeDecides ==
    ASSUME NEW table \in Tables, NEW changes \in Seq(Changes), NEW k \in Keys
    PROVE  LET end == AfterChanges(table, changes)[Len(changes)]
           IN  /\ (\A m \in DOMAIN changes : ~Alters(changes[m], k)) => end[k] = table[k]
               /\ \A m \in DOMAIN changes :
                    /\ Alters(changes[m], k)
                    /\ \A l \in DOMAIN changes : Alters(changes[l], k) => l <= m
                    => end[k] = Leaves(changes[m], k)
<1> DEFINE after == AfterChanges(table, changes)
           L == Len(changes)
           Untouched(n) == (\A m \in 1..n : ~Alters(changes[m], k)) => after[n][k] = table[k]
           Decided(n) == \A m \in 1..n :
                            /\ Alters(changes[m], k)
                            /\ \A l \in 1..n : Alters(changes[l], k) => l <= m
                            => after[n][k] = Leaves(changes[m], k)
           T == {n \in Nat : n <= L => Untouched(n) /\ Decided(n)}
<1>1. /\ after[0] = table
      /\ \A n \in 1..L : after[n] = [j \in Keys |-> RowAfter(changes[n], j, after[n - 1][j])]
    BY AfterChangesIs
<1>2. L \in Nat /\ DOMAIN changes = 1..L /\ \A n \in 1..L : changes[n] \in Changes
    OBVIOUS
<1> HIDE DEF after, L
<1>3. 0 \in T
    <2>1. Untouched(0)
        BY <1>1
    <2>2. Decided(0)
        <3>1. \A m \in 1..0 : FALSE
            OBVIOUS
        <3> QED BY <3>1
    <2> QED BY <2>1, <2>2
<1>4. ASSUME NEW n \in Nat, n \in T
      PROVE  n + 1 \in T
    <2> SUFFICES ASSUME n + 1 <= L PROVE Untouched(n + 1) /\ Decided(n + 1)
        OBVIOUS
    <2>1. n + 1 \in 1..L /\ n <= L /\ (n + 1) - 1 = n /\ changes[n + 1] \in Changes
        BY <1>2
    <2>2. Untouched(n) /\ Decided(n)
        BY <1>4, <2>1
    <2>3. after[n + 1][k] = RowAfter(changes[n + 1], k, after[n][k])
        <3>1. after[n + 1] = [j \in Keys |-> RowAfter(changes[n + 1], j, after[(n + 1) - 1][j])]
            BY <1>1, <2>1
        <3> QED BY <2>1, <3>1
    <2>4. \A m : m \in 1..(n + 1) <=> m \in 1..n \/ m = n + 1
        BY <1>4
    <2>5. /\ Alters(changes[n + 1], k) => after[n + 1][k] = Leaves(changes[n + 1], k)
          /\ ~Alters(changes[n + 1], k) => after[n + 1][k] = after[n][k]
        BY <2>1, <2>3, RowAfterIs
    <2>6. Untouched(n + 1)
        BY <2>2, <2>4, <2>5
    <2>7. ASSUME NEW m \in 1..(n + 1), Alters(changes[m], k),
                 \A l \in 1..(n + 1) : Alters(changes[l], k) => l <= m
          PROVE  after[n + 1][k] = Leaves(changes[m], k)
        <3>1. CASE m = n + 1
            BY <2>5, <2>7, <3>1
        <3>2. CASE m \in 1..n
            <4>1. ~Alters(changes[n + 1], k)
                <5>1. ~(n + 1 <= m) /\ n + 1 \in 1..(n + 1)
                    BY <3>2
                <5> QED BY <2>7, <5>1
            <4>2. \A l \in 1..n : Alters(changes[l], k) => l <= m
                BY <2>4, <2>7
            <4> QED BY <2>2, <2>5, <2>7, <3>2, <4>1, <4>2
        <3> QED BY <2>4, <2>7, <3>1, <3>2
    <2> QED BY <2>6, <2>7
<1> HIDE DEF T
<1>5. \A n \in Nat : n \in T
    BY <1>3, <1>4, NatSetInduction
<1>6. Untouched(L) /\ Decided(L)
    BY <1>2, <1>5 DEF T
<1> QED BY <1>2, <1>6 DEF after, L
-----------------------------------------------------------------------------
(* What TypeOK says of the WAL. *)
WalOK == wal \in Seq(Transactions)

(* One transaction of the WAL, the first m of which are accepted as they are. *)
Step(m, i, table) ==
    IF i <= m \/ IsValid(wal[i].changes)
    THEN AfterChanges(table, wal[i].changes)[Len(wal[i].changes)] ELSE table

(* The transactions of the WAL, and what one makes of a table. *)
LEMMA WalTxns ==
    ASSUME WalOK
    PROVE  /\ Len(wal) \in Nat /\ DOMAIN wal = 1..Len(wal)
           /\ EmptyTable \in Tables
           /\ \A i \in 1..Len(wal) : /\ wal[i].changes \in Seq(Changes)
                                     /\ wal[i].commit \in 1..MaxLsn
                                     /\ \A m, table : table \in Tables => Step(m, i, table) \in Tables
<1>1. Len(wal) \in Nat /\ DOMAIN wal = 1..Len(wal)
    BY DEF WalOK
<1>2. ASSUME NEW i \in 1..Len(wal)
      PROVE  wal[i].changes \in Seq(Changes) /\ wal[i].commit \in 1..MaxLsn
    <2>1. wal[i] \in Transactions
        BY <1>1 DEF WalOK
    <2> QED BY <2>1, MenuAssumption DEF Transactions
<1>3. EmptyTable \in Tables
    BY DEF EmptyTable, Tables
<1>4. ASSUME NEW i \in 1..Len(wal), NEW m, NEW table \in Tables
      PROVE  Step(m, i, table) \in Tables
    <2>1. Len(wal[i].changes) \in 0..Len(wal[i].changes)
        BY <1>2
    <2> QED BY <1>2, <2>1, AfterChangesIs DEF Step
<1> QED BY <1>1, <1>2, <1>3, <1>4

(* What accumulates begins empty and takes one transaction after the other. *)
LEMMA AccumulatedGoesOn ==
    ASSUME WalOK, NEW m \in Nat
    PROVE  /\ Accumulated(m, 0) = EmptyTable
           /\ \A n \in 1..Len(wal) : Accumulated(m, n) = Step(m, n, Accumulated(m, n - 1))
           /\ \A n \in 0..Len(wal) : Accumulated(m, n) \in Tables
<1> DEFINE Body(f, i) == IF i = 0 THEN EmptyTable ELSE Step(m, i, f[i - 1])
           IsReplay(f, n) == f = [i \in 0..n |-> Body(f, i)]
           chain == [n \in Nat |-> [t \in Tables |->
                        IF n + 1 \in 1..Len(wal) THEN Step(m, n + 1, t) ELSE t]]
<1>1. Len(wal) \in Nat
    BY WalTxns
<1>2. PICK f \in [Nat -> Tables] :
        f[0] = EmptyTable /\ \A n \in Nat : f[n + 1] = chain[n][f[n]]
    <2>1. chain \in [Nat -> [Tables -> Tables]] /\ EmptyTable \in Tables
        BY WalTxns
    <2> HIDE DEF chain
    <2>2. \E f \in [Nat -> Tables] : GoesOn(f, EmptyTable, chain)
        BY <2>1, RecursionExists
    <2> QED BY <2>2 DEF GoesOn
<1>3. ASSUME NEW n \in 1..Len(wal)
      PROVE  f[n] = Step(m, n, f[n - 1])
    <2>1. n - 1 \in Nat /\ (n - 1) + 1 = n
        BY <1>1
    <2>2. f[n] = chain[n - 1][f[n - 1]] /\ f[n - 1] \in Tables
        BY <1>2, <2>1
    <2>3. \A j \in Nat, t \in Tables : j + 1 \in 1..Len(wal) => chain[j][t] = Step(m, j + 1, t)
        OBVIOUS
    <2> HIDE DEF chain
    <2> QED BY <2>1, <2>2, <2>3
<1> HIDE DEF chain
<1>4. ASSUME NEW n \in 0..Len(wal)
      PROVE  Accumulated(m, n) = f[n]
    <2> DEFINE g == [i \in 0..n |-> f[i]]
               h == CHOOSE x : IsReplay(x, n)
    <2>1. IsReplay(g, n)
        <3>1. \A i \in 0..n : i # 0 => i \in 1..Len(wal) /\ i - 1 \in 0..n
            BY <1>1
        <3>2. \A i \in 0..n : f[i] = Body(g, i)
            BY <1>2, <1>3, <3>1
        <3> HIDE DEF Body
        <3> QED BY <3>2
    <2>2. IsReplay(h, n)
        <3> HIDE DEF IsReplay, g
        <3> QED BY <2>1, Zenon
    <2>3. Accumulated(m, n) = h[n]
        BY DEF Accumulated, Step
    <2> HIDE DEF g, h
    <2>4. \A i \in 0..n : h[i] = Body(h, i)
        <3> HIDE DEF Body
        <3> QED BY <2>2
    <2> DEFINE T == {i \in Nat : i <= n => h[i] = f[i]}
    <2>5. 0 \in T
        <3>1. 0 \in 0..n
            BY <1>1
        <3> QED BY <1>2, <2>4, <3>1
    <2>6. ASSUME NEW i \in Nat, i \in T
          PROVE  i + 1 \in T
        <3> SUFFICES ASSUME i + 1 <= n PROVE h[i + 1] = f[i + 1]
            OBVIOUS
        <3>1. /\ i + 1 \in 0..n /\ i + 1 \in 1..Len(wal) /\ i + 1 # 0
              /\ (i + 1) - 1 = i /\ i <= n
            BY <1>1
        <3>2. h[i] = f[i]
            BY <2>6, <3>1
        <3>3. h[i + 1] = Step(m, i + 1, h[i])
            BY <2>4, <3>1
        <3> QED BY <1>3, <3>1, <3>2, <3>3
    <2> HIDE DEF T
    <2>7. \A i \in Nat : i \in T
        BY <2>5, <2>6, NatSetInduction
    <2>8. n \in Nat /\ n <= n
        BY <1>1
    <2> QED BY <2>3, <2>7, <2>8 DEF T
<1>5. \A n \in 1..Len(wal) : n \in 0..Len(wal) /\ n - 1 \in 0..Len(wal)
    BY <1>1
<1>6. 0 \in 0..Len(wal) /\ \A n \in 0..Len(wal) : n \in Nat
    BY <1>1
<1> QED BY <1>2, <1>3, <1>4, <1>5, <1>6
-----------------------------------------------------------------------------
(* Transaction i is accepted and touches k, in change m. *)
AcceptedTxn(i) == HasChanges(i) /\ IsValid(wal[i].changes)
ChangesKey(i, m, k) == m \in DOMAIN wal[i].changes /\ Alters(wal[i].changes[m], k)
TouchesKey(i, k) == AcceptedTxn(i) /\ \E m \in DOMAIN wal[i].changes : ChangesKey(i, m, k)

(* One transaction past the first a. *)
LEMMA AccumulatedStep ==
    ASSUME WalOK, NEW a \in Nat, NEW i \in 1..Len(wal), a < i, NEW k \in Keys
    PROVE  /\ ~TouchesKey(i, k) => Accumulated(a, i)[k] = Accumulated(a, i - 1)[k]
           /\ \A m \in DOMAIN wal[i].changes :
                /\ AcceptedTxn(i) /\ ChangesKey(i, m, k)
                /\ \A l \in DOMAIN wal[i].changes : ChangesKey(i, l, k) => l <= m
                => Accumulated(a, i)[k] = Leaves(wal[i].changes[m], k)
<1> DEFINE before == Accumulated(a, i - 1)
           changes == wal[i].changes
<1>1. before \in Tables /\ changes \in Seq(Changes)
    <2>1. i - 1 \in 0..Len(wal)
        BY WalTxns
    <2> QED BY <2>1, AccumulatedGoesOn, WalTxns
<1>2. Accumulated(a, i) = IF IsValid(changes) THEN AfterChanges(before, changes)[Len(changes)]
                   ELSE before
    BY AccumulatedGoesOn DEF Step
<1> HIDE DEF before
<1>3. /\ (\A m \in DOMAIN changes : ~Alters(changes[m], k)) =>
            AfterChanges(before, changes)[Len(changes)][k] = before[k]
      /\ \A m \in DOMAIN changes :
            /\ Alters(changes[m], k)
            /\ \A l \in DOMAIN changes : Alters(changes[l], k) => l <= m
            => AfterChanges(before, changes)[Len(changes)][k] = Leaves(changes[m], k)
    BY <1>1, LastChangeDecides
<1>4. ~HasChanges(i) => DOMAIN changes = {}
    BY DEF HasChanges
<1> HIDE DEF changes
<1>5. /\ AcceptedTxn(i) <=> HasChanges(i) /\ IsValid(changes)
      /\ \A m : ChangesKey(i, m, k) <=> m \in DOMAIN changes /\ Alters(changes[m], k)
      /\ TouchesKey(i, k) <=> AcceptedTxn(i) /\ \E m \in DOMAIN changes : Alters(changes[m], k)
    BY DEF AcceptedTxn, ChangesKey, TouchesKey, changes
<1>6. ~TouchesKey(i, k) => Accumulated(a, i)[k] = before[k]
    BY <1>2, <1>3, <1>4, <1>5
<1>7. ASSUME NEW m \in DOMAIN changes, AcceptedTxn(i), ChangesKey(i, m, k),
             \A l \in DOMAIN changes : ChangesKey(i, l, k) => l <= m
      PROVE  Accumulated(a, i)[k] = Leaves(changes[m], k)
    BY <1>2, <1>3, <1>5, <1>7
<1> QED BY <1>6, <1>7 DEF before, changes

(* Between transactions that do not touch k its row stays. *)
LEMMA AccumulatedRests ==
    ASSUME WalOK, NEW m \in Nat, NEW a \in 0..Len(wal), m <= a, NEW b \in a..Len(wal), NEW k \in Keys,
           \A i \in (a + 1)..b : ~TouchesKey(i, k)
    PROVE  \A n \in a..b : Accumulated(m, n)[k] = Accumulated(m, a)[k]
<1> DEFINE T == {n \in Nat : n \in a..b => Accumulated(m, n)[k] = Accumulated(m, a)[k]}
<1>1. Len(wal) \in Nat
    BY WalTxns
<1>2. 0 \in T
    BY <1>1
<1>3. ASSUME NEW n \in Nat, n \in T
      PROVE  n + 1 \in T
    <2> SUFFICES ASSUME n + 1 \in a..b PROVE Accumulated(m, n + 1)[k] = Accumulated(m, a)[k]
        OBVIOUS
    <2>1. CASE n + 1 = a
        BY <2>1
    <2>2. CASE n + 1 # a
        <3>1. /\ n \in a..b /\ n + 1 \in (a + 1)..b /\ n + 1 \in 1..Len(wal) /\ m < n + 1
              /\ (n + 1) - 1 = n
            BY <1>1, <2>2
        <3>2. ~TouchesKey(n + 1, k)
            BY <3>1
        <3>3. Accumulated(m, n)[k] = Accumulated(m, a)[k]
            BY <1>3, <3>1
        <3>4. Accumulated(m, n + 1)[k] = Accumulated(m, (n + 1) - 1)[k]
            BY <3>1, <3>2, AccumulatedStep
        <3> QED BY <3>1, <3>3, <3>4
    <2> QED BY <2>1, <2>2
<1> HIDE DEF T
<1>4. \A n \in Nat : n \in T
    BY <1>2, <1>3, NatSetInduction
<1>5. \A n \in a..b : n \in Nat
    BY <1>1
<1> QED BY <1>4, <1>5 DEF T

(* The same of the replica, which leaves out every invalid transaction. *)
LEMMA ReplicaGoesOn ==
    ASSUME WalOK
    PROVE  /\ Replica(0) = EmptyTable
           /\ \A n \in 1..Len(wal) : Replica(n) = Step(0, n, Replica(n - 1))
           /\ \A n \in 0..Len(wal) : Replica(n) \in Tables
BY AccumulatedGoesOn DEF Replica

(* Between transactions that do not touch k the replica's row stays. *)
LEMMA ReplicaRests ==
    ASSUME WalOK, NEW a \in 0..Len(wal), NEW b \in a..Len(wal), NEW k \in Keys,
           \A i \in (a + 1)..b : ~TouchesKey(i, k)
    PROVE  \A n \in a..b : Replica(n)[k] = Replica(a)[k]
BY AccumulatedRests DEF Replica

(* The events of a change: one for each key it touches. *)
LEMMA EventsOfAre ==
    ASSUME NEW c \in Changes, NEW n
    PROVE  /\ \A e \in EventsOf(c, n) : Alters(c, e.key) /\ e.row = Leaves(c, e.key)
           /\ \A k : Alters(c, k) => \E e \in EventsOf(c, n) : e.key = k
<1>1. c.op \in {"I", "U", "D"}
    BY DEF Changes
<1>2. ASSUME NEW e \in EventsOf(c, n)
      PROVE  Alters(c, e.key) /\ e.row = Leaves(c, e.key)
    <2>1. \/ /\ c.op = "D" \/ (c.op = "U" /\ c.old # c.key)
             /\ e = [key |-> c.old, row |-> Absent, index |-> n]
          \/ c.op # "D" /\ e = [key |-> c.key, row |-> c.row, index |-> n]
        BY DEF EventsOf
    <2>2. \/ /\ c.op = "D" \/ (c.op = "U" /\ c.old # c.key)
             /\ e.key = c.old /\ e.row = Absent
          \/ c.op # "D" /\ e.key = c.key /\ e.row = c.row
        BY <2>1
    <2> QED BY <1>1, <2>2 DEF Alters, Leaves, RowAfter
<1>3. ASSUME NEW k, Alters(c, k)
      PROVE  \E e \in EventsOf(c, n) : e.key = k
    <2>1. CASE c.op # "D" /\ c.key = k
        <3>1. [key |-> c.key, row |-> c.row, index |-> n] \in EventsOf(c, n)
            BY <2>1 DEF EventsOf
        <3> QED BY <2>1, <3>1
    <2>2. CASE c.op # "I" /\ c.old = k /\ ~(c.op # "D" /\ c.key = k)
        <3>1. [key |-> c.old, row |-> Absent, index |-> n] \in EventsOf(c, n)
            BY <1>1, <2>2 DEF EventsOf
        <3> QED BY <2>2, <3>1
    <2> QED BY <1>3, <2>1, <2>2 DEF Alters
<1> QED BY <1>2, <1>3

(* The events of an artifact are the changes of its accepted transactions. *)
LEMMA DeltaEventsAre ==
    ASSUME WalOK, NEW from \in Nat, NEW to \in Nat, from..to \subseteq 1..Len(wal)
    PROVE  /\ \A e \in DeltaEvents(from, to) :
                /\ e.txn \in from..to /\ AcceptedTxn(e.txn)
                /\ ChangesKey(e.txn, e.index, e.key)
                /\ e.row = Leaves(wal[e.txn].changes[e.index], e.key)
           /\ \A i \in from..to : \A m, k : AcceptedTxn(i) /\ ChangesKey(i, m, k) =>
                \E e \in DeltaEvents(from, to) : e.key = k /\ e.txn = i /\ e.index = m
<1> DEFINE Of(i, n) == {[key |-> e.key, row |-> e.row, txn |-> i, index |-> n] :
                            e \in EventsOf(wal[i].changes[n], n)}
           events == UNION {UNION {Of(i, n) : n \in DOMAIN wal[i].changes} :
                                i \in Accepted(from, to)}
<1>1. DeltaEvents(from, to) = events
    BY DEF DeltaEvents
<1>2. \A i : i \in Accepted(from, to) <=> i \in from..to /\ AcceptedTxn(i)
    BY DEF Accepted, AcceptedTxn
<1>3. \A i \in from..to : \A n \in DOMAIN wal[i].changes : wal[i].changes[n] \in Changes
    BY WalTxns
<1> HIDE DEF Of
<1>4. ASSUME NEW e \in events
      PROVE  /\ e.txn \in from..to /\ AcceptedTxn(e.txn)
             /\ ChangesKey(e.txn, e.index, e.key)
             /\ e.row = Leaves(wal[e.txn].changes[e.index], e.key)
    <2>0. PICK i \in Accepted(from, to) : \E n \in DOMAIN wal[i].changes : e \in Of(i, n)
        OBVIOUS
    <2>1. PICK n \in DOMAIN wal[i].changes : e \in Of(i, n)
        BY <2>0
    <2>2. PICK f \in EventsOf(wal[i].changes[n], n) :
            e = [key |-> f.key, row |-> f.row, txn |-> i, index |-> n]
        BY <2>1 DEF Of
    <2>3. /\ Alters(wal[i].changes[n], f.key)
          /\ f.row = Leaves(wal[i].changes[n], f.key)
        BY <1>2, <1>3, <2>1, EventsOfAre
    <2>4. e.key = f.key /\ e.row = f.row /\ e.txn = i /\ e.index = n
        BY <2>2
    <2> HIDE DEF events
    <2> QED BY <1>2, <2>1, <2>3, <2>4 DEF ChangesKey
<1>5. ASSUME NEW i \in from..to, NEW m, NEW k, AcceptedTxn(i), ChangesKey(i, m, k)
      PROVE  \E e \in events : e.key = k /\ e.txn = i /\ e.index = m
    <2>1. m \in DOMAIN wal[i].changes /\ Alters(wal[i].changes[m], k)
        BY <1>5 DEF ChangesKey
    <2>2. PICK f \in EventsOf(wal[i].changes[m], m) : f.key = k
        BY <1>3, <2>1, EventsOfAre
    <2> DEFINE e == [key |-> f.key, row |-> f.row, txn |-> i, index |-> m]
    <2>3. e \in Of(i, m)
        BY DEF Of
    <2>4. e.key = k /\ e.txn = i /\ e.index = m
        BY <2>2
    <2>5. i \in Accepted(from, to)
        BY <1>2, <1>5
    <2> HIDE DEF e
    <2>6. e \in events
        BY <2>1, <2>3, <2>5
    <2> HIDE DEF events
    <2> QED BY <2>4, <2>6
<1> HIDE DEF events
<1> QED BY <1>1, <1>4, <1>5

(***************************************************************************)
(* The effective rows of an artifact are what its transactions, applied    *)
(* one after the other and change by change, leave of the rows they touch. *)
(***************************************************************************)
LEMMA EffectiveRowsAre ==
    ASSUME WalOK, NEW from \in Nat \ {0}, NEW to \in (from - 1)..Len(wal)
    PROVE  LET eff == EffectiveRows(DeltaEvents(from, to))
           IN  /\ DOMAIN eff \subseteq Keys
               /\ \A k \in DOMAIN eff : eff[k] \in Rows \cup {Absent} /\ eff[k] = Replica(to)[k]
               /\ \A k \in Keys \ DOMAIN eff : \A i \in from..to : ~TouchesKey(i, k)
<1> DEFINE events == DeltaEvents(from, to)
           eff == EffectiveRows(events)
<1>1. Len(wal) \in Nat /\ to \in Nat /\ from..to \subseteq 1..Len(wal)
    BY WalTxns
<1>2. /\ \A e \in events : /\ e.txn \in from..to /\ AcceptedTxn(e.txn)
                           /\ ChangesKey(e.txn, e.index, e.key)
                           /\ e.row = Leaves(wal[e.txn].changes[e.index], e.key)
      /\ \A i \in from..to : \A m, k : AcceptedTxn(i) /\ ChangesKey(i, m, k) =>
            \E e \in events : e.key = k /\ e.txn = i /\ e.index = m
    BY <1>1, DeltaEventsAre
<1>3. eff = [k \in {e.key : e \in events} |-> Latest(events, k).row]
    BY DEF EffectiveRows
<1> HIDE DEF events, eff
<1>4. \A i \in from..to : \A m, k : ChangesKey(i, m, k) =>
            /\ wal[i].changes[m] \in Changes /\ m \in Nat
            /\ k \in Keys
    <2>1. ASSUME NEW i \in from..to, NEW m, NEW k, ChangesKey(i, m, k)
          PROVE  wal[i].changes[m] \in Changes /\ m \in Nat /\ k \in Keys
        <3>1. wal[i].changes \in Seq(Changes) /\ m \in DOMAIN wal[i].changes
            BY <1>1, <2>1, WalTxns DEF ChangesKey
        <3>2. wal[i].changes[m] \in Changes /\ m \in Nat
            BY <3>1
        <3> QED BY <2>1, <3>2 DEF ChangesKey, Alters, Changes
    <2> QED BY <2>1
<1>5. ASSUME NEW k \in DOMAIN eff
      PROVE  k \in Keys /\ eff[k] \in Rows \cup {Absent} /\ eff[k] = Replica(to)[k]
    <2> DEFINE mine == {i \in from..to : TouchesKey(i, k)}
    <2>1. PICK e0 \in events : e0.key = k
        BY <1>3
    <2>2. k \in Keys /\ e0.txn \in mine
        <3>1. e0.index \in DOMAIN wal[e0.txn].changes
            BY <1>2 DEF ChangesKey
        <3> QED BY <1>2, <1>4, <2>1, <3>1 DEF TouchesKey
    <2>3. PICK i \in mine : \A j \in mine : j <= i
        <3>1. mine \subseteq from..to /\ mine # {} /\ from \in Int /\ to \in Int
            BY <1>1, <2>2
        <3> HIDE DEF mine
        <3> QED BY <3>1, LargestInRange
    <2>4. i \in from..to /\ TouchesKey(i, k) /\ AcceptedTxn(i)
        BY DEF TouchesKey
    <2> DEFINE touching == {m \in DOMAIN wal[i].changes : ChangesKey(i, m, k)}
    <2>5. PICK m \in touching : \A l \in touching : l <= m
        <3>1. DOMAIN wal[i].changes = 1..Len(wal[i].changes) /\ Len(wal[i].changes) \in Int
            BY <1>1, <2>4, WalTxns
        <3>2. touching \subseteq 1..Len(wal[i].changes) /\ touching # {}
            BY <2>4, <3>1 DEF TouchesKey
        <3> DEFINE L == Len(wal[i].changes)
        <3>3. L \in Int /\ 1 \in Int /\ touching \subseteq 1..L /\ touching # {}
            BY <3>1, <3>2
        <3> HIDE DEF touching, L
        <3> QED BY <3>3, LargestInRange
    <2>6. /\ ChangesKey(i, m, k) /\ m \in DOMAIN wal[i].changes /\ m \in Nat
          /\ \A l \in DOMAIN wal[i].changes : ChangesKey(i, l, k) => l <= m
        BY <1>4, <2>4, <2>5
    <2>7. \A f \in events : f.key = k =>
            /\ f.txn \in Nat /\ f.index \in Nat /\ f.txn <= i
            /\ f.txn = i => f.index <= m
        <3> SUFFICES ASSUME NEW f \in events, f.key = k
                     PROVE  /\ f.txn \in Nat /\ f.index \in Nat /\ f.txn <= i
                            /\ f.txn = i => f.index <= m
            OBVIOUS
        <3>1. /\ f.txn \in from..to /\ AcceptedTxn(f.txn) /\ ChangesKey(f.txn, f.index, k)
              /\ f.index \in Nat /\ f.index \in DOMAIN wal[f.txn].changes
            BY <1>2, <1>4 DEF ChangesKey
        <3>2. f.txn \in mine
            BY <3>1 DEF TouchesKey
        <3>3. f.txn \in Nat /\ f.txn <= i
            BY <1>1, <2>3, <3>1, <3>2
        <3> QED BY <2>6, <3>1, <3>3
    <2>8. i \in Nat
        BY <1>1, <2>4
    <2> HIDE DEF mine, touching
    <2>9. PICK e \in events : e.key = k /\ e.txn = i /\ e.index = m
        BY <1>2, <2>4, <2>6
    <2> DEFINE last == Latest(events, k)
    <2>10. /\ last \in events /\ last.key = k
           /\ \A f \in events : f.key = k => NotAfter(f, last)
        <3>1. \A f \in events : f.key = k => NotAfter(f, e)
            BY <2>6, <2>7, <2>8, <2>9 DEF NotAfter
        <3> QED BY <2>9, <3>1, Zenon DEF Latest
    <2> HIDE DEF last
    <2>11. last.txn = i /\ last.index = m
        <3>1. NotAfter(e, last)
            BY <2>9, <2>10
        <3> QED BY <2>6, <2>7, <2>8, <2>9, <2>10, <3>1 DEF NotAfter
    <2>12. eff[k] = Leaves(wal[i].changes[m], k)
        BY <1>2, <1>3, <2>10, <2>11 DEF last
    <2>13. Replica(i)[k] = Leaves(wal[i].changes[m], k)
        <3>1. i \in 1..Len(wal) /\ 0 \in Nat /\ 0 < i
            BY <1>1, <2>4
        <3> QED BY <2>2, <2>4, <2>6, <3>1, AccumulatedStep DEF Replica
    <2>14. Replica(to)[k] = Replica(i)[k]
        <3>1. i \in 0..Len(wal) /\ to \in i..Len(wal) /\ to \in i..to
            BY <1>1, <2>4
        <3>2. \A j \in (i + 1)..to : ~TouchesKey(j, k)
            <4>1. \A j \in (i + 1)..to : j \in from..to /\ ~(j <= i)
                BY <1>1, <2>4
            <4> QED BY <2>3, <4>1 DEF mine
        <3> QED BY <2>2, <3>1, <3>2, ReplicaRests
    <2>15. eff[k] \in Rows \cup {Absent}
        <3>1. wal[i].changes[m].row # Invalid /\ wal[i].changes[m] \in Changes
            BY <1>4, <2>4, <2>6 DEF AcceptedTxn, IsValid
        <3> QED BY <2>12, <3>1 DEF Leaves, RowAfter, Changes
    <2> QED BY <2>2, <2>12, <2>13, <2>14, <2>15
<1>6. ASSUME NEW k \in Keys, k \notin DOMAIN eff, NEW i \in from..to
      PROVE  ~TouchesKey(i, k)
    <2>1. ~\E e \in events : e.key = k
        BY <1>3, <1>6
    <2> QED BY <1>2, <2>1 DEF TouchesKey
<1> QED BY <1>5, <1>6 DEF eff, events
-----------------------------------------------------------------------------
(* What the server will never send again is what commits before this. *)
Position == Max2(checkpoint, slotFlush)

(* Transactions are in the WAL in commit order, before its end. *)
WalInOrder ==
    /\ Len(wal) < walEnd
    /\ \A i \in DOMAIN wal : CommitLsn(i) < walEnd
    /\ \A i, j \in DOMAIN wal : i < j => CommitLsn(i) < CommitLsn(j)

(* A run reads from the checkpoint and the slot on, both of them behind the *)
(* WAL's end; it touches them at its very end.                              *)
RunInOrder ==
    /\ checkpoint <= walEnd /\ slotFlush <= walEnd
    /\ saved \/ acked => phase = "applied"
    /\ phase # "idle" =>
        /\ first <= next /\ next <= Len(wal) + 1
        /\ start <= window /\ window <= walEnd
        /\ ~saved => start = checkpoint
        /\ \A i \in DOMAIN wal :
            /\ i < first => CommitLsn(i) < Position
            /\ i >= first => start <= CommitLsn(i)
            /\ i >= first /\ ~saved /\ ~acked => Position <= CommitLsn(i)

(* The last decoded LSN is the end of a transaction the run has read. *)
Decoded ==
    phase # "idle" =>
        \/ lastDecoded = NoLsn
        \/ \E i \in first..(next - 1) : lastDecoded = EndLsn(i)

(* The apply writes rows of the artifact. *)
WritesItsRows == phase = "classified" => toWrite \subseteq UpsertKeys(Artifact)

IInv ==
    /\ TypeOK
    /\ HashStateSound
    /\ WalInOrder
    /\ RunInOrder
    /\ Decoded
    /\ WritesItsRows
-----------------------------------------------------------------------------
(* The numbers of a state. *)
LEMMA Numbers ==
    ASSUME TypeOK
    PROVE  /\ WalOK /\ Len(wal) \in Nat /\ DOMAIN wal = 1..Len(wal)
           /\ MaxLsn \in Nat /\ walEnd \in Nat /\ slotFlush \in Nat /\ checkpoint \in Nat
           /\ first \in Nat \ {0} /\ next \in Nat \ {0}
           /\ start \in Nat /\ window \in Nat /\ lastDecoded \in Nat
           /\ Position \in Nat /\ checkpoint <= Position /\ slotFlush <= Position
           /\ Position \in {checkpoint, slotFlush}
           /\ \A i \in DOMAIN wal : /\ i \in Nat \ {0} /\ CommitLsn(i) \in Nat \ {0}
                                    /\ EndLsn(i) = CommitLsn(i) + 1
<1>1. WalOK
    BY DEF TypeOK, WalOK
<1>2. /\ MaxLsn \in Nat /\ walEnd \in Nat /\ slotFlush \in Nat /\ checkpoint \in Nat
      /\ first \in Nat \ {0} /\ next \in Nat \ {0}
      /\ start \in Nat /\ window \in Nat /\ lastDecoded \in Nat
    BY BoundsAssumption DEF TypeOK
<1>3. Len(wal) \in Nat /\ DOMAIN wal = 1..Len(wal)
    BY <1>1, WalTxns
<1>4. \A i \in DOMAIN wal : CommitLsn(i) \in Nat \ {0} /\ EndLsn(i) = CommitLsn(i) + 1
    <2>1. \A i \in DOMAIN wal : wal[i].commit \in 1..MaxLsn
        BY <1>1, <1>3, WalTxns
    <2> QED BY <1>2, <2>1 DEF CommitLsn, EndLsn
<1>5. \A i \in DOMAIN wal : i \in Nat \ {0}
    BY <1>3
<1> QED BY <1>1, <1>2, <1>3, <1>4, <1>5 DEF Position, Max2

(* The numbers of the WAL, of one state and of the next. *)
WalNumbers ==
    /\ WalOK /\ Len(wal) \in Nat /\ DOMAIN wal = 1..Len(wal)
    /\ \A i \in DOMAIN wal : i \in Nat \ {0} /\ CommitLsn(i) \in Nat \ {0}

(* They are numbers in a well-typed state, *)
LEMMA WalNumbersNow == TypeOK => WalNumbers
BY Numbers DEF WalNumbers

(* and in the next one. *)
LEMMA WalNumbersThen == TypeOK' => WalNumbers'
BY WalNumbersNow, PTL

(* Released counts the transactions that commit before the position. *)
LEMMA ReleasedIs ==
    ASSUME TypeOK, WalInOrder
    PROVE  /\ Released \in 0..Len(wal)
           /\ \A i \in DOMAIN wal : i <= Released <=> CommitLsn(i) < Position
<1> DEFINE P(n) == \A i \in DOMAIN wal : i <= n <=> CommitLsn(i) < Position
           below == {i \in DOMAIN wal : CommitLsn(i) < Position}
<1>1. \E n \in 0..Len(wal) : P(n)
    <2>1. CASE below = {}
        <3>1. P(0) /\ 0 \in 0..Len(wal)
            BY <2>1, Numbers
        <3> QED BY <3>1
    <2>2. CASE below # {}
        <3>1. PICK n \in below : \A i \in below : i <= n
            <4>1. below \subseteq 1..Len(wal) /\ 1 \in Int /\ Len(wal) \in Int
                BY Numbers
            <4> HIDE DEF below
            <4> QED BY <2>2, <4>1, LargestInRange
        <3>2. ASSUME NEW i \in DOMAIN wal
              PROVE  i <= n <=> CommitLsn(i) < Position
            <4>1. /\ n \in DOMAIN wal /\ CommitLsn(n) < Position
                  /\ i \in Nat /\ n \in Nat
                  /\ CommitLsn(i) \in Nat /\ CommitLsn(n) \in Nat /\ Position \in Nat
                BY Numbers
            <4>2. i < n => CommitLsn(i) < CommitLsn(n)
                BY <4>1 DEF WalInOrder
            <4>3. CommitLsn(i) < Position => i <= n
                BY <3>1
            <4> QED BY <4>1, <4>2, <4>3
        <3>3. n \in 0..Len(wal)
            BY Numbers
        <3> QED BY <3>2, <3>3
    <2> QED BY <2>1, <2>2
<1>2. Released = CHOOSE n \in 0..Len(wal) : P(n)
    BY DEF Released, Position
<1> HIDE DEF P
<1>3. Released \in 0..Len(wal) /\ P(Released)
    BY <1>1, <1>2, Zenon
<1> QED BY <1>3 DEF P
-----------------------------------------------------------------------------
(* The WAL is as it was, or longer. *)
WalKept ==
    /\ Len(wal) <= Len(wal)'
    /\ \A i \in DOMAIN wal : i \in DOMAIN wal' /\ wal'[i] = wal[i]

(* What the source does: the run does not see it. *)
SourceGrows ==
    /\ WalKept
    /\ walEnd' \in Nat /\ walEnd <= walEnd'
    /\ \A i \in DOMAIN wal' \ DOMAIN wal : walEnd <= CommitLsn(i)'
    /\ UNCHANGED <<targetVars, slotFlush, checkpoint, phase, runVars, limits>>

(* The steps of the source keep the WAL in order. *)
LEMMA SourceStep ==
    ASSUME TypeOK, WalInOrder, Source
    PROVE  TypeOK' /\ WalInOrder' /\ SourceGrows
<1>1. CASE SourceCommit
    <2>1. PICK changes \in Menu : wal' = Append(wal, [commit |-> walEnd, changes |-> changes])
        BY <1>1 DEF SourceCommit
    <2> DEFINE txn == [commit |-> walEnd, changes |-> changes]
    <2>2. /\ walEnd < MaxLsn /\ walEnd' = walEnd + 1
          /\ UNCHANGED <<targetVars, slotFlush, checkpoint, phase, runVars, limits>>
        BY <1>1 DEF SourceCommit
    <2>3. walEnd \in 1..MaxLsn /\ walEnd' \in 1..MaxLsn
        BY <2>2, BoundsAssumption DEF TypeOK
    <2>4. txn \in Transactions /\ txn.commit = walEnd
        BY <2>3 DEF Transactions
    <2> HIDE DEF txn
    <2>5. /\ wal' \in Seq(Transactions)
          /\ Len(wal') = Len(wal) + 1 /\ wal'[Len(wal) + 1] = txn
          /\ DOMAIN wal' = 1..(Len(wal) + 1)
          /\ \A i \in DOMAIN wal : i \in DOMAIN wal' /\ wal'[i] = wal[i]
        BY <2>1, <2>4 DEF TypeOK, txn
    <2>6. TypeOK'
        BY <2>2, <2>3, <2>5 DEF TypeOK, TargetTypeOK, targetVars, runVars, limits
    <2>7. \A i \in DOMAIN wal' : i \in DOMAIN wal \/ i = Len(wal) + 1
        BY <2>5, Numbers
    <2>8. /\ \A i \in DOMAIN wal : CommitLsn(i)' = CommitLsn(i)
          /\ \A i \in DOMAIN wal' : i \notin DOMAIN wal => CommitLsn(i)' = walEnd
        BY <2>4, <2>5, <2>7 DEF CommitLsn
    <2>9. WalInOrder'
        <3>1. Len(wal)' < walEnd'
            BY <2>2, <2>5, Numbers DEF WalInOrder
        <3>2. \A i \in DOMAIN wal' : CommitLsn(i)' < walEnd'
            <4>1. \A i \in DOMAIN wal : CommitLsn(i) < walEnd /\ CommitLsn(i) \in Nat
                BY Numbers DEF WalInOrder
            <4> QED BY <2>2, <2>8, <4>1, Numbers
        <3>3. ASSUME NEW i \in DOMAIN wal', NEW j \in DOMAIN wal', i < j
              PROVE  CommitLsn(i)' < CommitLsn(j)'
            <4>1. i \in DOMAIN wal
                BY <2>5, <2>7, <3>3, Numbers
            <4>2. CASE j \in DOMAIN wal
                BY <2>8, <3>3, <4>1, <4>2 DEF WalInOrder
            <4>3. CASE j \notin DOMAIN wal
                BY <2>8, <4>1, <4>3 DEF WalInOrder
            <4> QED BY <4>2, <4>3
        <3> QED BY <3>1, <3>2, <3>3 DEF WalInOrder
    <2>10. SourceGrows
        <3>1. walEnd' \in Nat /\ walEnd <= walEnd' /\ Len(wal) <= Len(wal')
            BY <2>2, <2>5, Numbers
        <3>2. \A i \in DOMAIN wal' \ DOMAIN wal : walEnd <= CommitLsn(i)'
            BY <2>8, Numbers
        <3> QED BY <2>2, <2>5, <3>1, <3>2 DEF SourceGrows, WalKept
    <2> QED BY <2>6, <2>9, <2>10
<1>2. CASE OtherWal
    <2>1. /\ walEnd < MaxLsn /\ walEnd' = walEnd + 1
          /\ UNCHANGED <<targetVars, wal, slotFlush, checkpoint, phase, runVars, limits>>
        BY <1>2 DEF OtherWal
    <2>2. TypeOK'
        BY <2>1, BoundsAssumption DEF TypeOK, TargetTypeOK, targetVars, runVars, limits
    <2>3. WalInOrder'
        <3>1. \A i \in DOMAIN wal : CommitLsn(i)' = CommitLsn(i)
            BY <2>1 DEF CommitLsn
        <3>2. \A i \in DOMAIN wal : CommitLsn(i) < walEnd'
            BY <2>1, Numbers DEF WalInOrder
        <3> QED BY <2>1, <3>1, <3>2, Numbers DEF WalInOrder
    <2>4. SourceGrows
        BY <2>1, Numbers DEF SourceGrows, WalKept
    <2> QED BY <2>2, <2>3, <2>4
<1> QED BY <1>1, <1>2 DEF Source

(* AccumulatedGoesOn, of one state. *)
AccumulatedRuns ==
    \A m \in Nat :
        /\ Accumulated(m, 0) = EmptyTable
        /\ \A n \in 1..Len(wal) : Accumulated(m, n) = Step(m, n, Accumulated(m, n - 1))

(* The source tables follow each other, in this state. *)
LEMMA AccumulatedRunsNow == WalOK => AccumulatedRuns
BY AccumulatedGoesOn DEF AccumulatedRuns

(* The same, of the next one. *)
LEMMA AccumulatedRunsThen == WalOK' => AccumulatedRuns'
BY AccumulatedRunsNow, PTL

(* What there was after n transactions it will always have been. *)
LEMMA AccumulatedStays ==
    ASSUME WalOK, WalOK', WalKept, NEW m \in Nat
    PROVE  \A n \in 0..Len(wal) : Accumulated(m, n)' = Accumulated(m, n)
<1> DEFINE T == {n \in Nat : n <= Len(wal) => Accumulated(m, n)' = Accumulated(m, n)}
<1>1. /\ AccumulatedRuns /\ AccumulatedRuns'
      /\ Len(wal) \in Nat /\ DOMAIN wal = 1..Len(wal)
    BY AccumulatedRunsNow, AccumulatedRunsThen, WalTxns
<1>2. 0 \in T
    BY <1>1 DEF AccumulatedRuns, EmptyTable
<1>3. ASSUME NEW n \in Nat, n \in T
      PROVE  n + 1 \in T
    <2> SUFFICES ASSUME n + 1 <= Len(wal) PROVE Accumulated(m, n + 1)' = Accumulated(m, n + 1)
        OBVIOUS
    <2>1. /\ n + 1 \in 1..Len(wal) /\ n + 1 \in 1..Len(wal') /\ (n + 1) - 1 = n
          /\ n <= Len(wal) /\ wal'[n + 1] = wal[n + 1]
        BY <1>1 DEF WalKept
    <2>2. Accumulated(m, n)' = Accumulated(m, n)
        BY <1>3, <2>1
    <2>3. Accumulated(m, n + 1) = Step(m, n + 1, Accumulated(m, n))
        BY <1>1, <2>1 DEF AccumulatedRuns
    <2>4. Accumulated(m, n + 1)' = Step(m, n + 1, Accumulated(m, n))'
        BY <1>1, <2>1 DEF AccumulatedRuns
    <2> QED BY <2>1, <2>2, <2>3, <2>4 DEF Step
<1> HIDE DEF T
<1>4. \A n \in Nat : n \in T
    BY <1>2, <1>3, NatSetInduction
<1> QED BY <1>1, <1>4 DEF T

(* What the replica was it will always have been. *)
LEMMA ReplicaStays ==
    ASSUME WalOK, WalOK', WalKept
    PROVE  \A n \in 0..Len(wal) : Replica(n)' = Replica(n)
BY AccumulatedStays DEF Replica

(* The events of transactions already in the WAL stay the same. *)
LEMMA EventsStay ==
    ASSUME WalKept, NEW from, NEW to, from..to \subseteq DOMAIN wal
    PROVE  DeltaEvents(from, to)' = DeltaEvents(from, to)
<1>1. \A i \in from..to : wal'[i] = wal[i]
    BY DEF WalKept
<1>2. Accepted(from, to)' = Accepted(from, to)
    BY <1>1 DEF Accepted, HasChanges
<1> DEFINE Of(txn, i) == UNION {{[key |-> e.key, row |-> e.row, txn |-> i, index |-> n] :
                                    e \in EventsOf(txn.changes[n], n)} : n \in DOMAIN txn.changes}
<1>3. /\ DeltaEvents(from, to) = UNION {Of(wal[i], i) : i \in Accepted(from, to)}
      /\ DeltaEvents(from, to)' = UNION {Of(wal'[i], i) : i \in Accepted(from, to)'}
    BY DEF DeltaEvents
<1>4. \A i \in Accepted(from, to) : i \in from..to
    BY DEF Accepted
<1> HIDE DEF Of
<1> QED BY <1>1, <1>2, <1>3, <1>4

(* The artifact of a run that has stopped reading stays the same. *)
LEMMA ArtifactStays ==
    ASSUME TypeOK, next <= Len(wal) + 1, WalKept, UNCHANGED <<first, next>>
    PROVE  Artifact' = Artifact
<1>1. first..(next - 1) \subseteq DOMAIN wal
    BY Numbers
<1>2. DeltaEvents(first, next - 1)' = DeltaEvents(first, next - 1)
    BY <1>1, EventsStay DEF DeltaEvents
<1> QED BY <1>2 DEF Artifact, EffectiveRows
-----------------------------------------------------------------------------
(***************************************************************************)
(* The resolved LSN, whichever of its sources it is taken from: not before *)
(* the start of the run, after every accepted transaction it has read, and *)
(* not after one it has not, if the window's end is not.                   *)
(***************************************************************************)
LEMMA ResolvedIs ==
    ASSUME IInv, phase # "idle"
    PROVE  /\ Resolved \in Nat /\ start <= Resolved /\ Resolved <= walEnd
           /\ \A i \in Accepted(first, next - 1) : CommitLsn(i) < Resolved
           /\ \A i \in DOMAIN wal : i >= next /\ (reached => window <= CommitLsn(i)) =>
                Resolved <= CommitLsn(i)
<1> DEFINE txns == Accepted(first, next - 1)
           Right(lsn) ==
                /\ lsn \in Nat /\ start <= lsn /\ lsn <= walEnd
                /\ \A i \in DOMAIN wal : i >= next /\ (reached => window <= CommitLsn(i)) =>
                        lsn <= CommitLsn(i)
<1>1. /\ TypeOK /\ first <= next /\ next <= Len(wal) + 1
      /\ start <= window /\ window <= walEnd
      /\ \A i \in DOMAIN wal : i >= first => start <= CommitLsn(i)
      /\ \A i, j \in DOMAIN wal : i < j => CommitLsn(i) < CommitLsn(j)
      /\ \A i \in DOMAIN wal : CommitLsn(i) < walEnd
    BY DEF IInv, RunInOrder, WalInOrder
<1>2. \A i \in first..(next - 1) : i \in DOMAIN wal /\ i >= first /\ i < next
    BY <1>1, Numbers
<1>3. ASSUME NEW i \in first..(next - 1)
      PROVE  Right(EndLsn(i)) /\ CommitLsn(i) < EndLsn(i) /\ EndLsn(i) # NoLsn
    <2>1. /\ i \in DOMAIN wal /\ i >= first /\ i < next /\ i \in Nat
          /\ CommitLsn(i) \in Nat /\ EndLsn(i) = CommitLsn(i) + 1
          /\ walEnd \in Nat /\ start \in Nat /\ next \in Nat
        BY <1>1, <1>2, Numbers
    <2>2. EndLsn(i) \in Nat /\ start <= EndLsn(i) /\ EndLsn(i) <= walEnd
        BY <1>1, <2>1
    <2>3. ASSUME NEW j \in DOMAIN wal, j >= next
          PROVE  EndLsn(i) <= CommitLsn(j)
        <3>1. j \in Nat /\ CommitLsn(j) \in Nat
            BY <1>1, Numbers
        <3>2. i < j
            BY <2>1, <2>3, <3>1
        <3> QED BY <1>1, <2>1, <3>1, <3>2
    <2> QED BY <2>1, <2>2, <2>3 DEF NoLsn
<1>4. (reached => Right(window)) /\ Right(start)
    <2>1. Right(start)
        <3>1. \A i \in DOMAIN wal : i >= next => i >= first
            BY <1>1, Numbers
        <3> QED BY <1>1, <3>1, Numbers
    <2>2. reached => Right(window)
        BY <1>1, Numbers
    <2> QED BY <2>1, <2>2
<1>5. /\ txns \subseteq first..(next - 1)
      /\ LastApplied = IF txns = {} THEN NoLsn
                       ELSE EndLsn(CHOOSE i \in txns : \A j \in txns : j <= i)
    BY DEF Accepted, LastApplied
<1>6. /\ LastApplied # NoLsn => Resolved = LastApplied
      /\ LastApplied = NoLsn /\ lastDecoded # NoLsn => Resolved = lastDecoded
      /\ LastApplied = NoLsn /\ lastDecoded = NoLsn /\ reached => Resolved = window
      /\ LastApplied = NoLsn /\ lastDecoded = NoLsn /\ ~reached => Resolved = start
    BY DEF Resolved
<1>7. CASE txns = {}
    <2>1. LastApplied = NoLsn
        BY <1>5, <1>7
    <2>2. lastDecoded # NoLsn => Right(lastDecoded)
        <3> SUFFICES ASSUME lastDecoded # NoLsn PROVE Right(lastDecoded)
            OBVIOUS
        <3>1. PICK i \in first..(next - 1) : lastDecoded = EndLsn(i)
            BY DEF IInv, Decoded
        <3> HIDE DEF Right
        <3> QED BY <1>3, <3>1
    <2> HIDE DEF txns
    <2>3. Right(Resolved)
        <3> HIDE DEF Right
        <3> QED BY <1>4, <1>6, <2>1, <2>2
    <2> QED BY <1>7, <2>3 DEF txns
<1>8. CASE txns # {}
    <2>1. PICK n \in txns : \A j \in txns : j <= n
        <3>1. txns \subseteq first..(next - 1) /\ first \in Int /\ next - 1 \in Int
            BY <1>1, <1>5, Numbers
        <3> HIDE DEF txns
        <3> QED BY <1>8, <3>1, LargestInRange
    <2> DEFINE m == CHOOSE i \in txns : \A j \in txns : j <= i
    <2> HIDE DEF txns
    <2>2. m \in txns /\ \A j \in txns : j <= m
        <3> HIDE DEF m
        <3> QED BY <2>1, Zenon DEF m
    <2>3. LastApplied = EndLsn(m)
        BY <1>5, <1>8
    <2> HIDE DEF m, Right
    <2>4. m \in first..(next - 1)
        BY <1>5, <2>2
    <2>5. Resolved = EndLsn(m) /\ Right(Resolved)
        BY <1>3, <1>6, <2>3, <2>4
    <2>6. ASSUME NEW i \in txns
          PROVE  CommitLsn(i) < Resolved
        <3>0. i \in DOMAIN wal /\ m \in DOMAIN wal /\ i <= m
            BY <1>2, <1>5, <2>2, <2>4
        <3>1. /\ i \in Nat /\ m \in Nat
              /\ CommitLsn(i) \in Nat /\ CommitLsn(m) \in Nat /\ EndLsn(m) = CommitLsn(m) + 1
            BY <1>1, <3>0, Numbers
        <3>2. i < m => CommitLsn(i) < CommitLsn(m)
            BY <1>1, <3>0, <3>1
        <3> QED BY <2>5, <3>0, <3>1, <3>2
    <2> QED BY <2>5, <2>6 DEF Right, txns
<1> QED BY <1>7, <1>8
-----------------------------------------------------------------------------
(* The artifact of a run: what the transactions it has read make of the    *)
(* rows they touch.                                                        *)
LEMMA ArtifactIs ==
    ASSUME IInv, phase # "idle"
    PROVE  /\ DOMAIN Artifact \subseteq Keys
           /\ \A k \in DOMAIN Artifact : /\ Artifact[k] \in Rows \cup {Absent}
                                         /\ Artifact[k] = Replica(next - 1)[k]
           /\ \A k \in Keys \ DOMAIN Artifact : \A n \in (first - 1)..(next - 1) :
                Replica(n)[k] = Replica(next - 1)[k]
<1> DEFINE to == next - 1
<1>1. /\ WalOK /\ first \in Nat \ {0} /\ to \in (first - 1)..Len(wal)
      /\ first - 1 \in 0..Len(wal) /\ (first - 1) + 1 = first /\ to \in (first - 1)..to
    BY Numbers DEF IInv, RunInOrder
<1>2. Artifact = EffectiveRows(DeltaEvents(first, to))
    BY DEF Artifact
<1> HIDE DEF to
<1>3. /\ DOMAIN Artifact \subseteq Keys
      /\ \A k \in DOMAIN Artifact : Artifact[k] \in Rows \cup {Absent} /\ Artifact[k] = Replica(to)[k]
      /\ \A k \in Keys \ DOMAIN Artifact : \A i \in first..to : ~TouchesKey(i, k)
    BY <1>1, <1>2, EffectiveRowsAre
<1>4. ASSUME NEW k \in Keys \ DOMAIN Artifact, NEW n \in (first - 1)..to
      PROVE  Replica(n)[k] = Replica(to)[k]
    <2>1. \A i \in ((first - 1) + 1)..to : ~TouchesKey(i, k)
        BY <1>1, <1>3
    <2>2. \A m \in (first - 1)..to : Replica(m)[k] = Replica(first - 1)[k]
        BY <1>1, <2>1, ReplicaRests
    <2> QED BY <1>1, <2>2
<1> QED BY <1>3, <1>4 DEF to

(* The keys the apply writes are keys whose rows the artifact has. *)
LEMMA ToWriteIs ==
    ASSUME IInv, phase # "idle"
    PROVE  ChangedKeys(Artifact) \subseteq UpsertKeys(Artifact) /\ UpsertKeys(Artifact) \subseteq Keys
BY ArtifactIs DEF ChangedKeys, UpsertKeys
-----------------------------------------------------------------------------
(* Nothing has happened yet. *)
LEMMA InitIInv == Init => IInv
<1> SUFFICES ASSUME Init PROVE IInv
    OBVIOUS
<1>1. TypeOK
    <2>1. wal \in Seq(Transactions) /\ TargetTypeOK
        BY TargetInitSound DEF Init
    <2>2. /\ walEnd = 1 /\ slotFlush = 1 /\ checkpoint = 0
          /\ start = 0 /\ window = 0 /\ lastDecoded = 0 /\ first = 1 /\ next = 1
          /\ crashes = 0 /\ timeouts = 0
          /\ phase = "idle" /\ toWrite = {} /\ ~reached /\ ~saved /\ ~acked
          /\ reached \in BOOLEAN /\ saved \in BOOLEAN /\ acked \in BOOLEAN
        BY DEF Init, NoRun, NoLsn
    <2>3. /\ 1 \in 1..MaxLsn /\ 0 \in 0..MaxLsn
          /\ 0 \in 0..MaxCrashes /\ 0 \in 0..MaxTimeouts
        BY BoundsAssumption
    <2> QED BY <2>1, <2>2, <2>3 DEF TypeOK, Phases
<1>2. WalInOrder /\ RunInOrder /\ Decoded /\ WritesItsRows
    <2>1. wal = <<>> /\ walEnd = 1 /\ slotFlush = 1 /\ NoRun
        BY DEF Init
    <2>2. DOMAIN wal = {} /\ Len(wal) = 0
        BY <2>1
    <2> QED BY <2>1, <2>2 DEF NoRun, NoLsn, WalInOrder, RunInOrder, Decoded, WritesItsRows
<1> QED BY <1>1, <1>2, TargetInitSound DEF Init, IInv

(* The source leaves the run as it is. *)
LEMMA SourceKeeps ==
    ASSUME IInv, Source
    PROVE  IInv'
<1>1. TypeOK /\ WalInOrder /\ TypeOK' /\ WalInOrder' /\ SourceGrows /\ WalKept
    BY SourceStep DEF IInv, SourceGrows
<1> DEFINE len == Len(wal)'
<1>0. /\ len \in Nat /\ Len(wal) \in Nat /\ Len(wal) <= len
      /\ DOMAIN wal' = 1..len /\ DOMAIN wal = 1..Len(wal)
      /\ \A i \in DOMAIN wal' : i \in Nat /\ CommitLsn(i)' \in Nat
    BY <1>1, WalNumbersNow, WalNumbersThen DEF WalNumbers, WalKept
<1>2. /\ UNCHANGED <<curated, hashState, slotFlush, checkpoint, phase, start, window, first,
                     next, lastDecoded, reached, toWrite, saved, acked>>
      /\ walEnd <= walEnd' /\ walEnd \in Nat /\ walEnd' \in Nat
      /\ \A i \in DOMAIN wal' \ DOMAIN wal : walEnd <= CommitLsn(i)'
    BY <1>1, Numbers DEF SourceGrows, targetVars, runVars
<1>3. HashStateSound'
    BY <1>2 DEF IInv, HashStateSound
<1>4. \A i \in DOMAIN wal : CommitLsn(i)' = CommitLsn(i) /\ EndLsn(i)' = EndLsn(i)
    BY <1>1 DEF WalKept, CommitLsn, EndLsn
<1>5. Position' = Position /\ Position <= walEnd
    BY <1>1, <1>2, Numbers DEF Position, Max2, IInv, RunInOrder
<1>6. RunInOrder'
    <2>1. checkpoint <= walEnd' /\ slotFlush <= walEnd'
        BY <1>1, <1>2, Numbers DEF IInv, RunInOrder
    <2>2. ASSUME phase # "idle"
          PROVE  /\ first <= next /\ next <= Len(wal)' + 1
                 /\ start <= window /\ window <= walEnd'
                 /\ ~saved => start = checkpoint
        <3>1. /\ first <= next /\ next <= Len(wal) + 1
              /\ start <= window /\ window <= walEnd
              /\ ~saved => start = checkpoint
            BY <2>2 DEF IInv, RunInOrder
        <3> HIDE DEF len
        <3>2. next <= len + 1
            BY <1>0, <1>1, <3>1, Numbers
        <3> QED BY <1>1, <1>2, <3>1, <3>2, Numbers DEF len
    <2>3. ASSUME phase # "idle", NEW i \in DOMAIN wal'
          PROVE  /\ i < first => CommitLsn(i)' < Position
                 /\ i >= first => start <= CommitLsn(i)'
                 /\ i >= first /\ ~saved /\ ~acked => Position <= CommitLsn(i)'
        <3>1. CASE i \in DOMAIN wal
            BY <1>4, <2>3, <3>1 DEF IInv, RunInOrder
        <3>2. CASE i \notin DOMAIN wal
            <4>1. CommitLsn(i)' \in Nat
                BY <1>0
            <4>2. i >= first
                <5> HIDE DEF len
                <5>1. i \in Nat /\ i > Len(wal)
                    BY <1>0, <3>2
                <5>2. first <= Len(wal) + 1
                    BY <1>1, <2>3, Numbers DEF IInv, RunInOrder
                <5> QED BY <1>0, <1>1, <5>1, <5>2, Numbers
            <4>3. walEnd <= CommitLsn(i)' /\ start <= walEnd
                BY <1>1, <1>2, <2>3, <3>2, Numbers DEF IInv, RunInOrder
            <4> QED BY <1>1, <1>5, <4>1, <4>2, <4>3, Numbers
        <3> QED BY <3>1, <3>2
    <2>4. saved \/ acked => phase = "applied"
        BY DEF IInv, RunInOrder
    <2> QED BY <1>2, <1>5, <2>1, <2>2, <2>3, <2>4 DEF RunInOrder
<1>7. Decoded'
    <2>1. ASSUME phase # "idle"
          PROVE  \A i \in first..(next - 1) : i \in DOMAIN wal
        BY <1>1, <2>1, Numbers DEF IInv, RunInOrder
    <2> QED BY <1>2, <1>4, <2>1 DEF IInv, Decoded
<1>8. WritesItsRows'
    <2>1. phase # "idle" => Artifact' = Artifact
        <3> SUFFICES ASSUME phase # "idle" PROVE Artifact' = Artifact
            OBVIOUS
        <3>1. next <= Len(wal) + 1
            BY DEF IInv, RunInOrder
        <3> QED BY <1>1, <1>2, <3>1, ArtifactStays
    <2> QED BY <1>2, <2>1 DEF IInv, WritesItsRows, UpsertKeys
<1> QED BY <1>1, <1>3, <1>6, <1>7, <1>8 DEF IInv

(* A run starts at the first transaction the server will send again. *)
LEMMA StartKeeps ==
    ASSUME IInv, StartExtract
    PROVE  IInv'
<1>1. /\ TypeOK /\ WalInOrder /\ RunInOrder /\ HashStateSound
      /\ phase = "idle" /\ phase' = "reading"
      /\ start' = checkpoint /\ window' = walEnd
      /\ first' = Released + 1 /\ next' = Released + 1
      /\ lastDecoded' = NoLsn /\ reached' = FALSE /\ saved' = FALSE /\ acked' = FALSE
      /\ UNCHANGED <<curated, hashState, wal, walEnd, slotFlush, checkpoint, toWrite,
                     crashes, timeouts>>
    BY DEF IInv, StartExtract, targetVars, sourceVars, limits
<1>2. /\ Released \in 0..Len(wal)
      /\ \A i \in DOMAIN wal : i <= Released <=> CommitLsn(i) < Position
    BY <1>1, ReleasedIs
<1>3. /\ first' \in Nat \ {0} /\ first' <= Len(wal) + 1 /\ first' <= walEnd
      /\ \A i \in DOMAIN wal : i < first' <=> CommitLsn(i) < Position
    <2> DEFINE r == Released
    <2>1. r \in 0..Len(wal) /\ \A i \in DOMAIN wal : i <= r <=> CommitLsn(i) < Position
        BY <1>2
    <2>2. first' = r + 1
        BY <1>1
    <2> HIDE DEF r
    <2>3. Len(wal) < walEnd /\ Len(wal) \in Nat /\ walEnd \in Nat
        BY <1>1, Numbers DEF WalInOrder
    <2>4. r \in Nat /\ r <= Len(wal)
        BY <2>1, <2>3
    <2>5. \A i \in DOMAIN wal : i \in Nat
        BY <1>1, Numbers
    <2>6. \A i \in DOMAIN wal : i < r + 1 <=> i <= r
        BY <2>4, <2>5
    <2> QED BY <2>1, <2>2, <2>3, <2>4, <2>6
<1>4. TypeOK' /\ HashStateSound'
    <2>1. walEnd \in 1..MaxLsn /\ checkpoint \in 0..MaxLsn
        BY <1>1 DEF TypeOK
    <2>2. first' \in 1..MaxLsn /\ next' \in 1..MaxLsn /\ window' \in 0..MaxLsn
        BY <1>1, <1>3, <2>1, Numbers
    <2>3. lastDecoded' \in 0..MaxLsn
        BY <1>1, Numbers DEF NoLsn
    <2> QED BY <1>1, <2>1, <2>2, <2>3 DEF TypeOK, TargetTypeOK, HashStateSound, Phases
<1>5. WalInOrder'
    BY <1>1 DEF WalInOrder, CommitLsn
<1>6. RunInOrder'
    <2>1. Position' = Position /\ \A i \in DOMAIN wal : CommitLsn(i)' = CommitLsn(i)
        BY <1>1 DEF Position, Max2, CommitLsn
    <2>2. checkpoint <= walEnd /\ slotFlush <= walEnd
        BY <1>1 DEF RunInOrder
    <2>3. ASSUME NEW i \in DOMAIN wal
          PROVE  /\ i < first' => CommitLsn(i) < Position
                 /\ i >= first' => Position <= CommitLsn(i) /\ checkpoint <= CommitLsn(i)
        <3>1. i \in Nat /\ CommitLsn(i) \in Nat /\ Position \in Nat /\ checkpoint <= Position
              /\ checkpoint \in Nat
            BY <1>1, Numbers
        <3> QED BY <1>3, <3>1
    <2>4. \A i \in DOMAIN wal' : /\ i < first' => CommitLsn(i)' < Position'
                                 /\ i >= first' => start' <= CommitLsn(i)' /\ Position' <= CommitLsn(i)'
        BY <1>1, <2>1, <2>3
    <2>5. first' <= next' /\ next' <= Len(wal)' + 1
        BY <1>1, <1>3
    <2>6. checkpoint' <= walEnd' /\ slotFlush' <= walEnd' /\ start' <= window' /\ window' <= walEnd'
        BY <1>1, <2>2, Numbers
    <2>7. ~saved' /\ ~acked' /\ start' = checkpoint'
        BY <1>1
    <2> QED BY <2>4, <2>5, <2>6, <2>7 DEF RunInOrder
<1> QED BY <1>1, <1>4, <1>5, <1>6 DEF IInv, Decoded, WritesItsRows

(* What the read loop may do in one step. *)
ReadStep ==
    /\ phase = "reading" /\ phase' \in {"reading", "read"}
    /\ \/ UNCHANGED <<next, lastDecoded>>
       \/ /\ next <= Len(wal) /\ next' = next + 1
          /\ lastDecoded' = IF HasChanges(next) THEN EndLsn(next) ELSE lastDecoded
    /\ reached' \in BOOLEAN /\ timeouts' \in 0..MaxTimeouts
    /\ UNCHANGED <<targetVars, sourceVars, slotFlush, checkpoint, start, window, first,
                   toWrite, saved, acked, crashes>>

(* Each of its four outcomes does that. *)
LEMMA ReadSteps ==
    ASSUME TypeOK, ReadCommit \/ ReadCommitTooLate \/ ReadNothing \/ ReadTimeout
    PROVE  ReadStep
<1>1. CASE ReadCommit
    <2>1. reached' \in BOOLEAN
        BY <1>1 DEF ReadCommit
    <2>2. timeouts' \in 0..MaxTimeouts
        BY <1>1 DEF ReadCommit, limits, TypeOK
    <2> QED BY <1>1, <2>1, <2>2 DEF ReadCommit, ReadStep, StopReading, KeepReading, limits
<1>2. CASE ReadCommitTooLate
    <2>1. reached' \in BOOLEAN
        BY <1>2 DEF ReadCommitTooLate
    <2>2. timeouts' \in 0..MaxTimeouts
        BY <1>2, BoundsAssumption DEF ReadCommitTooLate, TypeOK
    <2> QED BY <1>2, <2>1, <2>2 DEF ReadCommitTooLate, ReadStep, StopReading
<1>3. CASE ReadNothing
    <2>1. reached' \in BOOLEAN
        BY <1>3 DEF ReadNothing
    <2>2. timeouts' \in 0..MaxTimeouts
        BY <1>3 DEF ReadNothing, limits, TypeOK
    <2> QED BY <1>3, <2>1, <2>2 DEF ReadNothing, ReadStep, StopReading, limits
<1>4. CASE ReadTimeout
    <2>1. timeouts' \in 0..MaxTimeouts
        BY <1>4, BoundsAssumption DEF ReadTimeout, TypeOK
    <2> QED BY <1>4, <2>1 DEF ReadTimeout, ReadStep, StopReading, runVars, TypeOK
<1> QED BY <1>1, <1>2, <1>3, <1>4

(* Reading on. *)
LEMMA ReadKeeps ==
    ASSUME IInv, ReadStep
    PROVE  IInv'
<1>1. /\ TypeOK /\ WalInOrder /\ RunInOrder /\ HashStateSound
      /\ phase = "reading" /\ phase' \in {"reading", "read"}
      /\ UNCHANGED <<curated, hashState, wal, walEnd, slotFlush, checkpoint, start, window,
                     first, toWrite, saved, acked, crashes>>
      /\ reached' \in BOOLEAN /\ timeouts' \in 0..MaxTimeouts
    BY DEF IInv, ReadStep, targetVars, sourceVars
<1>2. /\ first <= next /\ next <= Len(wal) + 1 /\ Len(wal) < walEnd
      /\ first \in Nat \ {0} /\ next \in Nat \ {0} /\ Len(wal) \in Nat /\ walEnd \in 1..MaxLsn
      /\ DOMAIN wal = 1..Len(wal) /\ MaxLsn \in Nat
    BY <1>1, Numbers DEF RunInOrder, WalInOrder, TypeOK
<1>3. /\ next' \in Nat \ {0} /\ next <= next' /\ next' <= Len(wal) + 1
      /\ \/ lastDecoded' = lastDecoded
         \/ next' = next + 1 /\ next \in DOMAIN wal /\ lastDecoded' = EndLsn(next)
    <2>1. CASE UNCHANGED <<next, lastDecoded>>
        BY <1>2, <2>1
    <2>2. CASE /\ next <= Len(wal) /\ next' = next + 1
               /\ lastDecoded' = IF HasChanges(next) THEN EndLsn(next) ELSE lastDecoded
        BY <1>2, <2>2
    <2> QED BY <2>1, <2>2 DEF ReadStep
<1>4. TypeOK' /\ HashStateSound'
    <2>1. next' \in 1..MaxLsn
        BY <1>2, <1>3
    <2>2. lastDecoded' \in 0..MaxLsn
        <3>1. CASE lastDecoded' = lastDecoded
            BY <1>1, <3>1 DEF TypeOK
        <3>2. CASE next \in DOMAIN wal /\ lastDecoded' = EndLsn(next)
            <4>1. CommitLsn(next) < walEnd /\ CommitLsn(next) \in Nat
                  /\ EndLsn(next) = CommitLsn(next) + 1
                BY <1>1, <3>2, Numbers DEF WalInOrder
            <4> QED BY <1>2, <3>2, <4>1
        <3> QED BY <1>3, <3>1, <3>2
    <2>3. phase' \in Phases
        BY <1>1 DEF Phases
    <2> QED BY <1>1, <2>1, <2>2, <2>3 DEF TypeOK, TargetTypeOK, HashStateSound
<1>5. WalInOrder'
    BY <1>1 DEF WalInOrder, CommitLsn
<1>6. Position' = Position /\ \A i : CommitLsn(i)' = CommitLsn(i) /\ EndLsn(i)' = EndLsn(i)
    BY <1>1 DEF Position, Max2, CommitLsn, EndLsn
<1>7. RunInOrder'
    BY <1>1, <1>2, <1>3, <1>6 DEF RunInOrder
<1>8. Decoded'
    <2>1. CASE lastDecoded' = lastDecoded
        <3>1. \A i \in first..(next - 1) : i \in first..(next' - 1)
            <4> DEFINE then == next'
            <4>1. then \in Nat /\ next <= then
                BY <1>3
            <4> HIDE DEF then
            <4>2. \A i \in first..(next - 1) : i \in first..(then - 1)
                BY <1>2, <4>1
            <4> QED BY <4>2 DEF then
        <3> QED BY <1>1, <1>6, <2>1, <3>1 DEF IInv, Decoded
    <2>2. CASE next' = next + 1 /\ lastDecoded' = EndLsn(next)
        <3>0. next \in first'..(next' - 1)
            BY <1>1, <1>2, <2>2
        <3>1. PICK i \in first'..(next' - 1) : lastDecoded' = EndLsn(i)
            BY <2>2, <3>0
        <3> QED BY <1>6, <3>1 DEF Decoded
    <2> QED BY <1>3, <2>1, <2>2
<1> QED BY <1>1, <1>4, <1>5, <1>7, <1>8 DEF IInv, WritesItsRows

(* The stages between reading and the position. *)
Stage == Land \/ Classify \/ ApplyUpserts \/ ApplyDeletes

(* The deletes, which may miss rows that others insert meanwhile, but keep *)
(* no hash of a row they remove.                                           *)
RacedDeletes == \E missed : \E kept \in SUBSET missed : DeleteAllBut(missed, kept)

(* A stage moves neither the positions nor what was read. *)
LEMMA StageKeeps ==
    ASSUME IInv, Stage \/ RacedDeletes
    PROVE  IInv'
<1>0. Land \/ Classify \/ ApplyUpserts \/ RacedDeletes
    <2>1. ApplyDeletes => RacedDeletes
        BY DEF ApplyDeletes, RacedDeletes
    <2> QED BY <2>1 DEF Stage
<1>1. /\ phase \in {"read", "landed", "classified", "upserted"}
      /\ phase' \in {"landed", "classified", "upserted", "applied"}
      /\ UNCHANGED <<wal, walEnd, slotFlush, checkpoint, start, window, first, next,
                     lastDecoded, reached, saved, acked, crashes, timeouts>>
    <2>1. CASE Land
        BY <2>1 DEF Land, sourceVars, runVars, limits
    <2>2. CASE Classify
        BY <2>2 DEF Classify, sourceVars, runVars, limits
    <2>3. CASE ApplyUpserts
        BY <2>3 DEF ApplyUpserts, sourceVars, runVars, limits
    <2>4. CASE RacedDeletes
        BY <2>4 DEF RacedDeletes, DeleteAllBut, sourceVars, runVars, limits
    <2> QED BY <1>0, <2>1, <2>2, <2>3, <2>4
<1>2. /\ TypeOK /\ WalInOrder /\ RunInOrder /\ HashStateSound /\ WritesItsRows
      /\ TargetTypeOK /\ phase # "idle"
    BY <1>1 DEF IInv, TypeOK
<1>3. ChangedKeys(Artifact) \subseteq UpsertKeys(Artifact) /\ UpsertKeys(Artifact) \subseteq Keys
    BY <1>2, ToWriteIs
<1>4. TargetTypeOK' /\ HashStateSound' /\ toWrite' \subseteq Keys
    <2>1. CASE Land
        <3>1. UNCHANGED targetVars /\ UNCHANGED toWrite
            BY <2>1 DEF Land, runVars
        <3> QED BY <1>2, <3>1, TargetUnchangedSound DEF TypeOK
    <2>2. CASE Classify
        <3>1. UNCHANGED targetVars /\ toWrite' = ChangedKeys(Artifact)
            BY <2>2 DEF Classify
        <3> QED BY <1>2, <1>3, <3>1, TargetUnchangedSound
    <2>3. CASE ApplyUpserts
        <3> DEFINE rows == [k \in toWrite |-> Artifact[k]]
        <3>1. Upsert(rows) /\ toWrite' = {} /\ phase = "classified"
            BY <2>3 DEF ApplyUpserts
        <3>2. toWrite \subseteq UpsertKeys(Artifact)
            BY <1>2, <3>1 DEF WritesItsRows
        <3>3. \A k \in toWrite : Artifact[k] \in Rows /\ k \in Keys
            BY <1>2, <1>3, <3>2, ArtifactIs DEF UpsertKeys
        <3>4. rows \in Batches
            <4>1. rows \in [toWrite -> Rows] /\ toWrite \in SUBSET Keys
                BY <3>3
            <4> QED BY <4>1 DEF Batches
        <3> HIDE DEF rows
        <3> QED BY <1>2, <3>1, <3>4, UpsertSound
    <2>4. CASE RacedDeletes
        <3>1. PICK missed, kept :
                /\ Delete(DeletedKeys(Artifact) \ missed, DeletedKeys(Artifact) \ kept)
                /\ UNCHANGED toWrite
            BY <2>4 DEF RacedDeletes, DeleteAllBut, runVars
        <3> QED BY <1>2, <3>1, DeleteSound DEF TypeOK
    <2> QED BY <1>0, <2>1, <2>2, <2>3, <2>4
<1>5. TypeOK'
    <2>1. phase' \in Phases
        BY <1>1 DEF Phases
    <2> QED BY <1>1, <1>2, <1>4, <2>1 DEF TypeOK
<1>6. WalInOrder'
    BY <1>1, <1>2 DEF WalInOrder, CommitLsn
<1>7. RunInOrder'
    <2>1. Position' = Position /\ \A i : CommitLsn(i)' = CommitLsn(i)
        BY <1>1 DEF Position, Max2, CommitLsn
    <2>2. ~saved /\ ~acked
        BY <1>1, <1>2 DEF RunInOrder
    <2> QED BY <1>1, <1>2, <2>1, <2>2 DEF RunInOrder
<1>8. Decoded'
    BY <1>1 DEF IInv, Decoded, EndLsn
<1>9. WritesItsRows'
    <2>1. CASE Classify
        <3>1. toWrite' = ChangedKeys(Artifact)
            BY <2>1 DEF Classify
        <3>2. Artifact' = Artifact
            <4>1. WalKept /\ next <= Len(wal) + 1
                BY <1>1, <1>2, Numbers DEF WalKept, RunInOrder
            <4> QED BY <1>1, <1>2, <4>1, ArtifactStays
        <3> QED BY <1>3, <3>1, <3>2 DEF WritesItsRows, UpsertKeys
    <2>2. CASE ~Classify
        <3>1. phase' # "classified"
            BY <1>0, <2>2 DEF Land, ApplyUpserts, RacedDeletes, DeleteAllBut
        <3> QED BY <3>1 DEF WritesItsRows
    <2> QED BY <2>1, <2>2
<1> QED BY <1>4, <1>5, <1>6, <1>7, <1>8, <1>9 DEF IInv

(* The end of a run, whether by success or by failure. *)
LEMMA EndRunKeeps ==
    ASSUME TypeOK, HashStateSound, WalInOrder, EndRun,
           UNCHANGED <<targetVars, sourceVars, timeouts>>,
           crashes' \in 0..MaxCrashes,
           checkpoint' \in 0..walEnd, slotFlush' \in 1..walEnd
    PROVE  IInv'
<1>1. /\ phase' = "idle" /\ start' = 0 /\ window' = 0 /\ lastDecoded' = 0
      /\ first' = 1 /\ next' = 1 /\ toWrite' = {}
      /\ reached' = FALSE /\ saved' = FALSE /\ acked' = FALSE
    BY DEF EndRun, NoLsn
<1>2. UNCHANGED <<curated, hashState, wal, walEnd, timeouts>>
    BY DEF targetVars, sourceVars
<1>3. TypeOK'
    <2>1. walEnd \in 1..MaxLsn /\ MaxLsn \in Nat
        BY BoundsAssumption DEF TypeOK
    <2>2. checkpoint' \in 0..MaxLsn /\ slotFlush' \in 1..MaxLsn
        BY <2>1
    <2>3. 0 \in 0..MaxLsn /\ 1 \in 1..MaxLsn
        BY <2>1
    <2> QED BY <1>1, <1>2, <2>2, <2>3 DEF TypeOK, TargetTypeOK, Phases
<1>4. HashStateSound' /\ WalInOrder'
    BY <1>2 DEF HashStateSound, WalInOrder, CommitLsn
<1>5. RunInOrder' /\ Decoded' /\ WritesItsRows'
    BY <1>1, <1>2, Numbers DEF RunInOrder, Decoded, WritesItsRows
<1> QED BY <1>3, <1>4, <1>5 DEF IInv

(* A stage fails. *)
LEMMA CrashKeeps ==
    ASSUME IInv, Crash
    PROVE  IInv'
<1>1. /\ EndRun /\ UNCHANGED <<targetVars, sourceVars, timeouts>>
      /\ crashes < MaxCrashes /\ crashes' = crashes + 1
      /\ UNCHANGED <<checkpoint, slotFlush>>
    BY DEF Crash
<1>2. TypeOK /\ HashStateSound /\ WalInOrder /\ RunInOrder
    BY DEF IInv
<1>3. crashes' \in 0..MaxCrashes
    BY <1>1, <1>2, BoundsAssumption DEF TypeOK
<1>4. checkpoint' \in 0..walEnd /\ slotFlush' \in 1..walEnd
    BY <1>1, <1>2, Numbers DEF RunInOrder, TypeOK
<1> QED BY <1>1, <1>2, <1>3, <1>4, EndRunKeeps

(* What storing the resolved LSN and acknowledging it have in common. *)
PositionMoves ==
    /\ phase = "applied"
    /\ UNCHANGED <<targetVars, sourceVars, limits>>
    /\ Position' = Max2(Position, Resolved)
    /\ checkpoint <= checkpoint' /\ checkpoint' \in 0..walEnd /\ slotFlush' \in 1..walEnd
    /\ \/ EndRun
       \/ /\ saved' \in BOOLEAN /\ acked' \in BOOLEAN /\ (saved' \/ acked')
          /\ ~saved' => (~saved /\ checkpoint' = checkpoint)
          /\ UNCHANGED <<phase, start, window, first, next, lastDecoded, reached, toWrite>>

(* Both move the position to the resolved LSN, or leave it after that. *)
LEMMA PositionSteps ==
    ASSUME IInv, SaveCheckpoint \/ AckSlot
    PROVE  PositionMoves
<1>1. /\ phase = "applied"
      /\ UNCHANGED <<targetVars, sourceVars, limits>>
    BY DEF SaveCheckpoint, AckSlot
<1>2. /\ Resolved \in Nat /\ start <= Resolved /\ Resolved <= walEnd
    BY <1>1, ResolvedIs
<1>3. /\ TypeOK
      /\ ~saved => start = checkpoint
      /\ checkpoint <= walEnd /\ slotFlush <= walEnd
      /\ checkpoint \in Nat /\ slotFlush \in Nat \ {0} /\ walEnd \in Nat /\ start \in Nat
    BY <1>1, Numbers DEF IInv, RunInOrder, TypeOK
<1>4. saved \in BOOLEAN /\ acked \in BOOLEAN
    BY <1>3 DEF TypeOK
<1> DEFINE r == Resolved
<1>5. r \in Nat /\ start <= r /\ r <= walEnd
    BY <1>2
<1>6. CASE SaveCheckpoint
    <2>1. ~saved /\ checkpoint' = r /\ UNCHANGED slotFlush
        BY <1>6 DEF SaveCheckpoint, limits
    <2>2. \/ EndRun
          \/ /\ saved' = TRUE
             /\ UNCHANGED <<phase, start, window, first, next, lastDecoded, reached, toWrite, acked>>
        BY <1>6 DEF SaveCheckpoint
    <2> HIDE DEF r
    <2>3. checkpoint <= checkpoint' /\ checkpoint' \in 0..walEnd /\ slotFlush' \in 1..walEnd
        BY <1>3, <1>5, <2>1
    <2>4. Position' = Max2(Position, r)
        BY <1>3, <1>5, <2>1 DEF Position, Max2
    <2> QED BY <1>1, <1>4, <2>2, <2>3, <2>4 DEF PositionMoves, r
<1>7. CASE AckSlot
    <2>1. slotFlush' = Max2(slotFlush, r) /\ UNCHANGED checkpoint
        BY <1>7 DEF AckSlot
    <2>2. \/ EndRun
          \/ /\ acked' = TRUE /\ ~saved
             /\ UNCHANGED <<phase, start, window, first, next, lastDecoded, reached, toWrite, saved>>
        BY <1>7 DEF AckSlot
    <2> HIDE DEF r
    <2>3. checkpoint <= checkpoint' /\ checkpoint' \in 0..walEnd /\ slotFlush' \in 1..walEnd
        BY <1>3, <1>5, <2>1 DEF Max2
    <2>4. Position' = Max2(Position, r)
        BY <1>3, <1>5, <2>1 DEF Position, Max2
    <2> QED BY <1>1, <1>4, <2>1, <2>2, <2>3, <2>4 DEF PositionMoves, r
<1> QED BY <1>6, <1>7

(* The position moves. *)
LEMMA PositionKeeps ==
    ASSUME IInv, PositionMoves
    PROVE  IInv'
<1>1. TypeOK /\ HashStateSound /\ WalInOrder /\ RunInOrder /\ Decoded
    BY DEF IInv
<1>2. /\ phase = "applied" /\ UNCHANGED <<curated, hashState, wal, walEnd, crashes, timeouts>>
      /\ checkpoint' \in 0..walEnd /\ slotFlush' \in 1..walEnd
    BY DEF PositionMoves, targetVars, sourceVars, limits
<1>3. CASE EndRun
    <2>1. crashes' \in 0..MaxCrashes /\ UNCHANGED <<targetVars, sourceVars, timeouts>>
        BY <1>1, <1>2 DEF TypeOK, targetVars, sourceVars
    <2> QED BY <1>1, <1>2, <1>3, <2>1, EndRunKeeps
<1>4. CASE ~EndRun
    <2>1. /\ saved' \in BOOLEAN /\ acked' \in BOOLEAN /\ (saved' \/ acked')
          /\ ~saved' => (~saved /\ checkpoint' = checkpoint)
          /\ UNCHANGED <<phase, start, window, first, next, lastDecoded, reached, toWrite>>
        BY <1>4 DEF PositionMoves
    <2>2. TypeOK'
        <3>1. walEnd \in 1..MaxLsn /\ MaxLsn \in Nat
            BY <1>1, BoundsAssumption DEF TypeOK
        <3>2. checkpoint' \in 0..MaxLsn /\ slotFlush' \in 1..MaxLsn
            BY <1>2, <3>1
        <3>3. /\ TargetTypeOK' /\ wal' \in Seq(Transactions) /\ walEnd' \in 1..MaxLsn
              /\ crashes' \in 0..MaxCrashes /\ timeouts' \in 0..MaxTimeouts
            BY <1>1, <1>2 DEF TypeOK, TargetTypeOK
        <3>4. /\ phase' \in Phases /\ toWrite' \subseteq Keys /\ reached' \in BOOLEAN
              /\ start' \in 0..MaxLsn /\ window' \in 0..MaxLsn /\ lastDecoded' \in 0..MaxLsn
              /\ first' \in 1..MaxLsn /\ next' \in 1..MaxLsn
            BY <1>1, <2>1 DEF TypeOK
        <3>5. saved' \in BOOLEAN /\ acked' \in BOOLEAN
            BY <2>1
        <3> QED BY <3>2, <3>3, <3>4, <3>5 DEF TypeOK
    <2>3. HashStateSound' /\ WalInOrder'
        BY <1>1, <1>2 DEF HashStateSound, WalInOrder, CommitLsn
    <2>4. \A i : CommitLsn(i)' = CommitLsn(i) /\ EndLsn(i)' = EndLsn(i)
        BY <1>2 DEF CommitLsn, EndLsn
    <2>5. RunInOrder'
        <3>1. Position <= Position' /\ Position \in Nat /\ Position' \in Nat
            <4>1. Position' = Max2(Position, Resolved)
                BY DEF PositionMoves
            <4>2. Resolved \in Nat /\ Position \in Nat
                BY <1>1, <1>2, Numbers, ResolvedIs
            <4> QED BY <4>1, <4>2 DEF Max2
        <3>2. checkpoint' <= walEnd' /\ slotFlush' <= walEnd'
            BY <1>1, <1>2, Numbers
        <3>3. /\ first' <= next' /\ next' <= Len(wal)' + 1
              /\ start' <= window' /\ window' <= walEnd'
              /\ ~saved' => start' = checkpoint'
            BY <1>1, <1>2, <2>1 DEF RunInOrder
        <3>4. \A i \in DOMAIN wal' : /\ i < first' => CommitLsn(i)' < Position'
                                     /\ i >= first' => start' <= CommitLsn(i)'
            <4>1. ASSUME NEW i \in DOMAIN wal
                  PROVE  /\ i < first => CommitLsn(i) < Position'
                         /\ i >= first => start <= CommitLsn(i)
                <5>1. /\ i < first => CommitLsn(i) < Position
                      /\ i >= first => start <= CommitLsn(i)
                    BY <1>1, <1>2 DEF RunInOrder
                <5>2. CommitLsn(i) \in Nat
                    BY <1>1, Numbers
                <5> QED BY <3>1, <5>1, <5>2
            <4> QED BY <1>2, <2>1, <2>4, <4>1
        <3> QED BY <1>2, <2>1, <3>2, <3>3, <3>4 DEF RunInOrder
    <2>6. Decoded' /\ WritesItsRows'
        BY <1>1, <1>2, <2>1, <2>4 DEF Decoded, WritesItsRows
    <2> QED BY <2>2, <2>3, <2>5, <2>6 DEF IInv
<1> QED BY <1>3, <1>4

(* Steps that change nothing. *)
LEMMA StutterKeeps ==
    ASSUME IInv, UNCHANGED vars
    PROVE  IInv'
<1>1. UNCHANGED <<curated, hashState, wal, walEnd, slotFlush, checkpoint, phase, start, window,
                  first, next, lastDecoded, reached, toWrite, saved, acked, crashes, timeouts>>
    BY DEF vars
<1>2. TypeOK' /\ HashStateSound' /\ WalInOrder'
    BY <1>1 DEF IInv, TypeOK, TargetTypeOK, HashStateSound, WalInOrder, CommitLsn
<1>3. RunInOrder' /\ Decoded'
    BY <1>1 DEF IInv, RunInOrder, Decoded, Position, Max2, CommitLsn, EndLsn
<1>4. WritesItsRows'
    <2>1. CASE phase = "idle"
        BY <1>1, <2>1 DEF WritesItsRows
    <2>2. CASE phase # "idle"
        <3>1. WalKept /\ next <= Len(wal) + 1 /\ TypeOK
            BY <1>1, <2>2, Numbers DEF IInv, WalKept, RunInOrder
        <3>2. Artifact' = Artifact
            BY <1>1, <3>1, ArtifactStays
        <3> QED BY <1>1, <3>2 DEF IInv, WritesItsRows, UpsertKeys
    <2> QED BY <2>1, <2>2
<1> QED BY <1>2, <1>3, <1>4 DEF IInv
-----------------------------------------------------------------------------
(* The steps, as the proofs tell them apart. *)
LEMMA Steps ==
    ASSUME TypeOK, Next
    PROVE  \/ Source \/ StartExtract \/ ReadStep \/ Stage
           \/ SaveCheckpoint \/ AckSlot \/ Crash
BY ReadSteps DEF Next, OnTime, Run, Stage

(* The invariant holds in every state, the read deadlines passing anywhere. *)
THEOREM SpecIInv == Spec => []IInv
<1>1. IInv /\ [Next]_vars => IInv'
    <2> SUFFICES ASSUME IInv, [Next]_vars PROVE IInv'
        OBVIOUS
    <2>1. CASE Next
        <3>1. \/ Source \/ StartExtract \/ ReadStep \/ Stage
              \/ PositionMoves \/ Crash
            BY <2>1, Steps, PositionSteps DEF IInv
        <3> QED BY <3>1, SourceKeeps, StartKeeps, ReadKeeps, StageKeeps, PositionKeeps, CrashKeeps
    <2>2. CASE UNCHANGED vars
        BY <2>2, StutterKeeps
    <2> QED BY <2>1, <2>2
<1> QED BY InitIInv, <1>1, PTL DEF Spec

(***************************************************************************)
(* Every variable keeps to its type: the artifact's rows are rows of the   *)
(* contract, and every LSN a run works with is one the WAL has reached.    *)
(***************************************************************************)
THEOREM SpecTypeOK == Spec => []TypeOK
BY SpecIInv, PTL DEF IInv

(***************************************************************************)
(* The checkpoint never moves back: not by a run whose window was empty,   *)
(* not by one cut short at a deadline, not after a crash between storing   *)
(* the checkpoint and acknowledging the slot (pipeline.py:17-36).          *)
(***************************************************************************)
THEOREM SpecCheckpointNeverMovesBack == Spec => CheckpointNeverMovesBack
<1>1. IInv /\ [Next]_vars => checkpoint' >= checkpoint
    <2> SUFFICES ASSUME IInv, [Next]_vars PROVE checkpoint' >= checkpoint
        OBVIOUS
    <2>1. checkpoint \in Nat
        BY Numbers DEF IInv
    <2>2. UNCHANGED checkpoint \/ PositionMoves
        <3>1. CASE Next
            <4>1. \/ Source \/ StartExtract \/ ReadStep \/ Stage
                  \/ PositionMoves \/ Crash
                BY <3>1, Steps, PositionSteps DEF IInv
            <4>2. Source \/ StartExtract \/ Crash => UNCHANGED checkpoint
                BY DEF Source, SourceCommit, OtherWal, StartExtract, Crash
            <4>3. ReadStep => UNCHANGED checkpoint
                BY DEF ReadStep
            <4>4. Stage => UNCHANGED checkpoint
                BY DEF Stage, Land, Classify, ApplyUpserts, ApplyDeletes, DeleteAllBut
            <4> QED BY <4>1, <4>2, <4>3, <4>4
        <3>2. CASE UNCHANGED vars
            BY <3>2 DEF vars
        <3> QED BY <3>1, <3>2
    <2> QED BY <2>1, <2>2 DEF PositionMoves
<1>2. IInv /\ [Next]_vars => [checkpoint' >= checkpoint]_vars
    BY <1>1
<1> QED BY SpecIInv, <1>2, PTL DEF Spec, CheckpointNeverMovesBack
-----------------------------------------------------------------------------
(***************************************************************************)
(* When deadlines pass at the top of the read loop only, no transaction    *)
(* that is still to be read is before the position, nor before the         *)
(* window's end once the run has reached that.                             *)
(***************************************************************************)
CaughtUp ==
    phase # "idle" =>
        \A i \in DOMAIN wal : i >= next =>
            /\ Position <= CommitLsn(i)
            /\ reached => window <= CommitLsn(i)

(* A transaction that has just been read, or will never be before the end. *)
LEMMA ReadCaughtUp ==
    ASSUME IInv, CaughtUp, ReadCommit \/ ReadNothing \/ ReadTimeout
    PROVE  CaughtUp'
<1>1. /\ phase = "reading"
      /\ UNCHANGED <<wal, walEnd, slotFlush, checkpoint, window>>
    BY DEF ReadCommit, ReadNothing, ReadTimeout, sourceVars, runVars
<1>2. Position' = Position /\ \A i : CommitLsn(i)' = CommitLsn(i)
    BY <1>1 DEF Position, Max2, CommitLsn
<1>3. /\ TypeOK /\ window <= walEnd /\ Len(wal) \in Nat /\ DOMAIN wal = 1..Len(wal)
      /\ window \in Nat /\ walEnd \in Nat /\ next \in Nat \ {0}
      /\ \A i \in DOMAIN wal : /\ CommitLsn(i) < walEnd /\ i \in Nat /\ CommitLsn(i) \in Nat
                               /\ EndLsn(i) = CommitLsn(i) + 1
      /\ \A i, j \in DOMAIN wal : i < j => CommitLsn(i) < CommitLsn(j)
    BY <1>1, Numbers DEF IInv, RunInOrder, WalInOrder
<1>4. \A i \in DOMAIN wal : i >= next => /\ Position <= CommitLsn(i)
                                         /\ reached => window <= CommitLsn(i)
    BY <1>1 DEF CaughtUp
<1>5. ASSUME NEW i \in DOMAIN wal, i >= next'
      PROVE  i >= next /\ (reached' => window <= CommitLsn(i))
    <2>1. CASE ReadCommit
        <3>1. /\ next \in DOMAIN wal /\ reached' = (reached \/ EndLsn(next) >= window)
              /\ \/ HasChanges(next) /\ CommitLsn(next) > window /\ next' = next
                 \/ next' = next + 1
            BY <1>3, <2>1 DEF ReadCommit
        <3>2. CASE CommitLsn(next) > window /\ next' = next
            <4>1. i >= next /\ (i = next \/ i > next)
                BY <1>3, <1>5, <3>2
            <4>2. CommitLsn(i) >= CommitLsn(next)
                BY <1>3, <3>1, <4>1
            <4> QED BY <1>3, <3>1, <3>2, <4>1, <4>2
        <3>3. CASE next' = next + 1
            <4>1. i > next /\ i >= next
                BY <1>3, <1>5, <3>3
            <4>2. CommitLsn(i) > CommitLsn(next)
                BY <1>3, <3>1, <4>1
            <4>3. EndLsn(next) >= window => window <= CommitLsn(i)
                BY <1>3, <3>1, <4>2
            <4> QED BY <1>4, <3>1, <4>1, <4>3
        <3> QED BY <3>1, <3>2, <3>3
    <2>2. CASE ReadNothing
        <3>1. next' = next /\ reached' = (reached \/ SentEnd >= window)
            BY <2>2 DEF ReadNothing
        <3>2. i >= next /\ (i = next \/ i > next) /\ next \in DOMAIN wal
            BY <1>3, <1>5, <3>1
        <3>3. SentEnd = CommitLsn(next)
            BY <1>3, <3>2 DEF SentEnd
        <3>4. CommitLsn(i) >= CommitLsn(next)
            BY <1>3, <3>2
        <3>5. SentEnd >= window => window <= CommitLsn(i)
            BY <1>3, <3>2, <3>3, <3>4
        <3> QED BY <1>4, <3>1, <3>2, <3>5
    <2>3. CASE ReadTimeout
        BY <1>4, <1>5, <2>3 DEF ReadTimeout, runVars
    <2> QED BY <2>1, <2>2, <2>3
<1> QED BY <1>1, <1>2, <1>4, <1>5 DEF CaughtUp

(* The stages of a run and the source keep it so. *)
LEMMA OnTimeCaughtUp ==
    ASSUME IInv, CaughtUp, [OnTime]_vars
    PROVE  CaughtUp'
<1>1. TypeOK /\ WalInOrder /\ RunInOrder
    BY DEF IInv
<1>2. \/ Source \/ StartExtract \/ ReadCommit \/ ReadNothing \/ ReadTimeout
      \/ Stage \/ PositionMoves \/ Crash \/ UNCHANGED vars
    BY PositionSteps DEF OnTime, Run, Stage
<1>3. CASE Source
    <2>1. /\ SourceGrows /\ WalKept /\ TypeOK' /\ walEnd <= walEnd'
          /\ UNCHANGED <<slotFlush, checkpoint, phase, window, next, reached>>
        BY <1>1, <1>3, SourceStep DEF SourceGrows, runVars
    <2>2. Position' = Position
        BY <2>1 DEF Position, Max2
    <2>3. ASSUME NEW i \in DOMAIN wal', i >= next, phase # "idle"
          PROVE  /\ Position <= CommitLsn(i)'
                 /\ reached => window <= CommitLsn(i)'
        <3>1. CASE i \in DOMAIN wal
            <4>1. CommitLsn(i)' = CommitLsn(i)
                BY <2>1, <3>1 DEF WalKept, CommitLsn
            <4> QED BY <2>3, <3>1, <4>1 DEF CaughtUp
        <3>2. CASE i \notin DOMAIN wal
            <4>1. walEnd <= CommitLsn(i)' /\ CommitLsn(i)' \in Nat
                BY <2>1, <3>2, WalNumbersThen DEF SourceGrows, WalNumbers
            <4>2. Position <= walEnd /\ window <= walEnd
                BY <1>1, <2>3, Numbers DEF RunInOrder
            <4> QED BY <1>1, <4>1, <4>2, Numbers
        <3> QED BY <3>1, <3>2
    <2> QED BY <2>1, <2>2, <2>3 DEF CaughtUp
<1>4. CASE StartExtract
    <2>1. /\ next' = Released + 1 /\ ~reached'
          /\ UNCHANGED <<wal, slotFlush, checkpoint>>
        BY <1>4 DEF StartExtract, sourceVars
    <2>2. Position' = Position /\ \A i : CommitLsn(i)' = CommitLsn(i)
        BY <2>1 DEF Position, Max2, CommitLsn
    <2>3. ASSUME NEW i \in DOMAIN wal, i >= next'
          PROVE  Position <= CommitLsn(i)
        <3> DEFINE r == Released
        <3>1. r \in Nat /\ (i <= r <=> CommitLsn(i) < Position)
            BY <1>1, ReleasedIs, Numbers
        <3>2. i >= r + 1
            BY <2>1, <2>3
        <3>3. i \in Nat /\ CommitLsn(i) \in Nat /\ Position \in Nat
            BY <1>1, Numbers
        <3> HIDE DEF r
        <3> QED BY <3>1, <3>2, <3>3
    <2> QED BY <2>1, <2>2, <2>3 DEF CaughtUp
<1>5. CASE Stage
    <2>1. phase # "idle" /\ UNCHANGED <<wal, slotFlush, checkpoint, window, next, reached>>
        BY <1>5 DEF Stage, Land, Classify, ApplyUpserts, ApplyDeletes, DeleteAllBut,
                    sourceVars, runVars
    <2> QED BY <2>1 DEF CaughtUp, Position, Max2, CommitLsn
<1>6. CASE PositionMoves
    <2>1. phase # "idle" /\ UNCHANGED wal /\ Position' = Max2(Position, Resolved)
        BY <1>6 DEF PositionMoves, sourceVars
    <2>2. CASE EndRun
        BY <2>2 DEF EndRun, CaughtUp
    <2>3. CASE ~EndRun
        <3>1. UNCHANGED <<phase, window, next, reached>>
            BY <1>6, <2>3 DEF PositionMoves
        <3>2. ASSUME NEW i \in DOMAIN wal, i >= next
              PROVE  Position' <= CommitLsn(i) /\ (reached => window <= CommitLsn(i))
            <4>1. Position <= CommitLsn(i) /\ (reached => window <= CommitLsn(i))
                BY <2>1, <3>2 DEF CaughtUp
            <4>2. Resolved <= CommitLsn(i)
                BY <2>1, <3>2, <4>1, ResolvedIs
            <4> QED BY <2>1, <4>1, <4>2 DEF Max2
        <3> QED BY <2>1, <3>1, <3>2 DEF CaughtUp, CommitLsn
    <2> QED BY <2>2, <2>3
<1>7. CASE Crash
    BY <1>7 DEF Crash, EndRun, CaughtUp
<1>8. CASE UNCHANGED vars
    BY <1>8 DEF vars, CaughtUp, Position, Max2, CommitLsn
<1> QED BY <1>2, <1>3, <1>4, <1>5, <1>6, <1>7, <1>8, ReadCaughtUp
-----------------------------------------------------------------------------
(* The changed rows of the artifact are written. *)
Upserted == phase = "upserted" => \A k \in UpsertKeys(Artifact) : curated[k] = Artifact[k]

(* All of it is: no row is older than what the run has read. *)
Applied ==
    phase = "applied" =>
        \A k \in Keys : \E n \in (next - 1)..Len(wal) : curated[k] = Replica(n)[k]

(* Until a stage fails the table goes from one state of the source to the  *)
(* next; only the deletes of a run come after its upserts.                 *)
Uncrashed ==
    crashes = 0 =>
        /\ phase = "idle" => curated = Replica(Released)
        /\ phase \in {"reading", "read", "landed", "classified"} => curated = Replica(first - 1)
        /\ phase = "upserted" =>
                \A k \in Keys \ UpsertKeys(Artifact) : curated[k] = Replica(first - 1)[k]
        /\ phase = "applied" => curated = Replica(next - 1)

(* What it found unchanged is so until it writes the rest. *)
Classified == phase = "classified" => toWrite = ChangedKeys(Artifact)

RowsInv == Classified /\ NothingLost /\ Upserted /\ Applied /\ Uncrashed

(* ReleasedIs, of the next state. *)
ReleasedRight ==
    /\ Released \in 0..Len(wal)
    /\ \A i \in DOMAIN wal : i <= Released <=> CommitLsn(i) < Position

(* What ReleasedIs says of a state, it says of the next. *)
LEMMA ReleasedThen == TypeOK' /\ WalInOrder' => ReleasedRight'
<1>1. TypeOK /\ WalInOrder => ReleasedRight
    BY ReleasedIs DEF ReleasedRight
<1> QED BY <1>1, PTL

(* Steps that leave the WAL's transactions and the position as they are. *)
Quiet ==
    /\ WalKept /\ Position' = Position
    /\ \A i \in DOMAIN wal' \ DOMAIN wal : Position <= CommitLsn(i)'

(* They leave the replica and what is released as they are. *)
LEMMA QuietStays ==
    ASSUME IInv, IInv', Quiet
    PROVE  /\ Released' = Released
           /\ Released \in 0..Len(wal) /\ Len(wal) \in Nat
           /\ Len(wal)' \in Nat /\ Len(wal) <= Len(wal)'
           /\ \A n \in 0..Len(wal) : Replica(n)' = Replica(n)
           /\ phase # "idle" => first - 1 \in 0..Len(wal) /\ next - 1 \in 0..Len(wal)
           /\ phase # "idle" /\ UNCHANGED <<first, next>> => Artifact' = Artifact
<1>1. /\ TypeOK /\ TypeOK' /\ WalInOrder /\ WalInOrder' /\ RunInOrder /\ WalKept
      /\ WalNumbers /\ WalNumbers'
    BY WalNumbersNow, WalNumbersThen DEF IInv, Quiet
<1> DEFINE r == Released
           s == Released'
           len == Len(wal)'
           last == Len(wal)
<1>2. /\ r \in 0..last /\ s \in 0..len
      /\ \A i \in DOMAIN wal : i <= r <=> CommitLsn(i) < Position
      /\ \A i \in DOMAIN wal' : i <= s <=> CommitLsn(i)' < Position'
    BY <1>1, ReleasedIs, ReleasedThen DEF ReleasedRight
<1>3. /\ last \in Nat /\ len \in Nat /\ last <= len
      /\ DOMAIN wal = 1..last /\ DOMAIN wal' = 1..len
    BY <1>1 DEF WalNumbers, WalKept
<1>4. s = r
    <2>1. \A i \in DOMAIN wal : CommitLsn(i)' = CommitLsn(i)
        BY <1>1 DEF WalKept, CommitLsn
    <2>2. /\ \A i \in DOMAIN wal' \ DOMAIN wal : Position <= CommitLsn(i)'
          /\ Position' = Position /\ Position \in Nat
          /\ \A i \in DOMAIN wal' : CommitLsn(i)' \in Nat
        BY <1>1, Numbers DEF WalNumbers, Quiet
    <2> HIDE DEF r, s, len, last
    <2>3. r \in Nat /\ r <= last /\ s \in Nat /\ s <= len
        BY <1>2, <1>3
    <2>4. \A i \in 1..last : i \in 1..len
        BY <1>3
    <2>5. \A i \in 1..last : i <= r <=> i <= s
        BY <1>2, <1>3, <2>1, <2>2, <2>4
    <2>6. s <= last
        <3>1. \A i \in DOMAIN wal' : i <= s => i \in DOMAIN wal
            BY <1>2, <2>2
        <3>2. s > last => s \in DOMAIN wal' /\ s \notin DOMAIN wal
            BY <1>3, <2>3
        <3> QED BY <1>3, <2>3, <3>1, <3>2
    <2>7. r <= s
        <3>1. r = 0 \/ r \in 1..last
            BY <1>3, <2>3
        <3> QED BY <2>3, <2>5, <3>1
    <2>8. s <= r
        <3>1. s = 0 \/ s \in 1..last
            BY <1>3, <2>3, <2>6
        <3> QED BY <2>3, <2>5, <3>1
    <2> QED BY <2>3, <2>7, <2>8
<1>5. \A n \in 0..Len(wal) : Replica(n)' = Replica(n)
    BY <1>1, ReplicaStays DEF WalNumbers
<1>6. ASSUME phase # "idle"
      PROVE  first - 1 \in 0..Len(wal) /\ next - 1 \in 0..Len(wal)
    BY <1>1, <1>6, Numbers DEF RunInOrder
<1>7. ASSUME phase # "idle", UNCHANGED <<first, next>>
      PROVE  Artifact' = Artifact
    <2>1. next <= Len(wal) + 1
        BY <1>1, <1>7 DEF RunInOrder
    <2> QED BY <1>1, <1>7, <2>1, ArtifactStays
<1> QED BY <1>2, <1>3, <1>4, <1>5, <1>6, <1>7

(* The steps that are quiet: all but those that move the position. *)
LEMMA QuietSteps ==
    ASSUME IInv, [OnTime]_vars
    PROVE  Quiet \/ PositionMoves
<1>1. TypeOK /\ WalInOrder /\ RunInOrder
    BY DEF IInv
<1>2. CASE Source
    <2>1. /\ SourceGrows /\ WalKept /\ TypeOK'
          /\ UNCHANGED <<slotFlush, checkpoint>>
        BY <1>1, <1>2, SourceStep DEF SourceGrows
    <2>2. Position' = Position
        BY <2>1 DEF Position, Max2
    <2>3. ASSUME NEW i \in DOMAIN wal', i \notin DOMAIN wal
          PROVE  Position <= CommitLsn(i)'
        <3>1. walEnd <= CommitLsn(i)' /\ CommitLsn(i)' \in Nat
            BY <2>1, <2>3, WalNumbersThen DEF SourceGrows, WalNumbers
        <3>2. Position <= walEnd
            BY <1>1, Numbers DEF RunInOrder
        <3> QED BY <1>1, <3>1, <3>2, Numbers
    <2> QED BY <2>1, <2>2, <2>3 DEF Quiet
<1>3. CASE UNCHANGED <<wal, slotFlush, checkpoint>>
    BY <1>1, <1>3, Numbers DEF Quiet, WalKept, Position, Max2
<1>4. \/ Source \/ StartExtract \/ ReadStep
      \/ Stage \/ PositionMoves \/ Crash \/ UNCHANGED vars
    BY <1>1, Steps, PositionSteps DEF Next
<1>5. StartExtract \/ ReadStep \/ Stage \/ Crash \/ UNCHANGED vars =>
            UNCHANGED <<wal, slotFlush, checkpoint>>
    BY DEF StartExtract, ReadStep, Stage, Land, Classify, ApplyUpserts, ApplyDeletes,
           DeleteAllBut, Crash, sourceVars, vars
<1> QED BY <1>2, <1>3, <1>4, <1>5

(* A quiet step that writes no row loses none. *)
LEMMA QuietLosesNothing ==
    ASSUME IInv, IInv', Quiet, NothingLost, UNCHANGED curated
    PROVE  NothingLost'
<1>1. /\ Released' = Released /\ Released \in 0..Len(wal)
      /\ Len(wal) \in Nat /\ Len(wal)' \in Nat /\ Len(wal) <= Len(wal)'
      /\ \A n \in 0..Len(wal) : Replica(n)' = Replica(n)
    BY QuietStays
<1>2. ASSUME NEW k \in Keys
      PROVE  \E n \in Released'..Len(wal)' : curated'[k] = Replica(n)'[k]
    <2>1. PICK n \in Released..Len(wal) : curated[k] = Replica(n)[k]
        BY DEF NothingLost
    <2> DEFINE len == Len(wal)'
               rel == Released'
    <2>2. len \in Nat /\ Len(wal) <= len /\ rel = Released
        BY <1>1
    <2> HIDE DEF len, rel
    <2>3. n \in 0..Len(wal) /\ n \in rel..len
        BY <1>1, <2>2
    <2> QED BY <1>1, <2>1, <2>3 DEF len, rel
<1> QED BY <1>2 DEF NothingLost

(* The source, and steps that change nothing, as far as rows go. *)
LEMMA RowsRest ==
    ASSUME IInv, IInv', RowsInv, Quiet,
           UNCHANGED <<curated, hashState, phase, first, next, toWrite, crashes>>
    PROVE  RowsInv'
<1>1. /\ Released' = Released /\ Released \in 0..Len(wal)
      /\ Len(wal) \in Nat /\ Len(wal)' \in Nat /\ Len(wal) <= Len(wal)'
      /\ \A n \in 0..Len(wal) : Replica(n)' = Replica(n)
      /\ phase # "idle" => first - 1 \in 0..Len(wal) /\ next - 1 \in 0..Len(wal)
      /\ phase # "idle" => Artifact' = Artifact
    BY QuietStays
<1>2. NothingLost' /\ Classified'
    <2>1. Classified'
        BY <1>1 DEF RowsInv, Classified, ChangedKeys, UpsertKeys
    <2> QED BY <2>1, QuietLosesNothing DEF RowsInv
<1>3. Upserted'
    BY <1>1 DEF RowsInv, Upserted, UpsertKeys
<1>4. Applied'
    <2>1. ASSUME phase = "applied", NEW k \in Keys
          PROVE  \E n \in (next' - 1)..Len(wal)' : curated'[k] = Replica(n)'[k]
        <3>1. PICK n \in (next - 1)..Len(wal) : curated[k] = Replica(n)[k]
            BY <2>1 DEF RowsInv, Applied
        <3> DEFINE len == Len(wal)'
        <3>2. len \in Nat /\ Len(wal) <= len /\ next - 1 \in Nat
            BY <1>1, <2>1
        <3> HIDE DEF len
        <3>3. n \in 0..Len(wal) /\ n \in (next - 1)..len
            BY <1>1, <3>2
        <3> QED BY <1>1, <3>1, <3>3 DEF len
    <2> QED BY <2>1 DEF Applied
<1>5. Uncrashed'
    <2> SUFFICES ASSUME crashes = 0 PROVE Uncrashed'
        BY DEF Uncrashed
    <2>1. phase = "idle" => curated' = Replica(Released)'
        <3>1. phase = "idle" => curated = Replica(Released)
            BY DEF RowsInv, Uncrashed
        <3>2. Replica(Released)' = Replica(Released)
            BY <1>1
        <3> QED BY <3>1, <3>2
    <2>2. phase \in {"reading", "read", "landed", "classified"} => curated' = Replica(first - 1)'
        <3>1. phase # "idle" => Replica(first - 1)' = Replica(first - 1)
            BY <1>1
        <3> QED BY <3>1 DEF RowsInv, Uncrashed
    <2>3. phase = "upserted" =>
            \A k \in Keys \ UpsertKeys(Artifact)' : curated'[k] = Replica(first - 1)'[k]
        <3>1. phase # "idle" => Replica(first - 1)' = Replica(first - 1)
            BY <1>1
        <3> QED BY <1>1, <3>1 DEF RowsInv, Uncrashed, UpsertKeys
    <2>4. phase = "applied" => curated' = Replica(next - 1)'
        <3>1. phase # "idle" => Replica(next - 1)' = Replica(next - 1)
            BY <1>1
        <3> QED BY <3>1 DEF RowsInv, Uncrashed
    <2> QED BY <2>1, <2>2, <2>3, <2>4 DEF Uncrashed
<1> QED BY <1>2, <1>3, <1>4, <1>5 DEF RowsInv

(* Steps of a run that write no row. *)
LEMMA RowsWait ==
    ASSUME IInv, IInv', RowsInv, Quiet,
           StartExtract \/ ReadStep \/ Land \/ Classify \/ Crash
    PROVE  RowsInv'
<1>1. /\ UNCHANGED curated
      /\ \/ phase = "idle" /\ phase' = "reading" /\ first' = Released + 1 /\ UNCHANGED crashes
         \/ /\ phase \in {"reading", "read", "landed"}
            /\ phase' \in {"reading", "read", "landed", "classified"}
            /\ UNCHANGED <<first, crashes>>
         \/ phase' = "idle" /\ crashes' # 0
    <2>1. CASE StartExtract
        BY <2>1 DEF StartExtract, targetVars, limits
    <2>2. CASE ReadStep
        BY <2>2 DEF ReadStep, targetVars
    <2>3. CASE Land
        BY <2>3 DEF Land, targetVars, runVars, limits
    <2>4. CASE Classify
        BY <2>4 DEF Classify, targetVars, limits
    <2>5. CASE Crash
        <3>1. crashes \in Nat
            BY BoundsAssumption DEF IInv, TypeOK
        <3> QED BY <2>5, <3>1 DEF Crash, EndRun, targetVars
    <2> QED BY <2>1, <2>2, <2>3, <2>4, <2>5
<1>2. /\ Released \in 0..Len(wal) /\ Len(wal) \in Nat
      /\ \A n \in 0..Len(wal) : Replica(n)' = Replica(n)
      /\ phase # "idle" => first - 1 \in 0..Len(wal)
    BY QuietStays
<1>3. NothingLost'
    BY <1>1, QuietLosesNothing DEF RowsInv
<1>4. phase' \notin {"upserted", "applied"}
    BY <1>1
<1>5. Uncrashed'
    <2>1. CASE phase = "idle" /\ phase' = "reading" /\ first' = Released + 1 /\ UNCHANGED crashes
        <3> SUFFICES ASSUME crashes = 0 PROVE curated' = Replica(first - 1)'
            BY <2>1 DEF Uncrashed
        <3>1. curated = Replica(Released)
            BY <2>1 DEF RowsInv, Uncrashed
        <3>2. first' - 1 = Released
            BY <1>2, <2>1
        <3>3. Replica(first - 1)' = Replica(Released)
            BY <1>2, <3>2
        <3> QED BY <1>1, <3>1, <3>3
    <2>2. CASE /\ phase \in {"reading", "read", "landed"}
               /\ phase' \in {"reading", "read", "landed", "classified"}
               /\ UNCHANGED <<first, crashes>>
        <3> SUFFICES ASSUME crashes = 0 PROVE curated' = Replica(first - 1)'
            BY <2>2 DEF Uncrashed
        <3>1. curated = Replica(first - 1)
            BY <2>2 DEF RowsInv, Uncrashed
        <3>2. Replica(first - 1)' = Replica(first - 1)
            BY <1>2, <2>2
        <3> QED BY <1>1, <3>1, <3>2
    <2>3. CASE phase' = "idle" /\ crashes' # 0
        BY <2>3 DEF Uncrashed
    <2> QED BY <1>1, <2>1, <2>2, <2>3
<1>6. Classified'
    <2>1. CASE Classify
        <3>1. phase # "idle" /\ UNCHANGED <<first, next, hashState>> /\ toWrite' = ChangedKeys(Artifact)
            BY <2>1 DEF Classify, targetVars
        <3>2. Artifact' = Artifact
            BY <3>1, QuietStays
        <3> QED BY <3>1, <3>2 DEF Classified, ChangedKeys, UpsertKeys
    <2>2. CASE StartExtract \/ ReadStep \/ Land \/ Crash
        <3>1. phase' # "classified"
            BY <2>2 DEF StartExtract, ReadStep, Land, Crash, EndRun
        <3> QED BY <3>1 DEF Classified
    <2> QED BY <2>1, <2>2
<1> QED BY <1>3, <1>4, <1>5, <1>6 DEF RowsInv, Upserted, Applied

(* What is released is what the run found released, or more, and no more *)
(* than it has read.                                                     *)
LEMMA ReleasedBetween ==
    ASSUME IInv, CaughtUp, phase # "idle"
    PROVE  /\ Released \in (first - 1)..(next - 1)
           /\ next - 1 \in 0..Len(wal)
<1> DEFINE r == Released
<1>1. /\ DOMAIN wal = 1..Len(wal) /\ Len(wal) \in Nat /\ Position \in Nat
      /\ first \in Nat \ {0} /\ next \in Nat \ {0} /\ first <= next /\ next <= Len(wal) + 1
      /\ \A i \in DOMAIN wal : i \in Nat \ {0} /\ CommitLsn(i) \in Nat
    BY Numbers DEF IInv, RunInOrder
<1>2. r \in 0..Len(wal) /\ \A i \in DOMAIN wal : i <= r <=> CommitLsn(i) < Position
    BY ReleasedIs DEF IInv
<1>3. \A i \in DOMAIN wal : /\ i < first => CommitLsn(i) < Position
                            /\ i >= next => Position <= CommitLsn(i)
    BY DEF IInv, RunInOrder, CaughtUp
<1> HIDE DEF r
<1>4. \A i \in DOMAIN wal : (i < first => i <= r) /\ (i >= next => ~(i <= r))
    BY <1>1, <1>2, <1>3
<1>5. first - 1 <= r
    <2>1. r \in Nat
        BY <1>1, <1>2
    <2>2. first # 1 => first - 1 \in DOMAIN wal /\ first - 1 < first
        BY <1>1
    <2>3. first # 1 => first - 1 <= r
        BY <1>4, <2>2
    <2> QED BY <1>1, <2>1, <2>3
<1>6. r <= next - 1
    <2>1. r = 0 \/ r \in DOMAIN wal
        BY <1>1, <1>2
    <2> QED BY <1>1, <1>2, <1>4, <2>1
<1>7. r \in (first - 1)..(next - 1) /\ next - 1 \in 0..Len(wal)
    BY <1>1, <1>2, <1>5, <1>6
<1> QED BY <1>7 DEF r

(***************************************************************************)
(* What the upserts leave: the rows of the artifact, those it found        *)
(* unchanged included, since a recorded hash is that of the row.           *)
(***************************************************************************)
LEMMA UpsertsDo ==
    ASSUME NoCollisions, IInv, Classified, ApplyUpserts
    PROVE  /\ \A k \in UpsertKeys(Artifact) : curated'[k] = Artifact[k]
           /\ \A k \in Keys \ UpsertKeys(Artifact) : curated'[k] = curated[k]
<1>1. /\ phase = "classified" /\ toWrite = ChangedKeys(Artifact)
      /\ Upsert([k \in toWrite |-> Artifact[k]])
    BY DEF ApplyUpserts, Classified
<1>2. /\ ChangedKeys(Artifact) \subseteq UpsertKeys(Artifact) /\ UpsertKeys(Artifact) \subseteq Keys
      /\ \A k \in UpsertKeys(Artifact) : Artifact[k] \in Rows
    BY <1>1, ToWriteIs, ArtifactIs DEF UpsertKeys
<1>3. \A k \in Keys : curated'[k] = IF k \in toWrite THEN Artifact[k] ELSE curated[k]
    BY <1>1 DEF Upsert
<1>4. ASSUME NEW k \in UpsertKeys(Artifact), k \notin toWrite
      PROVE  curated[k] = Artifact[k]
    <2>1. hashState[k] = RowHash[Artifact[k]]
        BY <1>1, <1>4 DEF ChangedKeys
    <2> QED BY <1>2, <2>1, RecordedRowIsThere DEF IInv, TypeOK
<1> QED BY <1>1, <1>2, <1>3, <1>4

(* The upserts. *)
LEMMA RowsUpserted ==
    ASSUME NoCollisions, IInv, IInv', CaughtUp, RowsInv, Quiet, ApplyUpserts
    PROVE  RowsInv'
<1>1. /\ phase = "classified" /\ phase' = "upserted" /\ UNCHANGED <<first, next, wal, crashes>>
    BY DEF ApplyUpserts, sourceVars, limits
<1>2. /\ Released' = Released /\ Released \in 0..Len(wal) /\ Len(wal) \in Nat
      /\ \A n \in 0..Len(wal) : Replica(n)' = Replica(n)
      /\ first - 1 \in 0..Len(wal) /\ next - 1 \in 0..Len(wal)
      /\ Artifact' = Artifact
    BY <1>1, QuietStays
<1>3. /\ \A k \in UpsertKeys(Artifact) : k \in Keys /\ curated'[k] = Artifact[k]
                                         /\ Artifact[k] = Replica(next - 1)[k]
      /\ \A k \in Keys \ UpsertKeys(Artifact) : curated'[k] = curated[k]
    BY <1>1, UpsertsDo, ArtifactIs DEF RowsInv, UpsertKeys
<1>4. next - 1 \in Released..Len(wal)
    BY <1>1, <1>2, ReleasedBetween
<1>5. NothingLost'
    <2>1. ASSUME NEW k \in Keys
          PROVE  \E n \in Released..Len(wal) : curated'[k] = Replica(n)[k]
        <3>1. CASE k \in UpsertKeys(Artifact)
            BY <1>3, <1>4, <3>1
        <3>2. CASE k \notin UpsertKeys(Artifact)
            BY <1>3, <3>2 DEF RowsInv, NothingLost
        <3> QED BY <3>1, <3>2
    <2>2. \A n \in Released..Len(wal) : n \in 0..Len(wal)
        BY <1>2
    <2>3. \A k \in Keys : \E n \in Released'..Len(wal)' : curated'[k] = Replica(n)'[k]
        BY <1>1, <1>2, <2>1, <2>2
    <2> QED BY <2>3 DEF NothingLost
<1>6. Upserted'
    BY <1>2, <1>3 DEF Upserted, UpsertKeys
<1>7. Applied'
    BY <1>1 DEF Applied
<1>8. Uncrashed'
    <2>1. Replica(first - 1)' = Replica(first - 1)
        BY <1>1, <1>2
    <2>2. crashes = 0 => curated = Replica(first - 1)
        BY <1>1 DEF RowsInv, Uncrashed
    <2> QED BY <1>1, <1>2, <1>3, <2>1, <2>2 DEF Uncrashed, UpsertKeys
<1> QED BY <1>1, <1>5, <1>6, <1>7, <1>8 DEF RowsInv, Classified

(* The deletes, which complete the artifact. *)
LEMMA RowsDeleted ==
    ASSUME NoCollisions, IInv, IInv', CaughtUp, RowsInv, Quiet, ApplyDeletes
    PROVE  RowsInv'
<1>1. /\ phase = "upserted" /\ phase' = "applied" /\ UNCHANGED <<first, next, wal, crashes>>
      /\ Delete(DeletedKeys(Artifact) \ {}, DeletedKeys(Artifact) \ {})
    BY DEF ApplyDeletes, DeleteAllBut, sourceVars, runVars, limits
<1>2. /\ Released' = Released /\ Released \in 0..Len(wal) /\ Len(wal) \in Nat
      /\ \A n \in 0..Len(wal) : Replica(n)' = Replica(n)
      /\ first - 1 \in 0..Len(wal) /\ next - 1 \in 0..Len(wal)
    BY <1>1, QuietStays
<1>3. Released \in (first - 1)..(next - 1)
    BY <1>1, ReleasedBetween
<1>4. \A k \in Keys : /\ k \in DeletedKeys(Artifact) => curated'[k] = Absent
                      /\ k \notin DeletedKeys(Artifact) => curated'[k] = curated[k]
    BY <1>1 DEF Delete
<1>5. \A k \in DOMAIN Artifact : k \in Keys /\ Artifact[k] = Replica(next - 1)[k]
    BY <1>1, ArtifactIs
<1>6. \A k \in DOMAIN Artifact : curated'[k] = Replica(next - 1)[k]
    <2>1. ASSUME NEW k \in DOMAIN Artifact
          PROVE  curated'[k] = Artifact[k]
        <3>1. CASE k \in UpsertKeys(Artifact)
            BY <1>1, <1>4, <1>5, <3>1 DEF RowsInv, Upserted, DeletedKeys
        <3>2. CASE k \notin UpsertKeys(Artifact)
            BY <1>4, <1>5, <3>2 DEF UpsertKeys, DeletedKeys
        <3> QED BY <3>1, <3>2
    <2> QED BY <1>5, <2>1
<1>7. \A k \in Keys \ DOMAIN Artifact :
        /\ curated'[k] = curated[k]
        /\ \A n \in (first - 1)..(next - 1) : Replica(n)[k] = Replica(next - 1)[k]
    BY <1>1, <1>4, ArtifactIs DEF DeletedKeys
<1>8. ASSUME NEW k \in Keys
      PROVE  \E n \in (next - 1)..Len(wal) : curated'[k] = Replica(n)[k]
    <2>0. next - 1 \in (next - 1)..Len(wal)
        BY <1>2
    <2>1. CASE k \in DOMAIN Artifact
        BY <1>6, <2>0, <2>1
    <2>2. CASE k \notin DOMAIN Artifact
        <3>1. PICK n \in Released..Len(wal) : curated[k] = Replica(n)[k]
            BY DEF RowsInv, NothingLost
        <3>2. n \in (first - 1)..(next - 1) \/ n \in (next - 1)..Len(wal)
            BY <1>2, <1>3
        <3> QED BY <1>7, <2>0, <2>2, <3>1, <3>2
    <2> QED BY <2>1, <2>2
<1>9. Applied' /\ NothingLost'
    <2>1. \A n \in (next - 1)..Len(wal) : n \in 0..Len(wal) /\ n \in Released..Len(wal)
        BY <1>2, <1>3
    <2>2. \A k \in Keys : \E n \in (next' - 1)..Len(wal)' : curated'[k] = Replica(n)'[k]
        BY <1>1, <1>2, <1>8, <2>1
    <2>3. \A k \in Keys : \E n \in Released'..Len(wal)' : curated'[k] = Replica(n)'[k]
        BY <1>1, <1>2, <1>8, <2>1
    <2> QED BY <2>2, <2>3 DEF Applied, NothingLost
<1>10. Uncrashed'
    <2> SUFFICES ASSUME crashes = 0 PROVE curated' = Replica(next - 1)'
        BY <1>1 DEF Uncrashed
    <2>1. ASSUME NEW k \in Keys
          PROVE  curated'[k] = Replica(next - 1)[k]
        <3>1. CASE k \in DOMAIN Artifact
            BY <1>6, <3>1
        <3>2. CASE k \notin DOMAIN Artifact
            <4>1. curated[k] = Replica(first - 1)[k]
                BY <1>1, <3>2 DEF RowsInv, Uncrashed, UpsertKeys
            <4>2. first - 1 \in (first - 1)..(next - 1)
                BY <1>2, <1>3
            <4> QED BY <1>7, <3>2, <4>1, <4>2
        <3> QED BY <3>1, <3>2
    <2>2. Replica(next - 1) \in Tables
        BY <1>2, ReplicaGoesOn, Numbers DEF IInv
    <2>3. curated' \in [Keys -> Rows \cup {Absent}]
        BY DEF IInv, TypeOK, TargetTypeOK
    <2>4. curated' = Replica(next - 1)
        BY <2>1, <2>2, <2>3 DEF Tables
    <2> QED BY <1>1, <1>2, <2>4
<1> QED BY <1>1, <1>9, <1>10 DEF RowsInv, Classified, Upserted

(* What the run leaves behind when it moves the position: it has applied    *)
(* all of it, and nothing it has applied comes again but what is empty.     *)
LEMMA RowsReleased ==
    ASSUME IInv, IInv', CaughtUp, RowsInv, PositionMoves
    PROVE  RowsInv'
<1>1. /\ phase = "applied" /\ UNCHANGED <<curated, wal, crashes>>
      /\ Position' = Max2(Position, Resolved)
      /\ \/ phase' = "idle"
         \/ UNCHANGED <<phase, next>>
    BY DEF PositionMoves, EndRun, targetVars, sourceVars, limits
<1>2. /\ Len(wal) \in Nat /\ DOMAIN wal = 1..Len(wal) /\ Position \in Nat
      /\ first \in Nat \ {0} /\ next \in Nat \ {0} /\ first <= next /\ next <= Len(wal) + 1
      /\ \A i \in DOMAIN wal : i \in Nat \ {0} /\ CommitLsn(i) \in Nat
    BY <1>1, Numbers DEF IInv, RunInOrder
<1>3. \A n \in 0..Len(wal) : Replica(n)' = Replica(n)
    <2>1. WalOK /\ WalOK' /\ WalKept
        BY <1>1, <1>2 DEF IInv, TypeOK, WalOK, WalKept
    <2> QED BY <2>1, ReplicaStays
<1> DEFINE r == Released'
<1>4. r \in (first - 1)..(next - 1) /\ \A i \in first..(next - 1) : i > r => ~AcceptedTxn(i)
    <2>1. Resolved \in Nat /\ \A i \in Accepted(first, next - 1) : CommitLsn(i) < Resolved
        BY <1>1, ResolvedIs
    <2>2. \A i \in DOMAIN wal : i >= next => Resolved <= CommitLsn(i) /\ Position <= CommitLsn(i)
        BY <1>1, ResolvedIs DEF CaughtUp
    <2>3. \A i \in DOMAIN wal : i < first => CommitLsn(i) < Position
        BY <1>1 DEF IInv, RunInOrder
    <2>4. r \in 0..Len(wal) /\ \A i \in DOMAIN wal : i <= r <=> CommitLsn(i) < Position'
        <3>1. ReleasedRight'
            BY ReleasedThen DEF IInv
        <3>2. \A i : CommitLsn(i)' = CommitLsn(i)
            BY <1>1 DEF CommitLsn
        <3> QED BY <1>1, <3>1, <3>2 DEF ReleasedRight
    <2>5. Position <= Position' /\ Resolved <= Position' /\ Position' \in {Position, Resolved}
        BY <1>1, <1>2, <2>1 DEF Max2
    <2> DEFINE q == Position'
               res == Resolved
    <2>6. /\ q \in Nat /\ Position <= q /\ res <= q /\ res \in Nat /\ q \in {Position, res}
          /\ \A i \in Accepted(first, next - 1) : CommitLsn(i) < res
          /\ \A i \in DOMAIN wal : i >= next => res <= CommitLsn(i) /\ Position <= CommitLsn(i)
          /\ \A i \in DOMAIN wal : i <= r <=> CommitLsn(i) < q
        BY <1>2, <2>1, <2>2, <2>4, <2>5
    <2>7. r \in Nat /\ r <= Len(wal)
        BY <1>2, <2>4
    <2> HIDE DEF r, q, res
    <2>8. \A i \in DOMAIN wal : (i < first => i <= r) /\ (i >= next => ~(i <= r))
        BY <1>2, <2>3, <2>6
    <2>9. first - 1 <= r
        <3>1. first # 1 => first - 1 \in DOMAIN wal /\ first - 1 < first
            BY <1>2
        <3>2. first # 1 => first - 1 <= r
            BY <2>8, <3>1
        <3> QED BY <1>2, <2>7, <3>2
    <2>10. r <= next - 1
        <3>1. r = 0 \/ r \in DOMAIN wal
            BY <1>2, <2>7
        <3> QED BY <1>2, <2>7, <2>8, <3>1
    <2>11. ASSUME NEW i \in first..(next - 1), AcceptedTxn(i)
           PROVE  i <= r
        <3>1. i \in Accepted(first, next - 1) /\ i \in DOMAIN wal
            BY <1>2, <2>11 DEF Accepted, AcceptedTxn
        <3> QED BY <1>2, <2>6, <3>1
    <2>12. \A i \in first..(next - 1) : i \in Nat
        BY <1>2
    <2> QED BY <1>2, <2>7, <2>9, <2>10, <2>11, <2>12
<1>5. \A k \in Keys : Replica(r)[k] = Replica(next - 1)[k]
    <2> HIDE DEF r
    <2>1. /\ WalOK /\ r \in 0..Len(wal) /\ next - 1 \in r..Len(wal) /\ next - 1 \in r..(next - 1)
          /\ \A i \in (r + 1)..(next - 1) : i \in first..(next - 1) /\ i > r
        BY <1>2, <1>4, Numbers DEF IInv
    <2>2. ASSUME NEW k \in Keys
          PROVE  \A i \in (r + 1)..(next - 1) : ~TouchesKey(i, k)
        BY <1>4, <2>1 DEF TouchesKey
    <2> QED BY <2>1, <2>2, ReplicaRests
<1>6. NothingLost'
    <2>1. ASSUME NEW k \in Keys
          PROVE  \E n \in r..Len(wal) : n \in 0..Len(wal) /\ curated[k] = Replica(n)[k]
        <3>1. PICK n \in (next - 1)..Len(wal) : curated[k] = Replica(n)[k]
            BY <1>1 DEF RowsInv, Applied
        <3> HIDE DEF r
        <3>2. n \in 0..Len(wal) /\ n \in r..Len(wal)
            BY <1>2, <1>4
        <3> QED BY <3>1, <3>2
    <2> QED BY <1>1, <1>3, <2>1 DEF NothingLost
<1>7. Applied'
    <2>1. ASSUME UNCHANGED <<phase, next>>, NEW k \in Keys
          PROVE  \E n \in (next' - 1)..Len(wal)' : curated'[k] = Replica(n)'[k]
        <3>1. PICK n \in (next - 1)..Len(wal) : curated[k] = Replica(n)[k]
            BY <1>1 DEF RowsInv, Applied
        <3>2. n \in 0..Len(wal)
            BY <1>2
        <3> QED BY <1>1, <1>3, <2>1, <3>1, <3>2
    <2> QED BY <1>1, <2>1 DEF Applied
<1>8. Uncrashed'
    <2> SUFFICES ASSUME crashes = 0 PROVE Uncrashed'
        BY <1>1 DEF Uncrashed
    <2>1. curated = Replica(next - 1)
        BY <1>1 DEF RowsInv, Uncrashed
    <2>2. next - 1 \in 0..Len(wal)
        BY <1>2
    <2>3. CASE phase' = "idle"
        <3>1. Replica(r) = Replica(next - 1)
            <4> HIDE DEF r
            <4>1. r \in 0..Len(wal) /\ WalOK
                BY <1>2, <1>4, Numbers DEF IInv
            <4>2. Replica(r) \in Tables /\ Replica(next - 1) \in Tables
                BY <2>2, <4>1, ReplicaGoesOn
            <4> QED BY <1>5, <4>2 DEF Tables
        <3>2. Replica(Released)' = Replica(r)
            <4>1. r \in 0..Len(wal)
                BY <1>2, <1>4
            <4> QED BY <1>3, <4>1
        <3> QED BY <1>1, <2>1, <2>3, <3>1, <3>2 DEF Uncrashed
    <2>4. CASE UNCHANGED <<phase, next>>
        <3>1. Replica(next - 1)' = Replica(next - 1)
            BY <1>3, <2>2, <2>4
        <3> QED BY <1>1, <2>1, <2>4, <3>1 DEF Uncrashed
    <2> QED BY <1>1, <2>3, <2>4
<1> QED BY <1>1, <1>6, <1>7, <1>8 DEF RowsInv, Classified, Upserted

(* An empty target is the source before its first transaction. *)
LEMMA InitRows == Init => RowsInv
<1> SUFFICES ASSUME Init PROVE RowsInv
    OBVIOUS
<1>1. /\ IInv /\ phase = "idle" /\ Len(wal) = 0
      /\ curated = [k \in Keys |-> Absent]
    BY InitIInv DEF Init, NoRun, TargetInit
<1>2. Released = 0
    BY <1>1, ReleasedIs DEF IInv
<1>3. Replica(0) = EmptyTable
    BY <1>1, ReplicaGoesOn, Numbers DEF IInv
<1>4. curated = Replica(Released)
    BY <1>1, <1>2, <1>3 DEF EmptyTable
<1>5. NothingLost
    <2>1. Released \in Released..Len(wal)
        BY <1>1, <1>2
    <2> QED BY <1>4, <2>1 DEF NothingLost
<1> QED BY <1>1, <1>4, <1>5 DEF RowsInv, Classified, Upserted, Applied, Uncrashed

(* Every step of the pipeline keeps the rows. *)
LEMMA RowsKeep ==
    ASSUME NoCollisions, IInv, IInv', CaughtUp, RowsInv, [OnTime]_vars
    PROVE  RowsInv'
<1>1. CASE PositionMoves
    BY <1>1, RowsReleased
<1>2. CASE Quiet
    <2>1. CASE Source \/ UNCHANGED vars
        <3>1. UNCHANGED <<curated, hashState, phase, first, next, toWrite, crashes>>
            BY <2>1 DEF Source, SourceCommit, OtherWal, vars, targetVars, runVars, limits
        <3> QED BY <1>2, <3>1, RowsRest
    <2>2. CASE StartExtract \/ ReadStep \/ Land \/ Classify \/ Crash
        BY <1>2, <2>2, RowsWait
    <2>3. CASE ApplyUpserts
        BY <1>2, <2>3, RowsUpserted
    <2>4. CASE ApplyDeletes
        BY <1>2, <2>4, RowsDeleted
    <2>5. CASE SaveCheckpoint \/ AckSlot
        BY <2>5, PositionSteps, RowsReleased
    <2> QED BY <2>1, <2>2, <2>3, <2>4, <2>5, Steps DEF IInv, Next, Stage
<1> QED BY <1>1, <1>2, QuietSteps

(* What holds when deadlines pass at the top of the read loop only. *)
THEOREM OnTimeSpecCaughtUp == OnTimeSpec => [](IInv /\ CaughtUp)
<1>1. Init => IInv /\ CaughtUp
    BY InitIInv DEF Init, NoRun, CaughtUp
<1>2. IInv /\ CaughtUp /\ [OnTime]_vars => (IInv /\ CaughtUp)'
    <2> SUFFICES ASSUME IInv, CaughtUp, [OnTime]_vars PROVE IInv' /\ CaughtUp'
        OBVIOUS
    <2>1. IInv'
        <3>1. CASE OnTime
            <4>1. Source \/ StartExtract \/ ReadStep \/ Stage \/ PositionMoves \/ Crash
                BY <3>1, Steps, PositionSteps DEF IInv, Next
            <4> QED BY <4>1, SourceKeeps, StartKeeps, ReadKeeps, StageKeeps, PositionKeeps,
                       CrashKeeps
        <3>2. CASE UNCHANGED vars
            BY <3>2, StutterKeeps
        <3> QED BY <3>1, <3>2
    <2> QED BY <2>1, OnTimeCaughtUp
<1> QED BY <1>1, <1>2, PTL DEF OnTimeSpec

(***************************************************************************)
(* A checkpoint moved to the window's end passes no transaction: the late  *)
(* deadline, which the code lets pass after reached_window_end is noted    *)
(* and before the commit is decoded (extract.py:354-361), is the only way. *)
(***************************************************************************)
THEOREM OnTimeSpecWindowEndMeansCaughtUp == OnTimeSpec => []WindowEndMeansCaughtUp
<1>1. IInv /\ CaughtUp => WindowEndMeansCaughtUp
    <2> SUFFICES ASSUME IInv, CaughtUp, phase = "applied", reached,
                        NEW i \in first..Len(wal), CommitLsn(i) < window
                 PROVE  i < next
        BY DEF WindowEndMeansCaughtUp
    <2>1. /\ i \in DOMAIN wal /\ i \in Nat /\ next \in Nat /\ window \in Nat
          /\ CommitLsn(i) \in Nat
        <3>1. i \in DOMAIN wal
            BY Numbers DEF IInv
        <3> QED BY <3>1, Numbers DEF IInv
    <2>2. i >= next => window <= CommitLsn(i)
        BY <2>1 DEF CaughtUp
    <2> QED BY <2>1, <2>2
<1> QED BY OnTimeSpecCaughtUp, <1>1, PTL

(* Rows, without collisions. *)
THEOREM OnTimeSpecRows == ASSUME NoCollisions PROVE OnTimeSpec => []RowsInv
<1>1. Init => RowsInv
    BY InitRows
<1>2. RowsInv /\ IInv /\ CaughtUp /\ (IInv /\ CaughtUp)' /\ [OnTime]_vars => RowsInv'
    BY RowsKeep
<1> QED BY <1>1, <1>2, OnTimeSpecCaughtUp, PTL DEF OnTimeSpec

(***************************************************************************)
(* Nothing is lost: whatever stage fails, wherever a read is cut short,    *)
(* whichever of checkpoint and slot moves first, no row is older than the  *)
(* transactions that will not be read again.                               *)
(***************************************************************************)
THEOREM OnTimeSpecNothingLost == ASSUME NoCollisions PROVE OnTimeSpec => []NothingLost
BY OnTimeSpecRows, PTL DEF RowsInv

(***************************************************************************)
(* Between two runs, and as long as none has failed halfway, the curated   *)
(* table as a whole is the source after some number of transactions, those *)
(* with an invalid row left out entirely.                                  *)
(***************************************************************************)
THEOREM OnTimeSpecCuratedIsASourceState ==
    ASSUME NoCollisions PROVE OnTimeSpec => []CuratedIsASourceState
<1>1. IInv /\ RowsInv => CuratedIsASourceState
    <2> SUFFICES ASSUME IInv, RowsInv, phase = "idle", crashes = 0
                 PROVE  \E n \in Released..Len(wal) : curated = Replica(n)
        BY DEF CuratedIsASourceState
    <2>1. curated = Replica(Released)
        BY DEF RowsInv, Uncrashed
    <2>2. Released \in Released..Len(wal)
        BY ReleasedIs, Numbers DEF IInv
    <2> QED BY <2>1, <2>2
<1> QED BY OnTimeSpecCaughtUp, OnTimeSpecRows, <1>1, PTL
-----------------------------------------------------------------------------
(***************************************************************************)
(* From here on CDC shares the table with the merges of hash diff.  The    *)
(* stages that CDC has in common with LogicalCdc keep its invariant IInv;  *)
(* what has to be shown is what the two pipelines do to each other's rows. *)
(***************************************************************************)
(* Key k had this row after some transaction past the first ones. *)
Had(k, row, from) ==
    \E n \in from..Len(wal) : \E m \in 0..n :
        /\ Snapshot!IsValid(Accumulated(m, m))
        /\ row = Accumulated(m, n)[k]

(* That is what the properties say of the rows of the curated table. *)
LEMMA IsRowOfHad == \A k, from : IsRowOf(k, from) <=> Had(k, curated[k], from)
BY DEF IsRowOf, Had

(* Past fewer transactions it had it as well. *)
LEMMA HadBefore ==
    ASSUME WalOK, NEW b \in Nat, NEW a \in 0..b, NEW k, NEW row, Had(k, row, b)
    PROVE  Had(k, row, a)
<1>1. \A n \in b..Len(wal) : n \in a..Len(wal)
    BY WalTxns
<1> QED BY <1>1 DEF Had

(* It had its row of the replica, and that of a valid source. *)
LEMMA ReplicaHad ==
    ASSUME WalOK, NEW n \in 0..Len(wal), NEW k
    PROVE  /\ Had(k, Replica(n)[k], n)
           /\ Snapshot!IsValid(Accumulated(n, n)) => Had(k, Accumulated(n, n)[k], n)
<1>1. n \in n..Len(wal) /\ 0 \in 0..n /\ n \in 0..n
    BY WalTxns
<1>2. Snapshot!IsValid(Accumulated(0, 0))
    <2>1. Accumulated(0, 0) = EmptyTable
        BY AccumulatedGoesOn
    <2> QED BY <2>1, InvalidAssumption DEF Snapshot!IsValid, EmptyTable
<1> QED BY <1>1, <1>2 DEF Had, Replica

(* Transactions that do not touch k do not end that. *)
LEMMA HadRests ==
    ASSUME WalOK, NEW a \in 0..Len(wal), NEW b \in a..Len(wal), NEW k \in Keys,
           \A i \in (a + 1)..b : ~TouchesKey(i, k),
           NEW row, Had(k, row, a)
    PROVE  Had(k, row, b)
<1>1. Len(wal) \in Nat
    BY WalTxns
<1>2. PICK n \in a..Len(wal) : \E m \in 0..n :
        /\ Snapshot!IsValid(Accumulated(m, m))
        /\ row = Accumulated(m, n)[k]
    BY DEF Had
<1>3. PICK m \in 0..n : /\ Snapshot!IsValid(Accumulated(m, m))
                        /\ row = Accumulated(m, n)[k]
    BY <1>2
<1>4. CASE n >= b
    <2>1. n \in b..Len(wal)
        BY <1>1, <1>4
    <2> QED BY <1>3, <2>1 DEF Had
<1>5. CASE n < b
    <2>1. /\ n \in 0..Len(wal) /\ b \in n..Len(wal) /\ b \in n..b /\ b \in b..Len(wal)
          /\ m \in Nat /\ m <= n /\ m \in 0..b
          /\ \A i \in (n + 1)..b : i \in (a + 1)..b
        BY <1>1, <1>5
    <2>2. Accumulated(m, b)[k] = Accumulated(m, n)[k]
        BY <2>1, AccumulatedRests
    <2> QED BY <1>3, <2>1, <2>2 DEF Had
<1> QED BY <1>1, <1>4, <1>5

(* Nor does a growing WAL. *)
LEMMA HadStays ==
    ASSUME WalOK, WalOK', WalKept
    PROVE  \A k, row : \A from \in Nat : Had(k, row, from) => Had(k, row, from)'
<1>1. Len(wal) \in Nat /\ Len(wal)' \in Nat /\ Len(wal) <= Len(wal)'
    BY DEF WalKept, WalOK
<1>2. ASSUME NEW k, NEW row, NEW from \in Nat, NEW n \in from..Len(wal), NEW m \in 0..n,
             Snapshot!IsValid(Accumulated(m, m)), row = Accumulated(m, n)[k]
      PROVE  Had(k, row, from)'
    <2>1. m \in Nat /\ m \in 0..Len(wal) /\ n \in 0..Len(wal) /\ n \in from..Len(wal)'
        BY <1>1
    <2>2. Accumulated(m, m)' = Accumulated(m, m) /\ Accumulated(m, n)' = Accumulated(m, n)
        BY <2>1, AccumulatedStays
    <2>3. Snapshot!IsValid(Accumulated(m, m))' /\ row = Accumulated(m, n)'[k]
        BY <1>2, <2>2 DEF Snapshot!IsValid
    <2> QED BY <2>1, <2>3 DEF Had
<1> QED BY <1>2 DEF Had
-----------------------------------------------------------------------------
(* The state of the merges is well typed. *)
MergeTypes ==
    /\ mergePhase \in [Merges -> Snapshot!Phases]
    /\ snapshot \in [Merges -> Batches] /\ batch \in [Merges -> Batches]
    /\ unread \in [Merges -> SUBSET Keys] /\ staged \in [Merges -> SUBSET Keys]
    /\ raced \in [Merges -> SUBSET Keys]
    /\ missable \subseteq Keys /\ stale \subseteq Keys
    /\ asOf \in [Merges -> 0..Len(wal)]

Active(p) == mergePhase[p] \in {"merging", "batch read", "deleting"}

(* The snapshot of a merge is the source after at least asOf transactions. *)
FromSource(p, m) ==
    /\ m \in asOf[p]..Len(wal)
    /\ Snapshot!IsValid(Accumulated(m, m))
    /\ snapshot[p] = Snapshot!RowsOf(Accumulated(m, m))

(* A merge works through its snapshot: every row is staged or still unread, *)
(* the batch holds rows of it, and the delete begins when all are staged.   *)
MergeInOrder(p) ==
    /\ mergePhase[p] # "idle" => \E m \in Nat : FromSource(p, m)
    /\ Active(p) => staged[p] \cup unread[p] = DOMAIN snapshot[p]
    /\ DOMAIN batch[p] \subseteq DOMAIN snapshot[p]
    /\ \A k \in DOMAIN batch[p] : batch[p][k] = snapshot[p][k]
    /\ mergePhase[p] # "batch read" => DOMAIN batch[p] = {}
    /\ mergePhase[p] = "deleting" => unread[p] = {}
    /\ mergePhase[p] # "deleting" => raced[p] = {}

MergesInv == MergeTypes /\ \A p \in Merges : MergeInOrder(p)

(* The rows of a valid table make a batch, and give each key its row. *)
LEMMA RowsOfIs ==
    ASSUME NEW table \in Tables, Snapshot!IsValid(table)
    PROVE  /\ Snapshot!RowsOf(table) \in Batches
           /\ \A k \in Keys :
                IF k \in DOMAIN Snapshot!RowsOf(table)
                THEN table[k] = Snapshot!RowsOf(table)[k] ELSE table[k] = Absent
<1> DEFINE K == {j \in Keys : table[j] # Absent}
<1>1. Snapshot!RowsOf(table) = [k \in K |-> table[k]]
    BY DEF Snapshot!RowsOf
<1>2. K \subseteq Keys /\ \A k \in K : table[k] \in Rows
    BY DEF Tables, Snapshot!IsValid
<1> HIDE DEF K
<1>3. [k \in K |-> table[k]] \in [K -> Rows]
    BY <1>2
<1> QED BY <1>1, <1>2, <1>3 DEF Batches, K

(* What a merge would leave under a key, the key had in the source. *)
LEMMA MergedHad ==
    ASSUME WalOK, MergesInv, NEW p \in Merges, mergePhase[p] # "idle", NEW k \in Keys
    PROVE  Had(k, Snapshot!Merged(p, k), asOf[p])
<1>1. PICK m \in Nat : FromSource(p, m)
    BY DEF MergesInv, MergeInOrder
<1>2. asOf[p] \in 0..Len(wal) /\ m \in 0..Len(wal) /\ m \in asOf[p]..Len(wal) /\ asOf[p] \in 0..m
    BY <1>1, WalTxns DEF FromSource, MergesInv, MergeTypes
<1>3. Accumulated(m, m) \in Tables /\ Snapshot!IsValid(Accumulated(m, m))
    BY <1>1, <1>2, AccumulatedGoesOn DEF FromSource
<1>4. Snapshot!Merged(p, k) = Accumulated(m, m)[k]
    BY <1>1, <1>3, RowsOfIs DEF FromSource, Snapshot!Merged
<1>5. Had(k, Snapshot!Merged(p, k), m)
    BY <1>1, <1>2, <1>4, ReplicaHad DEF FromSource
<1> QED BY <1>1, <1>2, <1>5, HadBefore

(* What holds of a merge while the WAL grows and CDC works: an overtaken *)
(* merge counts as one that began with nothing.                          *)
LEMMA MergesStay ==
    ASSUME WalOK, WalOK', WalKept, MergesInv,
           UNCHANGED <<mergePhase, snapshot, unread, batch, staged>>,
           raced' \in [Merges -> SUBSET Keys],
           \A p \in Merges : mergePhase[p] # "deleting" => raced'[p] = raced[p],
           missable' \subseteq Keys, stale' \subseteq Keys,
           asOf' = asOf \/ asOf' = [p \in Merges |-> 0]
    PROVE  MergesInv'
<1>1. Len(wal) \in Nat /\ Len(wal)' \in Nat /\ Len(wal) <= Len(wal)'
    BY DEF WalKept, WalOK
<1>2. \A p \in Merges : asOf[p] \in Nat /\ asOf[p] <= Len(wal)
    BY <1>1 DEF MergesInv, MergeTypes
<1>3. /\ asOf' \in [Merges -> 0..Len(wal)']
      /\ \A p \in Merges : asOf'[p] \in Nat /\ asOf'[p] <= asOf[p]
    <2>1. CASE asOf' = asOf
        <3>1. 0..Len(wal) \subseteq 0..Len(wal)'
            BY <1>1
        <3> QED BY <1>2, <2>1, <3>1 DEF MergesInv, MergeTypes
    <2>2. CASE asOf' = [p \in Merges |-> 0]
        BY <1>1, <1>2, <2>2
    <2> QED BY <2>1, <2>2
<1>4. ASSUME NEW p \in Merges, NEW m \in Nat, FromSource(p, m)
      PROVE  FromSource(p, m)'
    <2>1. m \in 0..Len(wal) /\ m \in (asOf[p])'..Len(wal)'
        BY <1>1, <1>2, <1>3, <1>4 DEF FromSource
    <2>2. Accumulated(m, m)' = Accumulated(m, m)
        BY <2>1, AccumulatedStays
    <2> QED BY <1>4, <2>1, <2>2 DEF FromSource, Snapshot!IsValid, Snapshot!RowsOf
<1>5. ASSUME NEW p \in Merges
      PROVE  MergeInOrder(p)'
    BY <1>4 DEF MergesInv, MergeInOrder, Active
<1>6. MergeTypes'
    BY <1>3 DEF MergesInv, MergeTypes
<1> QED BY <1>5, <1>6 DEF MergesInv
-----------------------------------------------------------------------------
(* What CDC sees of a step of a merge: rows and hashes of the target. *)
LEMMA CdcStill ==
    ASSUME IInv, UNCHANGED cdcVars
    PROVE  /\ WalOK /\ WalOK' /\ WalKept
           /\ phase' = phase /\ Artifact' = Artifact
           /\ Released' = Released /\ Passed' = Passed
           /\ TargetTypeOK' /\ HashStateSound' => IInv'
<1>1. /\ UNCHANGED <<wal, walEnd, slotFlush, checkpoint, phase>>
      /\ UNCHANGED <<start, window, first, next, lastDecoded, reached, toWrite, saved, acked>>
      /\ UNCHANGED <<crashes, timeouts>>
    BY DEF cdcVars
<1>2. WalOK /\ WalOK' /\ WalKept
    BY <1>1, Numbers DEF IInv, WalOK, WalKept
<1>3. Released' = Released /\ Passed' = Passed
    BY <1>1 DEF Released, CommitLsn, Passed
<1>4. Artifact' = Artifact
    BY <1>1 DEF Artifact, EffectiveRows, Latest, NotAfter, DeltaEvents, Accepted, HasChanges, IsValid
<1>5. ASSUME TargetTypeOK', HashStateSound'
      PROVE  IInv'
    <2>1. TypeOK'
        BY <1>1, <1>5 DEF IInv, TypeOK
    <2>2. WalInOrder' /\ RunInOrder' /\ Decoded'
        BY <1>1 DEF IInv, WalInOrder, RunInOrder, Decoded, Position, CommitLsn, EndLsn
    <2>3. WritesItsRows'
        BY <1>1, <1>4 DEF IInv, WritesItsRows, UpsertKeys
    <2> QED BY <1>5, <2>1, <2>2, <2>3 DEF IInv
<1> QED BY <1>1, <1>2, <1>3, <1>4, <1>5

(* Merge p works, and the others see at most the rows it upserts. *)
Works(p) ==
    /\ UNCHANGED cdcVars /\ TargetTypeOK' /\ HashStateSound'
    /\ MergeTypes'
    /\ \A q \in Merges \ {p} :
        /\ UNCHANGED <<mergePhase[q], snapshot[q], unread[q], batch[q], staged[q], asOf[q]>>
        /\ mergePhase[q] # "deleting" => UNCHANGED raced[q]

(* The other merges stay as they are, *)
LEMMA OthersStay ==
    ASSUME IInv, MergesInv, NEW p \in Merges, Works(p), MergeInOrder(p)'
    PROVE  IInv' /\ MergesInv'
<1>1. IInv' /\ WalOK /\ WalOK' /\ WalKept /\ wal' = wal
    BY CdcStill DEF Works, cdcVars
<1>2. ASSUME NEW q \in Merges, q # p
      PROVE  MergeInOrder(q)'
    <2>1. /\ UNCHANGED <<mergePhase[q], snapshot[q], unread[q], batch[q], staged[q], asOf[q]>>
          /\ mergePhase[q] # "deleting" => UNCHANGED raced[q]
          /\ MergeInOrder(q) /\ asOf[q] \in 0..Len(wal)
        BY <1>2 DEF Works, MergesInv, MergeTypes
    <2>2. ASSUME NEW m \in Nat, FromSource(q, m)
          PROVE  FromSource(q, m)'
        <3>1. m \in 0..Len(wal)
            BY <2>1, <2>2, WalTxns, <1>1 DEF FromSource
        <3>2. Accumulated(m, m)' = Accumulated(m, m)
            BY <1>1, <3>1, AccumulatedStays
        <3> QED BY <1>1, <2>1, <2>2, <3>2 DEF FromSource, Snapshot!IsValid, Snapshot!RowsOf
    <2> QED BY <2>1, <2>2 DEF MergeInOrder, Active
<1> QED BY <1>1, <1>2 DEF MergesInv, Works

(* and so does the snapshot p works from, once it has one. *)
LEMMA SnapshotStays ==
    ASSUME IInv, MergesInv, NEW p \in Merges, UNCHANGED cdcVars,
           UNCHANGED <<snapshot, asOf>>, NEW m \in Nat, FromSource(p, m)
    PROVE  FromSource(p, m)'
<1>1. WalOK /\ WalOK' /\ WalKept /\ wal' = wal /\ m \in 0..Len(wal)
    BY CdcStill, WalTxns DEF cdcVars, FromSource, MergesInv, MergeTypes
<1>2. Accumulated(m, m)' = Accumulated(m, m)
    BY <1>1, AccumulatedStays
<1> QED BY <1>1, <1>2 DEF FromSource, Snapshot!IsValid, Snapshot!RowsOf
-----------------------------------------------------------------------------
(* A snapshot is taken. *)
LEMMA ExtractWorks ==
    ASSUME IInv, MergesInv, NEW p \in Merges, MergeExtracts(p)
    PROVE  /\ IInv' /\ MergesInv'
           /\ UNCHANGED <<curated, hashState, raced, missable, stale>>
           /\ ~Active(p)'
           /\ \A q \in Merges \ {p} :
                UNCHANGED <<mergePhase[q], batch[q], staged[q], asOf[q]>>
<1>1. /\ mergePhase[p] \in {"idle", "done"}
      /\ Snapshot!IsValid(SourceTable)
      /\ mergePhase' = [mergePhase EXCEPT ![p] = "landed"]
      /\ snapshot' = [snapshot EXCEPT ![p] = Snapshot!RowsOf(SourceTable)]
      /\ asOf' = [asOf EXCEPT ![p] = Len(wal)]
      /\ UNCHANGED <<curated, hashState, unread, batch, staged, raced, missable, stale>>
      /\ UNCHANGED cdcVars
    BY DEF MergeExtracts, Snapshot!ExtractAndLand, Snapshot!Goto, Snapshot!targetVars
<1>2. /\ WalOK /\ WalOK' /\ WalKept /\ wal' = wal
      /\ Len(wal) \in Nat /\ Len(wal) \in 0..Len(wal) /\ Len(wal) \in Len(wal)..Len(wal)
    BY <1>1, CdcStill, WalTxns DEF cdcVars
<1>3. SourceTable \in Tables /\ SourceTable = Accumulated(Len(wal), Len(wal))
    BY <1>2, AccumulatedGoesOn DEF SourceTable
<1>4. Snapshot!RowsOf(SourceTable) \in Batches
    BY <1>1, <1>3, RowsOfIs
<1>5. TargetTypeOK' /\ HashStateSound'
    BY <1>1, TargetUnchangedSound DEF IInv, TypeOK, targetVars
<1>6. MergeTypes'
    <2>1. "landed" \in Snapshot!Phases
        BY DEF Snapshot!Phases
    <2> QED BY <1>1, <1>2, <1>4, <2>1 DEF MergesInv, MergeTypes
<1>7. Works(p)
    BY <1>1, <1>5, <1>6 DEF Works, MergesInv, MergeTypes
<1>8. mergePhase'[p] = "landed" /\ snapshot'[p] = Snapshot!RowsOf(SourceTable) /\ asOf'[p] = Len(wal)
    BY <1>1 DEF MergesInv, MergeTypes
<1>9. \E m \in Nat : FromSource(p, m)'
    <2>1. \A m \in 0..Len(wal) : Accumulated(m, m)' = Accumulated(m, m)
        <3>1. \A m \in 0..Len(wal) : m \in Nat
            BY <1>2
        <3> QED BY <1>2, <3>1, AccumulatedStays
    <2>2. \A m \in Nat : m = Len(wal) => FromSource(p, m)'
        BY <1>1, <1>2, <1>3, <1>8, <2>1 DEF FromSource, Snapshot!IsValid, Snapshot!RowsOf
    <2> QED BY <1>2, <2>2
<1>10. MergeInOrder(p)'
    <2>1. MergeInOrder(p) /\ batch'[p] = batch[p] /\ raced'[p] = raced[p]
        BY <1>1 DEF MergesInv
    <2>2. DOMAIN batch[p] = {} /\ raced[p] = {}
        BY <1>1, <2>1 DEF MergeInOrder
    <2> QED BY <1>8, <1>9, <2>1, <2>2 DEF MergeInOrder, Active
<1> QED BY <1>1, <1>7, <1>8, <1>10, OthersStay DEF Active, MergesInv, MergeTypes
-----------------------------------------------------------------------------
(* What a merge need not write any more: it has found or written its row, *)
(* or another writer has since its delete began.                          *)
Done(p) == (staged[p] \ DOMAIN batch[p]) \cup raced[p]

(* A merge reads its staging tables and the recorded hashes: a key is done *)
(* with when the hash of its row is recorded.                              *)
LEMMA ReadsWork ==
    ASSUME IInv, MergesInv, NEW p \in Merges, MergeReads(p)
    PROVE  /\ IInv' /\ MergesInv'
           /\ UNCHANGED <<curated, hashState, asOf, missable, stale>>
           /\ mergePhase[p] # "idle"
           /\ \A q \in Merges \ {p} :
                UNCHANGED <<mergePhase[q], batch[q], staged[q], raced[q]>>
           /\ \A k \in Done(p)' :
                \/ Active(p) /\ k \in Done(p)
                \/ k \in DOMAIN snapshot[p] /\ hashState[k] = RowHash[snapshot[p][k]]
<1>0. /\ UNCHANGED <<curated, hashState, snapshot, asOf, missable, stale>>
      /\ UNCHANGED cdcVars
    BY DEF MergeReads, Snapshot!StartMerge, Snapshot!ReadBatch, Snapshot!StartDelete,
           Snapshot!targetVars
<1>1. /\ TargetTypeOK' /\ HashStateSound'
      /\ {"landed", "merging", "batch read", "deleting"} \subseteq Snapshot!Phases
      /\ snapshot[p] \in Batches /\ DOMAIN snapshot[p] \subseteq Keys
      /\ MergeInOrder(p)
    BY <1>0, TargetUnchangedSound, BatchRow
    DEF IInv, TypeOK, targetVars, Snapshot!Phases, MergesInv, MergeTypes
<1>2. Snapshot!NoRows \in Batches /\ DOMAIN Snapshot!NoRows = {}
    BY EmptyBatch DEF Snapshot!NoRows
<1>3. (\E m \in Nat : FromSource(p, m)) => (\E m \in Nat : FromSource(p, m)')
    BY <1>0, SnapshotStays
<1>4. asOf' \in [Merges -> 0..Len(wal)']
    BY <1>0 DEF MergesInv, MergeTypes, cdcVars
<1>5. CASE Snapshot!StartMerge(p)
    <2>1. /\ mergePhase[p] = "landed"
          /\ mergePhase' = [mergePhase EXCEPT ![p] = "merging"]
          /\ unread' = [unread EXCEPT ![p] = DOMAIN snapshot[p]]
          /\ staged' = [staged EXCEPT ![p] = {}]
          /\ batch' = [batch EXCEPT ![p] = Snapshot!NoRows]
          /\ raced' = raced
        BY <1>5 DEF Snapshot!StartMerge, Snapshot!Goto
    <2>2. Works(p)
        BY <1>0, <1>1, <1>2, <1>4, <2>1 DEF Works, MergesInv, MergeTypes
    <2>3. /\ mergePhase'[p] = "merging" /\ unread'[p] = DOMAIN snapshot[p] /\ staged'[p] = {}
          /\ batch'[p] = Snapshot!NoRows /\ raced'[p] = {}
        BY <1>1, <2>1 DEF MergesInv, MergeTypes, MergeInOrder
    <2>4. MergeInOrder(p)'
        BY <1>0, <1>1, <1>2, <1>3, <2>1, <2>3 DEF MergeInOrder, Active
    <2> QED BY <1>0, <2>1, <2>2, <2>3, <2>4, OthersStay DEF Works, Done
<1>6. CASE Snapshot!ReadBatch(p)
    <2>1. PICK c \in SUBSET unread[p] :
            /\ mergePhase[p] = "merging"
            /\ mergePhase' = [mergePhase EXCEPT ![p] = "batch read"]
            /\ unread' = [unread EXCEPT ![p] = @ \ c]
            /\ staged' = [staged EXCEPT ![p] = @ \cup c]
            /\ batch' = [batch EXCEPT ![p] =
                    [k \in Snapshot!Unrecorded(snapshot[p], c) |-> snapshot[p][k]]]
            /\ raced' = raced
        BY <1>6 DEF Snapshot!ReadBatch, Snapshot!Goto, Snapshot!NextBatches
    <2> DEFINE new == Snapshot!Unrecorded(snapshot[p], c)
    <2>2. /\ new \subseteq c /\ c \subseteq DOMAIN snapshot[p]
          /\ \A k \in c \ new : hashState[k] = RowHash[snapshot[p][k]]
        BY <1>1, <2>1 DEF Snapshot!Unrecorded, MergeInOrder, Active
    <2> HIDE DEF new
    <2>3. [k \in new |-> snapshot[p][k]] \in Batches
        <3>1. \A k \in new : snapshot[p][k] \in Rows
            BY <1>1, <2>2, BatchRow
        <3>2. [k \in new |-> snapshot[p][k]] \in [new -> Rows] /\ new \in SUBSET Keys
            BY <1>1, <2>2, <3>1
        <3> QED BY <3>2 DEF Batches
    <2>4. batch' = [batch EXCEPT ![p] = [k \in new |-> snapshot[p][k]]]
        BY <2>1 DEF new
    <2>5. Works(p)
        <3>1. c \subseteq Keys
            BY <1>1, <2>2
        <3>2. unread' \in [Merges -> SUBSET Keys] /\ staged' \in [Merges -> SUBSET Keys]
            BY <2>1, <3>1 DEF MergesInv, MergeTypes
        <3>3. batch' \in [Merges -> Batches]
            <4> DEFINE read == [k \in new |-> snapshot[p][k]]
            <4>1. read \in Batches /\ batch' = [batch EXCEPT ![p] = read]
                BY <2>3, <2>4
            <4> HIDE DEF read
            <4> QED BY <4>1 DEF MergesInv, MergeTypes
        <3>4. MergeTypes'
            BY <1>0, <1>1, <1>4, <2>1, <3>2, <3>3 DEF MergesInv, MergeTypes
        <3> QED BY <1>0, <1>1, <2>1, <3>4 DEF Works, MergesInv, MergeTypes
    <2>6. /\ mergePhase'[p] = "batch read" /\ unread'[p] = unread[p] \ c
          /\ staged'[p] = staged[p] \cup c
          /\ batch'[p] = [k \in new |-> snapshot[p][k]] /\ raced'[p] = {}
          /\ DOMAIN batch[p] = {} /\ raced[p] = {}
          /\ staged[p] \cup unread[p] = DOMAIN snapshot[p]
        BY <1>1, <2>1, <2>4 DEF MergesInv, MergeTypes, MergeInOrder, Active
    <2>7. MergeInOrder(p)'
        BY <1>0, <1>1, <1>3, <2>1, <2>2, <2>6 DEF MergeInOrder, Active
    <2>8. \A k \in Done(p)' :
            \/ Active(p) /\ k \in Done(p)
            \/ k \in DOMAIN snapshot[p] /\ hashState[k] = RowHash[snapshot[p][k]]
        BY <2>1, <2>2, <2>6 DEF Done, Active
    <2> QED BY <1>0, <2>1, <2>5, <2>7, <2>8, OthersStay DEF Works
<1>7. CASE Snapshot!StartDelete(p)
    <2>1. /\ mergePhase[p] = "merging" /\ unread[p] = {}
          /\ mergePhase' = [mergePhase EXCEPT ![p] = "deleting"]
          /\ raced' = [raced EXCEPT ![p] = {}]
          /\ UNCHANGED <<unread, batch, staged>>
        BY <1>7 DEF Snapshot!StartDelete, Snapshot!Goto
    <2>2. Works(p)
        BY <1>0, <1>1, <1>4, <2>1 DEF Works, MergesInv, MergeTypes
    <2>3. mergePhase'[p] = "deleting" /\ raced'[p] = {} /\ raced[p] = {}
        BY <1>1, <2>1 DEF MergesInv, MergeTypes, MergeInOrder
    <2>4. MergeInOrder(p)'
        BY <1>0, <1>1, <1>3, <2>1, <2>3 DEF MergeInOrder, Active
    <2> QED BY <1>0, <2>1, <2>2, <2>3, <2>4, OthersStay DEF Works, Done, Active, MergesInv, MergeTypes
<1> QED BY <1>5, <1>6, <1>7 DEF MergeReads

(* A batch is written.  Were another merge under way, it would be empty. *)
LEMMA UpsertsWork ==
    ASSUME IInv, MergesInv, NEW p \in Merges, MergeUpserts(p)
    PROVE  /\ IInv' /\ MergesInv'
           /\ mergePhase[p] = "batch read"
           /\ DOMAIN batch[p] \subseteq Keys
           /\ \A k \in DOMAIN batch[p] : curated'[k] = Snapshot!Merged(p, k)
           /\ \A k \in Keys \ DOMAIN batch[p] : curated'[k] = curated[k]
           /\ asOf' = asOf
           /\ stale' = IF Overtaken(p) THEN stale \cup DOMAIN batch[p] ELSE stale \ DOMAIN batch[p]
           /\ missable' = IF phase = "upserted" THEN missable \cup DOMAIN batch[p] ELSE missable
           /\ \A k \in Done(p)' : k \in Done(p) \/ k \in DOMAIN batch[p]
           /\ \A q \in Merges \ {p} :
                /\ UNCHANGED <<mergePhase[q], batch[q], staged[q]>>
                /\ raced'[q] \subseteq raced[q] \cup DOMAIN batch[p]
                /\ Active(q) => DOMAIN batch[p] = {}
<1>1. /\ mergePhase[p] = "batch read"
      /\ Upsert(batch[p])
      /\ raced' = [q \in Merges |->
            IF mergePhase[q] = "deleting" THEN raced[q] \cup DOMAIN batch[p] ELSE raced[q]]
      /\ batch' = [batch EXCEPT ![p] = Snapshot!NoRows]
      /\ mergePhase' = [mergePhase EXCEPT ![p] = "merging"]
      /\ UNCHANGED <<snapshot, unread, staged, asOf>>
      /\ stale' = IF Overtaken(p) THEN stale \cup DOMAIN batch[p] ELSE stale \ DOMAIN batch[p]
      /\ missable' = IF phase = "upserted" THEN missable \cup DOMAIN batch[p] ELSE missable
      /\ UNCHANGED cdcVars
    BY DEF MergeUpserts, Snapshot!WriteBatch, Snapshot!Upsert, Upsert, Snapshot!Goto
<1>2. \A q \in Merges \ {p} : mergePhase[q] \in {"idle", "landed"} \/ DOMAIN batch[p] = {}
    <2>1. [q \in Merges |-> {}] = [q \in Merges |->
            IF q = p \/ mergePhase[q] \in {"idle", "landed"} THEN {} ELSE {} \cup DOMAIN batch[p]]
        BY DEF MergeUpserts, Snapshot!WriteBatch, Snapshot!Touch
    <2> QED BY <2>1
<1>3. batch[p] \in Batches /\ DOMAIN batch[p] \subseteq Keys /\ MergeInOrder(p)
    BY BatchRow DEF MergesInv, MergeTypes
<1>4. TargetTypeOK' /\ HashStateSound'
    BY <1>1, <1>3, UpsertSound DEF IInv, TypeOK
<1>5. Snapshot!NoRows \in Batches /\ DOMAIN Snapshot!NoRows = {}
    BY EmptyBatch DEF Snapshot!NoRows
<1>6. (\E m \in Nat : FromSource(p, m)) => (\E m \in Nat : FromSource(p, m)')
    BY <1>1, SnapshotStays
<1>7. asOf' \in [Merges -> 0..Len(wal)']
    BY <1>1 DEF MergesInv, MergeTypes, cdcVars
<1>8. MergeTypes'
    <2>1. "merging" \in Snapshot!Phases
        BY DEF Snapshot!Phases
    <2> QED BY <1>1, <1>3, <1>5, <1>7, <2>1 DEF MergesInv, MergeTypes
<1>9. Works(p)
    BY <1>1, <1>4, <1>8 DEF Works, MergesInv, MergeTypes
<1>10. /\ mergePhase'[p] = "merging" /\ batch'[p] = Snapshot!NoRows
       /\ raced'[p] = {} /\ raced[p] = {} /\ staged'[p] = staged[p]
    BY <1>1, <1>3 DEF MergesInv, MergeTypes, MergeInOrder
<1>11. MergeInOrder(p)'
    BY <1>1, <1>3, <1>5, <1>6, <1>10 DEF MergeInOrder, Active
<1>12. \A k \in DOMAIN batch[p] : curated'[k] = Snapshot!Merged(p, k)
    BY <1>1, <1>3 DEF Upsert, MergeInOrder, Snapshot!Merged
<1>13. \A k \in Keys \ DOMAIN batch[p] : curated'[k] = curated[k]
    BY <1>1 DEF Upsert
<1>14. \A k \in Done(p)' : k \in Done(p) \/ k \in DOMAIN batch[p]
    BY <1>5, <1>10 DEF Done
<1>15. \A q \in Merges \ {p} :
            /\ UNCHANGED <<mergePhase[q], batch[q], staged[q]>>
            /\ raced'[q] \subseteq raced[q] \cup DOMAIN batch[p]
            /\ Active(q) => DOMAIN batch[p] = {}
    BY <1>1, <1>2, <1>9 DEF Works, Active
<1>16. IInv' /\ MergesInv'
    BY <1>9, <1>11, OthersStay
<1> QED BY <1>1, <1>3, <1>12, <1>13, <1>14, <1>15, <1>16

(* The rows that are not staged are deleted, but for rows others upserted *)
(* meanwhile.                                                             *)
LEMMA DeletesWork ==
    ASSUME IInv, MergesInv, NEW p \in Merges, MergeDeletes(p)
    PROVE  /\ IInv' /\ MergesInv'
           /\ mergePhase[p] = "deleting" /\ ~Active(p)'
           /\ staged[p] \subseteq Done(p)
           /\ UNCHANGED <<asOf, missable>>
           /\ stale' = IF Overtaken(p) THEN stale \cup (Keys \ staged[p]) ELSE {}
           /\ \E gone \in SUBSET (Keys \ staged[p]) :
                /\ \A k \in gone : curated'[k] = Snapshot!Merged(p, k)
                /\ \A k \in Keys \ gone : curated'[k] = curated[k]
                /\ Keys \ gone \subseteq Done(p)
                /\ \A q \in Merges \ {p} : Active(q) => gone = {}
           /\ \A q \in Merges \ {p} :
                UNCHANGED <<mergePhase[q], batch[q], staged[q], raced[q]>>
<1>1. /\ mergePhase[p] = "deleting"
      /\ mergePhase' = [mergePhase EXCEPT ![p] = "done"]
      /\ staged' = [staged EXCEPT ![p] = {}]
      /\ raced' = [raced EXCEPT ![p] = {}]
      /\ UNCHANGED <<snapshot, unread, batch, asOf, missable>>
      /\ stale' = IF Overtaken(p) THEN stale \cup (Keys \ staged[p]) ELSE {}
      /\ UNCHANGED cdcVars
    BY DEF MergeDeletes, Snapshot!DeleteMissing, Snapshot!Goto
<1>2. PICK missed \in SUBSET ((Keys \ staged[p]) \cap raced[p]) : \E kept \in SUBSET missed :
        /\ Delete((Keys \ staged[p]) \ missed, (Keys \ staged[p]) \ kept)
        /\ [q \in Merges |-> {}] = [q \in Merges |->
            IF q = p \/ mergePhase[q] \in {"idle", "landed"} THEN {}
            ELSE {} \cup ((Keys \ staged[p]) \ missed)]
    BY DEF MergeDeletes, Snapshot!DeleteMissing, Snapshot!Delete, Delete, Snapshot!Touch
<1> DEFINE gone == (Keys \ staged[p]) \ missed
<1>3. PICK kept \in SUBSET missed : Delete(gone, (Keys \ staged[p]) \ kept)
    BY <1>2
<1>4. \A q \in Merges \ {p} : mergePhase[q] \in {"idle", "landed"} \/ gone = {}
    <2> HIDE DEF gone
    <2>1. [q \in Merges |-> {}] = [q \in Merges |->
            IF q = p \/ mergePhase[q] \in {"idle", "landed"} THEN {} ELSE {} \cup gone]
        BY <1>2 DEF gone
    <2> QED BY <2>1
<1>5. /\ MergeInOrder(p) /\ staged[p] = DOMAIN snapshot[p] /\ DOMAIN batch[p] = {}
    BY <1>1 DEF MergesInv, MergeInOrder, Active
<1>6. TargetTypeOK' /\ HashStateSound'
    BY <1>3, DeleteSound DEF IInv, TypeOK
<1>7. MergeTypes'
    <2>1. "done" \in Snapshot!Phases
        BY DEF Snapshot!Phases
    <2>2. asOf' \in [Merges -> 0..Len(wal)']
        BY <1>1 DEF MergesInv, MergeTypes, cdcVars
    <2>3. stale' \subseteq Keys
        BY <1>1 DEF MergesInv, MergeTypes
    <2> QED BY <1>1, <2>1, <2>2, <2>3 DEF MergesInv, MergeTypes
<1>8. /\ Works(p)
      /\ \A q \in Merges \ {p} : UNCHANGED <<mergePhase[q], batch[q], staged[q], raced[q]>>
    BY <1>1, <1>6, <1>7 DEF Works, MergesInv, MergeTypes
<1>9. mergePhase'[p] = "done" /\ raced'[p] = {} /\ staged'[p] = {}
    BY <1>1 DEF MergesInv, MergeTypes
<1>10. MergeInOrder(p)'
    <2>1. (\E m \in Nat : FromSource(p, m)) => (\E m \in Nat : FromSource(p, m)')
        BY <1>1, SnapshotStays
    <2> QED BY <1>1, <1>5, <1>9, <2>1 DEF MergeInOrder, Active
<1>11. /\ \A k \in gone : curated'[k] = Snapshot!Merged(p, k)
       /\ \A k \in Keys \ gone : curated'[k] = curated[k]
    BY <1>3, <1>5 DEF Delete, Snapshot!Merged
<1>12. staged[p] \subseteq Done(p) /\ Keys \ gone \subseteq Done(p)
    BY <1>5 DEF Done
<1>13. \A q \in Merges \ {p} : Active(q) => gone = {}
    BY <1>4 DEF Active
<1>14. IInv' /\ MergesInv' /\ ~Active(p)'
    BY <1>8, <1>9, <1>10, OthersStay DEF Active
<1>15. gone \in SUBSET (Keys \ staged[p])
    OBVIOUS
<1> HIDE DEF gone
<1> QED BY <1>1, <1>8, <1>11, <1>12, <1>13, <1>14, <1>15
-----------------------------------------------------------------------------
(* The invariant of the two pipelines.  The slot begins past the first    *)
(* commit, so that a merge CDC has overtaken is not one as old as nothing.*)
ReconciliationIInv ==
    /\ IInv /\ MergesInv
    /\ Released > 0
    /\ phase # "upserted" => missable = {}
    /\ RowsComeFromTheSource

(* Where the run in progress is in the WAL. *)
LEMMA PassedIs ==
    ASSUME IInv
    PROVE  /\ WalOK /\ Len(wal) \in Nat /\ first \in Nat \ {0} /\ next \in Nat \ {0}
           /\ Released \in 0..Len(wal) /\ Passed \in Released..Len(wal)
           /\ phase \in {"idle", "reading", "read", "landed"} => Passed = Released
           /\ phase \notin {"idle", "reading", "read", "landed"} => Passed = Max2(Released, next - 1)
           /\ phase # "idle" => first - 1 \in 0..(next - 1) /\ next - 1 \in 0..Len(wal)
           /\ phase # "idle" /\ phase # "applied" => Released = first - 1
           /\ phase \in {"classified", "upserted"} => Passed = next - 1
<1>1. /\ WalOK /\ Len(wal) \in Nat /\ DOMAIN wal = 1..Len(wal)
      /\ first \in Nat \ {0} /\ next \in Nat \ {0} /\ Position \in Nat
      /\ \A i \in DOMAIN wal : CommitLsn(i) \in Nat
      /\ phase \in Phases
    BY Numbers DEF IInv, TypeOK
<1>2. Released \in 0..Len(wal) /\ \A i \in DOMAIN wal : i <= Released <=> CommitLsn(i) < Position
    BY ReleasedIs DEF IInv
<1>3. phase # "idle" => /\ first <= next /\ next <= Len(wal) + 1
                        /\ first - 1 \in 0..(next - 1) /\ next - 1 \in 0..Len(wal)
    BY <1>1 DEF IInv, RunInOrder
<1>4. ASSUME phase # "idle", phase # "applied"
      PROVE  Released = first - 1
    <2>1. \A i \in DOMAIN wal : i <= Released <=> i < first
        <3>1. ~saved /\ ~acked
            BY <1>4 DEF IInv, RunInOrder
        <3>2. \A i \in DOMAIN wal : /\ i < first => CommitLsn(i) < Position
                                    /\ i >= first => Position <= CommitLsn(i)
            BY <1>4, <3>1 DEF IInv, RunInOrder
        <3> QED BY <1>1, <1>2, <3>2
    <2> DEFINE r == Released
    <2>2. r \in 0..Len(wal) /\ \A i \in 1..Len(wal) : i <= r <=> i < first
        BY <1>1, <1>2, <2>1
    <2> HIDE DEF r
    <2>3. r \in Nat /\ r <= Len(wal) /\ first <= Len(wal) + 1 /\ first >= 1
        BY <1>1, <1>3, <1>4, <2>2
    <2>4. ~(r < first - 1)
        <3> SUFFICES ASSUME r < first - 1 PROVE FALSE
            OBVIOUS
        <3>1. r + 1 \in 1..Len(wal) /\ r + 1 < first /\ ~(r + 1 <= r)
            BY <1>1, <2>3
        <3> QED BY <2>2, <3>1
    <2>5. ~(r > first - 1)
        <3> SUFFICES ASSUME r > first - 1 PROVE FALSE
            OBVIOUS
        <3>1. r \in 1..Len(wal) /\ ~(r < first) /\ r <= r
            BY <1>1, <2>3
        <3> QED BY <2>2, <3>1
    <2>6. r = first - 1
        BY <1>1, <2>3, <2>4, <2>5
    <2> QED BY <2>6 DEF r
<1> DEFINE r == Released
<1>5. /\ phase \in {"idle", "reading", "read", "landed"} => Passed = r
      /\ phase \notin {"idle", "reading", "read", "landed"} => Passed = Max2(r, next - 1)
    BY <1>1 DEF Passed, Phases
<1>6. r \in 0..Len(wal) /\ (phase # "idle" /\ phase # "applied" => r = first - 1)
    BY <1>2, <1>4
<1> HIDE DEF r
<1>7. /\ Passed \in r..Len(wal)
      /\ phase \in {"classified", "upserted"} => Passed = next - 1
    BY <1>1, <1>3, <1>5, <1>6 DEF Max2
<1> QED BY <1>1, <1>3, <1>5, <1>6, <1>7 DEF r

(* A position that does not move back releases no fewer transactions. *)
LEMMA ReleasedGrows ==
    ASSUME IInv, IInv', WalKept, Position <= Position'
    PROVE  Released <= Released'
<1>1. /\ Len(wal) \in Nat /\ DOMAIN wal = 1..Len(wal) /\ Position \in Nat
      /\ \A i \in DOMAIN wal : CommitLsn(i) \in Nat
    BY Numbers DEF IInv
<1>2. Released \in 0..Len(wal) /\ \A i \in DOMAIN wal : i <= Released <=> CommitLsn(i) < Position
    BY ReleasedIs DEF IInv
<1>3. ReleasedRight' /\ WalNumbers'
    BY ReleasedThen, WalNumbersThen DEF IInv
<1>4. Position' \in Nat
    BY DEF IInv, TypeOK, Position, Max2
<1>5. CASE Released \in DOMAIN wal
    <2>1. PICK i \in DOMAIN wal : i = Released
        BY <1>5
    <2>2. i \in Nat /\ CommitLsn(i) \in Nat /\ CommitLsn(i) < Position
        BY <1>1, <1>2, <2>1
    <2>3. i \in DOMAIN wal' /\ CommitLsn(i)' = CommitLsn(i)
        BY DEF WalKept, CommitLsn
    <2>4. i <= Released' <=> CommitLsn(i)' < Position'
        BY <1>3, <2>3 DEF ReleasedRight
    <2>5. i <= Released'
        BY <1>1, <1>4, <2>2, <2>3, <2>4
    <2> QED BY <2>1, <2>5
<1>6. CASE Released = 0
    BY <1>3, <1>6 DEF ReleasedRight, WalNumbers
<1> QED BY <1>1, <1>2, <1>5, <1>6

(* The steps of the source and of a run before it moves the position. *)
Waits == Source \/ StartExtract \/ ReadStep \/ Land \/ Classify

LEMMA WaitsQuiet ==
    ASSUME IInv, Waits \/ ApplyUpserts \/ RacedDeletes \/ Crash
    PROVE  IInv' /\ Quiet
<1>1. CASE Source
    <2>1. IInv'
        BY <1>1, SourceKeeps
    <2>2. ~PositionMoves
        <3>1. walEnd' = walEnd + 1 /\ walEnd \in Nat
            BY <1>1, Numbers DEF Source, SourceCommit, OtherWal, IInv
        <3> QED BY <3>1 DEF PositionMoves, sourceVars
    <2>3. [OnTime]_vars
        BY <1>1 DEF OnTime
    <2> QED BY <2>1, <2>2, <2>3, QuietSteps
<1>2. CASE StartExtract \/ ReadStep \/ Land \/ Classify \/ ApplyUpserts \/ RacedDeletes \/ Crash
    <2>1. UNCHANGED <<wal, slotFlush, checkpoint>>
        BY <1>2 DEF StartExtract, ReadStep, Land, Classify, ApplyUpserts, RacedDeletes,
                    DeleteAllBut, Crash, sourceVars
    <2>2. Quiet
        BY <2>1, Numbers DEF IInv, Quiet, WalKept, Position, Max2
    <2> QED BY <1>2, <2>2, StartKeeps, ReadKeeps, StageKeeps, CrashKeeps DEF Stage
<1> QED BY <1>1, <1>2 DEF Waits

(* The position, which only moves on. *)
LEMMA PositionGrows ==
    ASSUME IInv, PositionMoves
    PROVE  IInv' /\ WalKept /\ Position <= Position'
<1>1. phase = "applied" /\ UNCHANGED wal /\ Position' = Max2(Position, Resolved)
    BY DEF PositionMoves, sourceVars
<1>2. Position \in Nat /\ Resolved \in Nat
    BY <1>1, ResolvedIs, Numbers DEF IInv
<1>3. Position <= Position'
    BY <1>1, <1>2 DEF Max2
<1>4. WalKept
    BY <1>1, Numbers DEF WalKept, IInv
<1> QED BY <1>3, <1>4, PositionKeeps
-----------------------------------------------------------------------------
(* Rows that are kept, or were the source's, are the source's. *)
LEMMA RowsStay ==
    ASSUME WalOK, WalOK', WalKept, RowsComeFromTheSource,
           \A k \in Keys : curated'[k] = curated[k] \/ Had(k, curated'[k], 0)
    PROVE  RowsComeFromTheSource'
<1>1. ASSUME NEW k \in Keys
      PROVE  IsRowOf(k, 0)'
    <2>1. Had(k, curated'[k], 0)
        <3>1. Had(k, curated[k], 0)
            BY IsRowOfHad DEF RowsComeFromTheSource
        <3> QED BY <3>1
    <2>2. \A row : Had(k, row, 0) => Had(k, row, 0)'
        BY HadStays
    <2> QED BY <2>1, <2>2 DEF IsRowOf, Had
<1> QED BY <1>1 DEF RowsComeFromTheSource

(* The upserts of CDC write rows of the replica. *)
LEMMA CdcUpsertsDo ==
    ASSUME IInv, MergesInv, CdcUpserts
    PROVE  /\ IInv' /\ Quiet /\ MergesInv'
           /\ phase = "classified" /\ phase' = "upserted" /\ UNCHANGED <<wal, first, next>>
           /\ UNCHANGED <<mergePhase, batch, staged, asOf, missable>>
           /\ stale' = stale \ toWrite
           /\ toWrite \subseteq UpsertKeys(Artifact) /\ toWrite \subseteq Keys
           /\ \A k \in toWrite : curated'[k] = Replica(next - 1)[k]
           /\ \A k \in Keys \ toWrite : curated'[k] = curated[k]
           /\ \A p \in Merges : raced'[p] \subseteq raced[p] \cup toWrite
<1>1. /\ ApplyUpserts /\ phase = "classified" /\ phase' = "upserted"
      /\ UNCHANGED <<wal, first, next>>
      /\ Upsert([k \in toWrite |-> Artifact[k]])
      /\ raced' = [p \in Merges |->
            IF mergePhase[p] = "deleting" THEN raced[p] \cup toWrite ELSE raced[p]]
      /\ stale' = stale \ toWrite
      /\ UNCHANGED <<mergePhase, snapshot, unread, batch, staged, asOf, missable>>
    BY DEF CdcUpserts, ApplyUpserts, sourceVars
<1>2. IInv' /\ Quiet /\ WalOK /\ WalOK' /\ WalKept
    <2>1. IInv' /\ Quiet
        BY <1>1, WaitsQuiet
    <2> QED BY <2>1 DEF IInv, TypeOK, WalOK, Quiet
<1>3. /\ toWrite \subseteq UpsertKeys(Artifact) /\ toWrite \subseteq Keys
      /\ \A k \in toWrite : Artifact[k] = Replica(next - 1)[k]
    BY <1>1, ArtifactIs DEF IInv, WritesItsRows, UpsertKeys
<1>4. /\ \A k \in toWrite : curated'[k] = Replica(next - 1)[k]
      /\ \A k \in Keys \ toWrite : curated'[k] = curated[k]
    BY <1>1, <1>3 DEF Upsert
<1>5. MergesInv'
    <2>1. raced' \in [Merges -> SUBSET Keys]
        BY <1>1, <1>3 DEF MergesInv, MergeTypes
    <2>2. missable' \subseteq Keys /\ stale' \subseteq Keys
        BY <1>1 DEF MergesInv, MergeTypes
    <2> QED BY <1>1, <1>2, <2>1, <2>2, MergesStay
<1> QED BY <1>1, <1>2, <1>3, <1>4, <1>5

(* The deletes of CDC remove rows the replica has not, and may miss those *)
(* of merges.                                                             *)
LEMMA CdcDeletesDo ==
    ASSUME IInv, MergesInv, CdcDeletes
    PROVE  /\ IInv' /\ Quiet /\ MergesInv'
           /\ phase = "upserted" /\ phase' = "applied" /\ UNCHANGED <<wal, first, next>>
           /\ UNCHANGED mergeVars
           /\ missable' = {}
           /\ \E gone \in SUBSET DeletedKeys(Artifact) :
                /\ DeletedKeys(Artifact) \ gone \subseteq missable
                /\ stale' = stale \ gone
                /\ \A k \in gone : k \in Keys /\ curated'[k] = Replica(next - 1)[k]
                /\ \A k \in Keys \ gone : curated'[k] = curated[k]
<1>1. PICK missed \in SUBSET (DeletedKeys(Artifact) \cap missable) :
        /\ \E kept \in SUBSET missed : DeleteAllBut(missed, kept)
        /\ stale' = stale \ (DeletedKeys(Artifact) \ missed)
    BY DEF CdcDeletes
<1>2. PICK kept \in SUBSET missed : DeleteAllBut(missed, kept)
    BY <1>1
<1> DEFINE gone == DeletedKeys(Artifact) \ missed
<1>3. /\ phase = "upserted" /\ phase' = "applied" /\ UNCHANGED <<wal, first, next>>
      /\ Delete(gone, DeletedKeys(Artifact) \ kept)
      /\ missable' = {} /\ UNCHANGED mergeVars
    BY <1>2 DEF DeleteAllBut, CdcDeletes, sourceVars, runVars
<1>4. IInv' /\ Quiet /\ WalOK /\ WalOK' /\ WalKept
    <2>1. RacedDeletes
        BY <1>2 DEF RacedDeletes
    <2>2. IInv' /\ Quiet
        BY <2>1, WaitsQuiet
    <2> QED BY <2>2 DEF IInv, TypeOK, WalOK, Quiet
<1>5. \A k \in gone : k \in Keys /\ Replica(next - 1)[k] = Absent
    <2>1. \A k \in DeletedKeys(Artifact) : k \in DOMAIN Artifact /\ Artifact[k] = Absent
        BY <1>3, ArtifactIs DEF DeletedKeys, UpsertKeys
    <2>2. \A k \in DOMAIN Artifact : k \in Keys /\ Artifact[k] = Replica(next - 1)[k]
        BY <1>3, ArtifactIs
    <2> QED BY <2>1, <2>2
<1>6. /\ \A k \in gone : k \in Keys /\ curated'[k] = Replica(next - 1)[k]
      /\ \A k \in Keys \ gone : curated'[k] = curated[k]
    <2>1. \A k \in Keys : curated'[k] = IF k \in gone THEN Absent ELSE curated[k]
        BY <1>3 DEF Delete
    <2> HIDE DEF gone
    <2> QED BY <1>5, <2>1
<1>7. MergesInv'
    <2>1. stale' \subseteq Keys /\ missable' \subseteq Keys /\ raced' \in [Merges -> SUBSET Keys]
        BY <1>1, <1>3 DEF MergesInv, MergeTypes, mergeVars
    <2> QED BY <1>3, <1>4, <2>1, MergesStay DEF mergeVars
<1>8. /\ gone \in SUBSET DeletedKeys(Artifact)
      /\ DeletedKeys(Artifact) \ gone \subseteq missable
      /\ stale' = stale \ gone
    BY <1>1
<1> HIDE DEF gone
<1> QED BY <1>3, <1>4, <1>6, <1>7, <1>8

(* The keys of a transaction are those of its changes. *)
LEMMA KeysOfAre ==
    ASSUME WalOK, NEW i \in 1..Len(wal)
    PROVE  KeysOf(i) \subseteq Keys /\ \A k : TouchesKey(i, k) => k \in KeysOf(i)
<1>1. \A n \in DOMAIN wal[i].changes : wal[i].changes[n] \in Changes
    BY WalTxns
<1>2. ASSUME NEW k \in KeysOf(i)
      PROVE  k \in Keys
    <2>1. PICK n \in DOMAIN wal[i].changes : \E e \in EventsOf(wal[i].changes[n], n) : k = e.key
        BY DEF KeysOf
    <2>2. Alters(wal[i].changes[n], k)
        BY <1>1, <2>1, EventsOfAre
    <2> QED BY <1>1, <2>2 DEF Alters, Changes
<1>3. ASSUME NEW k, TouchesKey(i, k)
      PROVE  k \in KeysOf(i)
    <2>1. PICK n \in DOMAIN wal[i].changes : Alters(wal[i].changes[n], k)
        BY <1>3 DEF TouchesKey, ChangesKey
    <2>2. \E e \in EventsOf(wal[i].changes[n], n) : e.key = k
        BY <1>1, <2>1, EventsOfAre
    <2> QED BY <2>2 DEF KeysOf
<1> QED BY <1>2, <1>3

(* The position moves: what it passes without applying it stays as it was. *)
LEMMA CdcPositionDoes ==
    ASSUME IInv, MergesInv, CdcPosition
    PROVE  /\ IInv' /\ MergesInv'
           /\ WalKept /\ Released <= Released'
           /\ phase = "applied" /\ UNCHANGED <<curated, hashState, wal>>
           /\ phase' = "idle" \/ (phase' = phase /\ next' = next)
           /\ UNCHANGED <<mergePhase, batch, staged, raced, missable>>
           /\ \E K \in SUBSET Keys :
                /\ \A i \in next..Released' : \A k \in Keys : TouchesKey(i, k) => k \in K
                /\ stale' = stale \cup K
                /\ asOf' = IF K = {} THEN asOf ELSE [p \in Merges |-> 0]
<1>1. PositionMoves
    BY PositionSteps DEF CdcPosition
<1>2. IInv' /\ WalKept /\ Released <= Released' /\ WalOK /\ WalOK'
    <2>1. IInv' /\ WalKept /\ Position <= Position'
        BY <1>1, PositionGrows
    <2> QED BY <2>1, ReleasedGrows DEF IInv, TypeOK, WalOK
<1>3. /\ phase = "applied" /\ UNCHANGED <<curated, hashState, wal>>
      /\ phase' = "idle" \/ (phase' = phase /\ next' = next)
    BY <1>1 DEF PositionMoves, EndRun, targetVars, sourceVars
<1> DEFINE K == UNION {KeysOf(i) : i \in next..Released'}
<1>4. /\ stale' = stale \cup K
      /\ asOf' = IF K = {} THEN asOf ELSE [p \in Merges |-> 0]
      /\ UNCHANGED <<mergePhase, snapshot, unread, batch, staged, raced, missable>>
    BY DEF CdcPosition
<1>5. /\ K \subseteq Keys
      /\ \A i \in next..Released' : \A k \in Keys : TouchesKey(i, k) => k \in K
    <2>1. \A i \in next..Released' : i \in 1..Len(wal)
        <3>1. Released' \in 0..Len(wal) /\ next \in Nat \ {0} /\ Len(wal) \in Nat
            <4>1. ReleasedRight'
                BY <1>2, ReleasedThen DEF IInv
            <4> QED BY <1>3, <4>1, Numbers DEF ReleasedRight, IInv
        <3> QED BY <3>1
    <2>2. \A i \in next..Released' : KeysOf(i) \subseteq Keys /\ \A k : TouchesKey(i, k) => k \in KeysOf(i)
        BY <1>2, <2>1, KeysOfAre
    <2> QED BY <2>2
<1> HIDE DEF K
<1>6. MergesInv'
    <2>1. /\ stale' \subseteq Keys /\ missable' \subseteq Keys /\ raced' \in [Merges -> SUBSET Keys]
          /\ asOf' = asOf \/ asOf' = [p \in Merges |-> 0]
        BY <1>4, <1>5 DEF MergesInv, MergeTypes
    <2> QED BY <1>2, <1>4, <2>1, MergesStay
<1> QED BY <1>2, <1>3, <1>4, <1>5, <1>6
-----------------------------------------------------------------------------
(* The slot begins after the first transaction, which CDC never sees. *)
LEMMA InitReconciles == ReconciliationInit => ReconciliationIInv
<1> SUFFICES ASSUME ReconciliationInit PROVE ReconciliationIInv
    OBVIOUS
<1>1. PICK changes \in Menu : wal = <<[commit |-> 1, changes |-> changes]>>
    BY DEF ReconciliationInit
<1>2. /\ walEnd = 2 /\ slotFlush = 2 /\ checkpoint = 0 /\ phase = "idle"
      /\ start = 0 /\ window = 0 /\ lastDecoded = 0 /\ first = 1 /\ next = 1
      /\ toWrite = {} /\ reached = FALSE /\ saved = FALSE /\ acked = FALSE
      /\ crashes = 0 /\ timeouts = 0
    BY DEF ReconciliationInit, NoRun, NoLsn
<1>3. TargetTypeOK /\ HashStateSound /\ curated = EmptyTable
    BY TargetInitSound DEF ReconciliationInit, TargetInit, EmptyTable
<1>4. MaxLsn \in Nat /\ MaxLsn >= 2 /\ MaxCrashes \in Nat /\ MaxTimeouts \in Nat
    BY BoundsAssumption, FirstCommitAssumption
<1>5. TypeOK
    <2>1. wal \in Seq(Transactions)
        <3>1. [commit |-> 1, changes |-> changes] \in Transactions
            BY <1>4 DEF Transactions
        <3> QED BY <1>1, <3>1
    <2>2. /\ walEnd \in 1..MaxLsn /\ slotFlush \in 1..MaxLsn /\ checkpoint \in 0..MaxLsn
          /\ start \in 0..MaxLsn /\ window \in 0..MaxLsn /\ lastDecoded \in 0..MaxLsn
          /\ first \in 1..MaxLsn /\ next \in 1..MaxLsn
          /\ crashes \in 0..MaxCrashes /\ timeouts \in 0..MaxTimeouts
        BY <1>2, <1>4
    <2>3. phase \in Phases /\ toWrite \subseteq Keys
        BY <1>2 DEF Phases
    <2> QED BY <1>2, <1>3, <2>1, <2>2, <2>3 DEF TypeOK
<1>6. Len(wal) = 1 /\ DOMAIN wal = {1} /\ CommitLsn(1) = 1
    BY <1>1 DEF CommitLsn
<1>7. IInv
    <2>1. WalInOrder
        <3>1. Len(wal) < walEnd
            BY <1>2, <1>6
        <3>2. \A i \in DOMAIN wal : i = 1 /\ CommitLsn(i) = 1
            BY <1>6
        <3> QED BY <1>2, <3>1, <3>2 DEF WalInOrder
    <2>2. RunInOrder /\ Decoded /\ WritesItsRows
        BY <1>2 DEF RunInOrder, Decoded, WritesItsRows
    <2> QED BY <1>3, <1>5, <2>1, <2>2 DEF IInv
<1>8. Released > 0 /\ Len(wal) \in Nat /\ WalOK
    <2>1. Position = 2
        BY <1>2 DEF Position, Max2
    <2>2. Released \in 0..1 /\ (1 <= Released <=> CommitLsn(1) < Position)
        BY <1>6, <1>7, ReleasedIs DEF IInv
    <2> QED BY <1>6, <1>7, <2>1, <2>2, PassedIs
<1>9. MergesInv
    <2>1. /\ mergePhase = [p \in Merges |-> "idle"]
          /\ snapshot = [p \in Merges |-> Snapshot!NoRows]
          /\ batch = [p \in Merges |-> Snapshot!NoRows]
          /\ unread = [p \in Merges |-> {}] /\ staged = [p \in Merges |-> {}]
          /\ raced = [p \in Merges |-> {}] /\ asOf = [p \in Merges |-> 0]
          /\ missable = {} /\ stale = Keys
        BY DEF ReconciliationInit
    <2>2. Snapshot!NoRows \in Batches /\ DOMAIN Snapshot!NoRows = {}
        BY EmptyBatch DEF Snapshot!NoRows
    <2>3. MergeTypes
        <3>1. "idle" \in Snapshot!Phases /\ 0 \in 0..Len(wal)
            BY <1>8 DEF Snapshot!Phases
        <3> QED BY <2>1, <2>2, <3>1 DEF MergeTypes
    <2>4. ASSUME NEW p \in Merges
          PROVE  MergeInOrder(p)
        BY <2>1, <2>2 DEF MergeInOrder, Active
    <2> QED BY <2>3, <2>4 DEF MergesInv
<1>10. RowsComeFromTheSource
    <2>1. ASSUME NEW k \in Keys
          PROVE  Had(k, curated[k], 0)
        <3>1. 0 \in 0..Len(wal) /\ Replica(0) = EmptyTable
            BY <1>8, ReplicaGoesOn
        <3>2. Had(k, Replica(0)[k], 0)
            BY <1>8, <3>1, ReplicaHad
        <3> QED BY <1>3, <3>1, <3>2
    <2> QED BY <2>1, IsRowOfHad DEF RowsComeFromTheSource
<1>11. missable = {}
    BY DEF ReconciliationInit
<1> QED BY <1>7, <1>8, <1>9, <1>10, <1>11 DEF ReconciliationIInv

(* The source, and a run until it writes, *)
LEMMA WaitsReconcile ==
    ASSUME ReconciliationIInv, Waits \/ Crash,
           UNCHANGED mergeVars, stale' = stale,
           IF Crash THEN missable' = {} ELSE missable' = missable
    PROVE  ReconciliationIInv'
<1>1. IInv /\ MergesInv /\ IInv' /\ Quiet /\ WalOK /\ WalOK' /\ WalKept
    <2>1. IInv /\ MergesInv /\ IInv' /\ Quiet
        BY WaitsQuiet DEF ReconciliationIInv
    <2> QED BY <2>1 DEF IInv, TypeOK, WalOK, Quiet
<1>2. /\ UNCHANGED curated
      /\ ~Crash => (phase' = "upserted" <=> phase = "upserted")
      /\ Crash => phase' = "idle"
    BY DEF Waits, Source, SourceCommit, OtherWal, StartExtract, ReadStep, Land, Classify,
           Crash, EndRun, targetVars
<1>3. MergesInv'
    <2>1. /\ missable' \subseteq Keys /\ stale' \subseteq Keys
          /\ raced' \in [Merges -> SUBSET Keys]
        BY <1>1 DEF MergesInv, MergeTypes, mergeVars
    <2> QED BY <1>1, <2>1, MergesStay DEF mergeVars
<1>4. Released' > 0
    BY <1>1, QuietStays DEF ReconciliationIInv
<1>5. RowsComeFromTheSource'
    BY <1>1, <1>2, RowsStay DEF ReconciliationIInv
<1> QED BY <1>1, <1>2, <1>3, <1>4, <1>5 DEF ReconciliationIInv

(* its writes and the position it moves, *)
LEMMA CdcReconciles ==
    ASSUME ReconciliationIInv, CdcUpserts \/ CdcDeletes \/ CdcPosition
    PROVE  ReconciliationIInv'
<1>0. IInv /\ MergesInv /\ RowsComeFromTheSource /\ Released > 0
    BY DEF ReconciliationIInv
<1>1. WalOK /\ Len(wal) \in Nat /\ Released \in Nat
    BY <1>0, PassedIs
<1>2. CASE CdcUpserts \/ CdcDeletes
    <2>1. /\ IInv' /\ Quiet /\ MergesInv' /\ phase # "idle"
          /\ phase' # "upserted" => missable' = {}
        BY <1>0, <1>2, CdcUpsertsDo, CdcDeletesDo
    <2>2. \A k \in Keys : curated'[k] = curated[k] \/ curated'[k] = Replica(next - 1)[k]
        BY <1>0, <1>2, CdcUpsertsDo, CdcDeletesDo
    <2>3. ASSUME NEW k \in Keys
          PROVE  Had(k, Replica(next - 1)[k], 0)
        <3>1. next - 1 \in 0..Len(wal) /\ next - 1 \in Nat /\ 0 \in 0..(next - 1)
            BY <1>0, <2>1, PassedIs
        <3>2. Had(k, Replica(next - 1)[k], next - 1)
            BY <1>1, <3>1, ReplicaHad
        <3> QED BY <1>1, <3>1, <3>2, HadBefore
    <2>4. WalOK' /\ WalKept
        BY <2>1 DEF IInv, TypeOK, WalOK, Quiet
    <2>5. RowsComeFromTheSource'
        BY <1>0, <1>1, <2>2, <2>3, <2>4, RowsStay
    <2>6. Released' > 0
        BY <1>0, <2>1, QuietStays
    <2> QED BY <2>1, <2>5, <2>6 DEF ReconciliationIInv
<1>3. CASE CdcPosition
    <2>1. /\ IInv' /\ MergesInv' /\ WalKept /\ Released <= Released' /\ UNCHANGED curated
          /\ phase' # "upserted" /\ phase # "upserted" /\ missable' = missable
        BY <1>0, <1>3, CdcPositionDoes
    <2>2. Released' > 0
        <3>1. ReleasedRight' /\ WalNumbers'
            BY <2>1, ReleasedThen, WalNumbersThen DEF IInv
        <3>2. Released' \in Nat
            BY <3>1 DEF ReleasedRight, WalNumbers
        <3> QED BY <1>0, <1>1, <2>1, <3>2
    <2>3. WalOK'
        BY <2>1 DEF IInv, TypeOK, WalOK
    <2>4. RowsComeFromTheSource'
        BY <1>0, <1>1, <2>1, <2>3, RowsStay
    <2> QED BY <2>1, <2>2, <2>4 DEF ReconciliationIInv
<1> QED BY <1>2, <1>3

(* and every step of a merge. *)
LEMMA MergesReconcile ==
    ASSUME ReconciliationIInv, NEW p \in Merges, MergeRun(p)
    PROVE  ReconciliationIInv'
<1>0. IInv /\ MergesInv /\ RowsComeFromTheSource /\ Released > 0
    BY DEF ReconciliationIInv
<1>1. IInv' /\ MergesInv'
    BY <1>0, ExtractWorks, ReadsWork, UpsertsWork, DeletesWork DEF MergeRun
<1>2. UNCHANGED cdcVars
    BY DEF MergeRun, MergeExtracts, MergeReads, MergeUpserts, MergeDeletes
<1>3. WalOK /\ WalOK' /\ WalKept /\ Released' = Released /\ phase' = phase
    BY <1>0, <1>2, CdcStill
<1>4. phase' # "upserted" => missable' = {}
    <2>1. missable' = missable \/ phase = "upserted"
        BY <1>0, ExtractWorks, ReadsWork, UpsertsWork, DeletesWork DEF MergeRun
    <2> QED BY <1>3, <2>1 DEF ReconciliationIInv
<1>5. ASSUME NEW k \in Keys
      PROVE  curated'[k] = curated[k] \/ Had(k, curated'[k], 0)
    <2>1. \/ curated'[k] = curated[k]
          \/ mergePhase[p] # "idle" /\ curated'[k] = Snapshot!Merged(p, k)
        <3>1. CASE MergeExtracts(p) \/ MergeReads(p)
            BY <1>0, <3>1, ExtractWorks, ReadsWork
        <3>2. CASE MergeUpserts(p)
            BY <1>0, <3>2, UpsertsWork
        <3>3. CASE MergeDeletes(p)
            <4>1. PICK gone \in SUBSET (Keys \ staged[p]) :
                    /\ \A j \in gone : curated'[j] = Snapshot!Merged(p, j)
                    /\ \A j \in Keys \ gone : curated'[j] = curated[j]
                BY <1>0, <3>3, DeletesWork
            <4> QED BY <1>0, <3>3, <4>1, DeletesWork
        <3> QED BY <3>1, <3>2, <3>3 DEF MergeRun
    <2>2. mergePhase[p] # "idle" => Had(k, Snapshot!Merged(p, k), asOf[p])
        BY <1>0, <1>3, MergedHad
    <2>3. asOf[p] \in Nat /\ 0 \in 0..asOf[p]
        BY <1>0, <1>3, WalTxns DEF MergesInv, MergeTypes
    <2> QED BY <1>3, <2>1, <2>2, <2>3, HadBefore
<1>6. RowsComeFromTheSource'
    BY <1>0, <1>3, <1>5, RowsStay
<1> QED BY <1>0, <1>1, <1>3, <1>4, <1>6 DEF ReconciliationIInv
-----------------------------------------------------------------------------
(* Nothing happens. *)
LEMMA StillReconciles ==
    ASSUME ReconciliationIInv, UNCHANGED allVars
    PROVE  ReconciliationIInv'
<1>0. IInv /\ MergesInv
    BY DEF ReconciliationIInv
<1>1. /\ UNCHANGED cdcVars /\ UNCHANGED <<curated, hashState, missable, stale>>
      /\ UNCHANGED <<mergePhase, snapshot, unread, batch, staged, raced, asOf>>
    BY DEF allVars, vars, mergeVars, cdcVars
<1>2. TargetTypeOK' /\ HashStateSound'
    BY <1>0, <1>1, TargetUnchangedSound DEF IInv, TypeOK, targetVars
<1>3. /\ WalOK /\ WalOK' /\ WalKept /\ IInv'
      /\ Released' = Released /\ phase' = phase
    BY <1>0, <1>1, <1>2, CdcStill
<1>4. MergesInv'
    <2>1. missable' \subseteq Keys /\ stale' \subseteq Keys /\ raced' \in [Merges -> SUBSET Keys]
        BY <1>0, <1>1 DEF MergesInv, MergeTypes
    <2> QED BY <1>0, <1>1, <1>3, <2>1, MergesStay
<1>5. RowsComeFromTheSource'
    BY <1>1, <1>3, RowsStay DEF ReconciliationIInv
<1> QED BY <1>1, <1>3, <1>4, <1>5 DEF ReconciliationIInv

(* The steps of the two pipelines, as the proofs tell them apart. *)
LEMMA ReconciliationSteps ==
    ASSUME IInv, ReconciliationNext
    PROVE  \/ Waits /\ UNCHANGED mergeVars /\ missable' = missable /\ stale' = stale /\ ~Crash
           \/ CdcUpserts \/ CdcDeletes \/ CdcPosition
           \/ Crash /\ UNCHANGED mergeVars /\ missable' = {} /\ stale' = stale
           \/ \E p \in Merges : MergeRun(p)
<1>1. CASE CdcRun \/ ((SourceCommit \/ ReadCommitTooLate) /\ Aside)
    <2>1. ASSUME StartExtract \/ ReadCommit \/ ReadNothing \/ Land \/ Classify
                 \/ SourceCommit \/ ReadCommitTooLate
          PROVE  Waits /\ ~Crash
        <3>1. Waits
            BY <2>1, ReadSteps DEF Waits, Source, IInv
        <3>2. crashes' = crashes /\ crashes \in Nat
            BY <2>1, BoundsAssumption
            DEF StartExtract, ReadCommit, ReadNothing, Land, Classify, SourceCommit,
                ReadCommitTooLate, limits, IInv, TypeOK
        <3> QED BY <3>1, <3>2 DEF Crash
    <2> QED BY <1>1, <2>1 DEF CdcRun, Aside
<1>2. CASE CdcCrash
    BY <1>2 DEF CdcCrash
<1> QED BY <1>1, <1>2 DEF ReconciliationNext, CdcOther

(***************************************************************************)
(* The invariant of the two pipelines holds in every state: however the    *)
(* steps of CDC, the merges and the source interleave.                     *)
(***************************************************************************)
THEOREM ReconciliationSpecIInv == ReconciliationSpec => []ReconciliationIInv
<1>1. ReconciliationIInv /\ [ReconciliationNext]_allVars => ReconciliationIInv'
    <2> SUFFICES ASSUME ReconciliationIInv, [ReconciliationNext]_allVars
                 PROVE  ReconciliationIInv'
        OBVIOUS
    <2>1. CASE UNCHANGED allVars
        BY <2>1, StillReconciles
    <2>2. CASE ReconciliationNext
        <3>1. IInv
            BY DEF ReconciliationIInv
        <3>2. CASE Waits /\ UNCHANGED mergeVars /\ missable' = missable /\ stale' = stale /\ ~Crash
            BY <3>2, WaitsReconcile
        <3>3. CASE Crash /\ UNCHANGED mergeVars /\ missable' = {} /\ stale' = stale
            BY <3>3, WaitsReconcile
        <3>4. CASE CdcUpserts \/ CdcDeletes \/ CdcPosition
            BY <3>4, CdcReconciles
        <3>5. CASE \E p \in Merges : MergeRun(p)
            BY <3>5, MergesReconcile
        <3> QED BY <2>2, <3>1, <3>2, <3>3, <3>4, <3>5, ReconciliationSteps
    <2> QED BY <2>1, <2>2
<1> QED BY InitReconciles, <1>1, PTL DEF ReconciliationSpec

(***************************************************************************)
(* Every variable of the two pipelines keeps to its type; a merge works    *)
(* from as many transactions as there are, at most.                        *)
(***************************************************************************)
THEOREM ReconciliationSpecTypeOK == ReconciliationSpec => []ReconciliationTypeOK
<1>1. ReconciliationIInv => ReconciliationTypeOK
    <2> SUFFICES ASSUME ReconciliationIInv PROVE ReconciliationTypeOK
        OBVIOUS
    <2>1. TypeOK /\ MergeTypes /\ WalOK
        BY PassedIs DEF ReconciliationIInv, IInv, MergesInv
    <2>2. SourceTable \in [Keys -> Rows \cup {Invalid, Absent}]
        <3>1. Len(wal) \in Nat /\ Len(wal) \in 0..Len(wal)
            BY <2>1, WalTxns
        <3>2. SourceTable \in Tables
            BY <2>1, <3>1, AccumulatedGoesOn DEF SourceTable
        <3> QED BY <3>2 DEF Tables
    <2>3. UNION {Batches} \subseteq Batches
        OBVIOUS
    <2>4. [p \in Merges |-> {}] \in [Merges -> SUBSET Keys] /\ 0 \in 0..0
        OBVIOUS
    <2>5. Snapshot!TypeOK
        BY <2>1, <2>2, <2>3, <2>4
        DEF Snapshot!TypeOK, Snapshot!TargetTypeOK, Snapshot!Batches, Batches,
            TypeOK, TargetTypeOK, MergeTypes
    <2> QED BY <2>1, <2>5 DEF ReconciliationTypeOK, MergeTypes
<1> QED BY <1>1, ReconciliationSpecIInv, PTL

(***************************************************************************)
(* Every recorded hash stays that of the row under its key, whichever of   *)
(* the two pipelines wrote last: each may skip rows by the hashes that the *)
(* other has recorded (change_detection.py:19-36).                         *)
(***************************************************************************)
THEOREM ReconciliationSpecHashStateSound == ReconciliationSpec => []HashStateSound
<1>1. ReconciliationIInv => HashStateSound
    BY DEF ReconciliationIInv, IInv
<1> QED BY <1>1, ReconciliationSpecIInv, PTL

(***************************************************************************)
(* Whatever is overtaken, dropped, quarantined or crashes, and whether or  *)
(* not hashes collide: every row of the curated table is one its key had   *)
(* in the source.                                                          *)
(***************************************************************************)
THEOREM ReconciliationSpecRowsComeFromTheSource ==
    ReconciliationSpec => []RowsComeFromTheSource
<1>1. ReconciliationIInv => RowsComeFromTheSource
    BY DEF ReconciliationIInv
<1> QED BY <1>1, ReconciliationSpecIInv, PTL
-----------------------------------------------------------------------------
(***************************************************************************)
(* How recent the rows are.  A run of CDC is behind its reading where it   *)
(* has still to write, and where a merge has written back a row it has to  *)
(* delete; everywhere else a fresh row is past what the run has read.      *)
(***************************************************************************)
Behind ==
    IF phase = "classified" THEN toWrite \cup DeletedKeys(Artifact)
    ELSE IF phase = "upserted" THEN DeletedKeys(Artifact) \ missable ELSE {}

Fresh(k, n) ==
    /\ Had(k, curated[k], Released)
    /\ k \notin Behind => Had(k, curated[k], n)

(* A merge that is not overtaken keeps what it has done with as recent as *)
(* its snapshot, or as what CDC has passed.                               *)
DoneFresh(p) ==
    \A k \in Done(p) : \A n \in Released..asOf[p] : n <= Passed => Fresh(k, n)

FreshInv ==
    /\ \A k \in Keys \ stale : Fresh(k, Passed)
    /\ \A p \in Merges : Active(p) /\ Released <= asOf[p] => DoneFresh(p)

(* A row that its key had late enough is fresh, *)
LEMMA HadIsFresh ==
    ASSUME WalOK, Released \in Nat, NEW n \in Nat, Released <= n, NEW k, Had(k, curated[k], n)
    PROVE  \A m \in Released..n : Fresh(k, m)
<1>1. \A m \in Released..n : m \in 0..n /\ Released \in 0..n
    OBVIOUS
<1> QED BY <1>1, HadBefore DEF Fresh

(* and one that is fresh past n transactions is so past fewer. *)
LEMMA FreshBefore ==
    ASSUME WalOK, Released \in Nat, NEW n \in Nat, NEW k, Fresh(k, n)
    PROVE  \A m \in Released..n : Fresh(k, m)
<1>1. \A m \in Released..n : m \in 0..n
    OBVIOUS
<1> QED BY <1>1, HadBefore DEF Fresh

(***************************************************************************)
(* A step that moves neither the position nor the reading.  Rows of New it *)
(* makes fresh, rows of Kept it leaves as fresh as they were; what is not  *)
(* stale, or done with by a merge, is one or the other.                    *)
(***************************************************************************)
LEMMA FreshFrame ==
    ASSUME FreshInv, IInv, Released' = Released, Passed' = Passed, NEW New, NEW Kept,
           \A k \in New : \A n \in Released..Passed : Fresh(k, n)',
           \A k \in Kept : \A n \in Released..Passed : Fresh(k, n) => Fresh(k, n)',
           \A k \in Keys \ stale' : k \in New \/ (k \in Kept /\ k \notin stale),
           \A p \in Merges : Active(p)' =>
                /\ asOf'[p] = asOf[p] /\ asOf[p] \in Nat
                /\ \A k \in Done(p)' :
                    \/ k \in New
                    \/ k \in Kept /\ Active(p) /\ k \in Done(p)
                    \/ \A n \in Released..asOf[p] : Fresh(k, n)'
    PROVE  FreshInv'
<1>1. /\ Released \in Nat /\ Passed \in Nat /\ Passed \in Released..Passed
    BY PassedIs
<1>2. ASSUME NEW k \in Keys \ stale'
      PROVE  Fresh(k, Passed)'
    <2>1. \A n : n = Passed => n \in Released..Passed
        BY <1>1
    <2>2. \A n : n = Passed => Fresh(k, n)'
        BY <2>1 DEF FreshInv
    <2>3. \A n : n = Passed' => Fresh(k, n)'
        BY <2>2
    <2> QED BY <2>3 DEF Fresh
<1>3. ASSUME NEW p \in Merges, Active(p)', Released' <= asOf'[p]
      PROVE  DoneFresh(p)'
    <2>1. asOf'[p] = asOf[p] /\ asOf[p] \in Nat /\ Released <= asOf[p]
        BY <1>3
    <2>2. ASSUME NEW k \in Done(p)', NEW n \in Released..asOf[p], n <= Passed
          PROVE  Fresh(k, n)'
        <3>1. n \in Released..Passed
            BY <1>1, <2>1, <2>2
        <3>2. CASE k \in New
            BY <3>1, <3>2
        <3>3. CASE k \in Kept /\ Active(p) /\ k \in Done(p)
            <4>1. Fresh(k, n)
                BY <2>1, <2>2, <3>3 DEF FreshInv, DoneFresh
            <4> QED BY <3>1, <3>3, <4>1
        <3>4. CASE \A m \in Released..asOf[p] : Fresh(k, m)'
            BY <3>4
        <3> QED BY <1>3, <3>2, <3>3, <3>4
    <2> QED BY <2>1, <2>2 DEF DoneFresh
<1> QED BY <1>2, <1>3 DEF FreshInv
-----------------------------------------------------------------------------
(* A row that is left alone stays as fresh as it was, *)
LEMMA FreshStays ==
    ASSUME IInv, IInv', WalKept, Released' = Released,
           NEW k, curated'[k] = curated[k], k \in Behind => k \in Behind'
    PROVE  \A n \in Nat : Fresh(k, n) => Fresh(k, n)'
<1>0. WalOK' /\ Released \in Nat
    <2>1. Released \in Nat
        BY PassedIs
    <2> QED BY <2>1 DEF IInv, TypeOK, WalOK
<1>1. WalOK /\ WalOK' /\ Released \in Nat
    BY <1>0, PassedIs
<1>2. PICK row : row = curated[k] /\ row = curated'[k]
    OBVIOUS
<1>3. PICK r \in Nat : r = Released /\ r = Released'
    BY <1>1
<1>4. \A n \in Nat : Had(k, row, n) => Had(k, row, n)'
    BY <1>1, HadStays
<1> QED BY <1>2, <1>3, <1>4 DEF Fresh

(* and one that is written is as fresh as what is written. *)
LEMMA WrittenIsFresh ==
    ASSUME IInv, IInv', WalKept, Released' = Released,
           NEW k, NEW n \in Nat, Released <= n, Had(k, curated'[k], n)
    PROVE  \A m \in Released..n : Fresh(k, m)'
<1>0. WalOK' /\ Released \in Nat
    <2>1. Released \in Nat
        BY PassedIs
    <2> QED BY <2>1 DEF IInv, TypeOK, WalOK
<1>1. WalOK /\ WalOK' /\ Released \in Nat
    BY <1>0, PassedIs
<1>2. PICK row : row = curated'[k]
    OBVIOUS
<1>3. PICK r \in Nat : r = Released /\ r = Released'
    BY <1>1
<1>4. ASSUME NEW m \in r..n
      PROVE  Fresh(k, m)'
    <2>1. m \in 0..n /\ r \in 0..n /\ m \in Nat
        BY <1>3
    <2>2. Had(k, row, m) /\ Had(k, row, r)
        BY <1>1, <1>2, <1>3, <2>1, HadBefore
    <2>3. Had(k, row, m)' /\ Had(k, row, r)'
        BY <1>1, <1>2, <2>1, <2>2, HadStays
    <2> QED BY <1>2, <1>3, <2>3 DEF Fresh
<1> QED BY <1>3, <1>4

(* What a merge is done with, and how old its snapshot is. *)
LEMMA DoneIs ==
    ASSUME IInv, MergesInv, NEW p \in Merges
    PROVE  Done(p) \subseteq Keys /\ asOf[p] \in Nat /\ asOf[p] <= Len(wal)
<1>1. Done(p) \subseteq Keys
    BY DEF Done, MergesInv, MergeTypes
<1>2. asOf[p] \in 0..Len(wal) /\ Len(wal) \in Nat
    BY PassedIs DEF MergesInv, MergeTypes
<1> QED BY <1>1, <1>2

(* A step that writes no row, and neither begins nor advances anything. *)
LEMMA RestsFresh ==
    ASSUME ReconciliationIInv, ReconciliationIInv', FreshInv, WalKept,
           Released' = Released, Passed' = Passed, Behind' = Behind,
           UNCHANGED <<curated, mergePhase, batch, staged, raced, asOf, stale>>
    PROVE  FreshInv'
<1>1. IInv /\ IInv' /\ MergesInv
    BY DEF ReconciliationIInv
<1>2. \A k \in Keys : \A n \in Released..Passed : Fresh(k, n) => Fresh(k, n)'
    <2>1. \A n \in Released..Passed : n \in Nat
        BY <1>1, PassedIs
    <2> QED BY <1>1, <2>1, FreshStays
<1>3. \A p \in Merges : /\ Active(p)' => Active(p)
                        /\ Done(p)' = Done(p) /\ asOf'[p] = asOf[p]
    BY DEF Active, Done
<1>4. \A p \in Merges : Done(p) \subseteq Keys /\ asOf[p] \in Nat
    BY <1>1, DoneIs
<1> DEFINE None == {}
<1>5. /\ \A k \in None : \A n \in Released..Passed : Fresh(k, n)'
      /\ \A k \in Keys \ stale' : k \in None \/ (k \in Keys /\ k \notin stale)
      /\ \A p \in Merges : Active(p)' =>
            /\ asOf'[p] = asOf[p] /\ asOf[p] \in Nat
            /\ \A k \in Done(p)' :
                \/ k \in None
                \/ k \in Keys /\ Active(p) /\ k \in Done(p)
                \/ \A n \in Released..asOf[p] : Fresh(k, n)'
    BY <1>3, <1>4
<1> HIDE DEF None
<1> QED BY <1>1, <1>2, <1>5, FreshFrame

(* The source, and a run that starts, reads and lands. *)
LEMMA WaitsFresh ==
    ASSUME ReconciliationIInv, ReconciliationIInv', FreshInv,
           Source \/ StartExtract \/ ReadStep \/ Land,
           UNCHANGED mergeVars, missable' = missable, stale' = stale
    PROVE  FreshInv'
<1>1. IInv /\ IInv' /\ Quiet /\ WalKept /\ Released' = Released
    <2>1. IInv /\ IInv'
        BY DEF ReconciliationIInv
    <2>2. Quiet
        BY <2>1, WaitsQuiet DEF Waits
    <2> QED BY <2>1, <2>2, QuietStays DEF Quiet
<1>2. UNCHANGED curated
    BY DEF Source, SourceCommit, OtherWal, StartExtract, ReadStep, Land, targetVars
<1>3. CASE Source
    <2>1. phase' = phase /\ next' = next /\ first' = first /\ toWrite' = toWrite
        BY <1>3 DEF Source, SourceCommit, OtherWal, runVars
    <2>2. phase # "idle" => Artifact' = Artifact
        BY <1>1, <2>1, QuietStays
    <2>3. Passed' = Passed
        BY <1>1, <2>1 DEF Passed
    <2>4. Behind' = Behind
        BY <2>1, <2>2 DEF Behind, DeletedKeys, UpsertKeys
    <2> QED BY <1>1, <1>2, <2>3, <2>4, RestsFresh DEF mergeVars
<1>4. CASE StartExtract \/ ReadStep \/ Land
    <2>1. /\ phase \in {"idle", "reading", "read", "landed"}
          /\ phase' \in {"idle", "reading", "read", "landed"}
        BY <1>4 DEF StartExtract, ReadStep, Land
    <2>2. Passed' = Passed /\ Behind' = Behind
        BY <1>1, <2>1 DEF Passed, Behind
    <2> QED BY <1>1, <1>2, <2>2, RestsFresh DEF mergeVars
<1> QED BY <1>3, <1>4

(* Nothing happens. *)
LEMMA StillFresh ==
    ASSUME ReconciliationIInv, ReconciliationIInv', FreshInv, UNCHANGED allVars
    PROVE  FreshInv'
<1>1. /\ UNCHANGED cdcVars /\ UNCHANGED <<curated, missable, stale>>
      /\ UNCHANGED <<mergePhase, batch, staged, raced, asOf>>
    BY DEF allVars, vars, mergeVars, cdcVars
<1>2. /\ WalKept /\ Released' = Released /\ Passed' = Passed /\ Artifact' = Artifact
      /\ phase' = phase /\ toWrite' = toWrite
    BY <1>1, CdcStill DEF cdcVars, ReconciliationIInv
<1>3. Behind' = Behind
    BY <1>1, <1>2 DEF Behind, DeletedKeys, UpsertKeys
<1> QED BY <1>1, <1>2, <1>3, RestsFresh
-----------------------------------------------------------------------------
(* The hashes are read.  What the run has not to write has the row that the *)
(* run has read already: its hash is recorded, or no transaction touches it. *)
LEMMA ClassifyFresh ==
    ASSUME NoCollisions, ReconciliationIInv, ReconciliationIInv', FreshInv, Classify,
           UNCHANGED mergeVars, stale' = stale
    PROVE  FreshInv'
<1>0. IInv /\ IInv' /\ MergesInv
    BY DEF ReconciliationIInv
<1>1. /\ phase = "landed" /\ phase' = "classified" /\ toWrite' = ChangedKeys(Artifact)
      /\ UNCHANGED <<curated, hashState, wal, first, next>>
    BY DEF Classify, targetVars, sourceVars
<1>2. Quiet /\ WalKept
    BY <1>0, WaitsQuiet DEF Waits, Quiet
<1>3. /\ Released' = Released /\ Artifact' = Artifact
      /\ \A n \in 0..Len(wal) : Replica(n)' = Replica(n)
    BY <1>0, <1>1, <1>2, QuietStays
<1>4. /\ WalOK /\ Len(wal) \in Nat /\ first \in Nat \ {0} /\ next \in Nat \ {0}
      /\ Passed = Released /\ Released = first - 1 /\ Released \in 0..Len(wal)
      /\ next - 1 \in 0..Len(wal) /\ Released <= next - 1
    BY <1>0, <1>1, PassedIs
<1>5. Passed' = next - 1
    <2>1. Passed' = Max2(Released', next' - 1)
        BY <1>1 DEF Passed
    <2> QED BY <1>1, <1>3, <1>4, <2>1 DEF Max2
<1>6. Behind = {} /\ Behind' = toWrite' \cup DeletedKeys(Artifact)
    BY <1>1, <1>3 DEF Behind, DeletedKeys, UpsertKeys
<1>7. ASSUME NEW k \in Keys, Had(k, curated[k], Released)
      PROVE  \A n \in Released..(next - 1) : Fresh(k, n)'
    <2>1. CASE k \in Behind'
        <3>1. Had(k, curated[k], Released)'
            BY <1>0, <1>1, <1>2, <1>3, <1>4, <1>7, HadStays DEF IInv, TypeOK, WalOK
        <3> QED BY <2>1, <3>1 DEF Fresh
    <2>2. CASE k \notin Behind'
        <3>1. Had(k, curated[k], next - 1)
            <4>1. CASE k \in DOMAIN Artifact
                <5>1. k \in UpsertKeys(Artifact) /\ k \notin ChangedKeys(Artifact)
                    BY <1>1, <1>6, <2>2, <4>1 DEF DeletedKeys
                <5>2. Artifact[k] \in Rows /\ hashState[k] = RowHash[Artifact[k]]
                    <6>1. Artifact[k] \in Rows \cup {Absent} /\ Artifact[k] # Absent
                        BY <1>0, <1>1, <4>1, <5>1, ArtifactIs DEF UpsertKeys
                    <6> QED BY <5>1, <6>1 DEF ChangedKeys
                <5>3. curated[k] = Artifact[k]
                    BY <1>0, <5>2, RecordedRowIsThere DEF IInv, TypeOK
                <5>4. curated[k] = Replica(next - 1)[k]
                    BY <1>0, <1>1, <4>1, <5>3, ArtifactIs
                <5> QED BY <1>4, <5>4, ReplicaHad
            <4>2. CASE k \notin DOMAIN Artifact
                <5>1. \A i \in first..(next - 1) : ~TouchesKey(i, k)
                    <6>1. next - 1 \in (first - 1)..Len(wal)
                        BY <1>4
                    <6>2. Artifact = EffectiveRows(DeltaEvents(first, next - 1))
                        BY DEF Artifact
                    <6> QED BY <1>4, <4>2, <6>1, <6>2, EffectiveRowsAre
                <5>2. PICK r \in Nat : r = Released
                    BY <1>4
                <5>3. /\ r \in 0..Len(wal) /\ next - 1 \in r..Len(wal)
                      /\ \A i \in (r + 1)..(next - 1) : ~TouchesKey(i, k)
                    BY <1>4, <5>1, <5>2
                <5> QED BY <1>4, <1>7, <5>2, <5>3, HadRests
            <4> QED BY <4>1, <4>2
        <3> QED BY <1>0, <1>1, <1>2, <1>3, <1>4, <3>1, WrittenIsFresh
    <2> QED BY <2>1, <2>2
<1>8. ASSUME NEW k \in Keys \ stale'
      PROVE  Fresh(k, Passed)'
    <2>1. Fresh(k, Passed)
        BY <1>8 DEF FreshInv
    <2>2. Had(k, curated[k], Released)
        BY <2>1 DEF Fresh
    <2>3. \A n : n = next - 1 => Fresh(k, n)'
        BY <1>3, <1>4, <1>7, <2>2
    <2>4. \A n : n = Passed' => Fresh(k, n)'
        BY <1>5, <2>3
    <2> QED BY <2>4 DEF Fresh
<1>9. ASSUME NEW p \in Merges, Active(p)', Released' <= asOf'[p]
       PROVE  DoneFresh(p)'
    <2>1. /\ Active(p) /\ Released <= asOf[p] /\ asOf'[p] = asOf[p] /\ Done(p)' = Done(p)
          /\ Done(p) \subseteq Keys /\ asOf[p] \in Nat
        BY <1>0, <1>3, <1>9, DoneIs DEF Active, Done, mergeVars
    <2>2. ASSUME NEW k \in Done(p)
          PROVE  Had(k, curated[k], Released)
        <3>1. PICK r \in Nat : r = Released
            BY <1>4
        <3>2. r \in Released..asOf[p] /\ r <= Passed
            BY <1>4, <2>1, <3>1
        <3>3. Fresh(k, r)
            BY <2>1, <2>2, <3>2 DEF FreshInv, DoneFresh
        <3> QED BY <3>3 DEF Fresh
    <2>3. ASSUME NEW k \in Done(p)', NEW n \in Released'..asOf'[p], n <= Passed'
          PROVE  Fresh(k, n)'
        <3>1. n \in Released..(next - 1) /\ k \in Keys /\ k \in Done(p)
            BY <1>3, <1>4, <1>5, <2>1, <2>3
        <3> QED BY <1>7, <2>2, <3>1
    <2> QED BY <2>3 DEF DoneFresh
<1> QED BY <1>8, <1>9 DEF FreshInv

(* CDC writes the rows it has read. *)
LEMMA CdcUpsertsFresh ==
    ASSUME ReconciliationIInv, ReconciliationIInv', FreshInv, CdcUpserts
    PROVE  FreshInv'
<1>0. IInv /\ IInv' /\ MergesInv
    BY DEF ReconciliationIInv
<1>1. /\ Quiet /\ WalKept /\ phase = "classified" /\ phase' = "upserted"
      /\ UNCHANGED <<first, next, missable, asOf>> /\ stale' = stale \ toWrite
      /\ missable = {}
      /\ toWrite \subseteq Keys
      /\ \A k \in toWrite : curated'[k] = Replica(next - 1)[k]
      /\ \A k \in Keys \ toWrite : curated'[k] = curated[k]
      /\ \A p \in Merges : Active(p)' = Active(p) /\ Done(p)' \subseteq Done(p) \cup toWrite
    <2>1. Quiet /\ phase = "classified"
        BY <1>0, CdcUpsertsDo
    <2> QED BY <1>0, <2>1, CdcUpsertsDo DEF Quiet, ReconciliationIInv, Active, Done
<1>2. Released' = Released /\ Artifact' = Artifact
    BY <1>0, <1>1, QuietStays
<1>3. /\ WalOK /\ Len(wal) \in Nat /\ next \in Nat \ {0} /\ Released \in Nat
      /\ Passed = next - 1 /\ next - 1 \in 0..Len(wal) /\ Released <= next - 1
    BY <1>0, <1>1, PassedIs
<1>4. Passed' = Passed
    BY <1>1, <1>2 DEF Passed
<1>5. \A k \in toWrite : \A n \in Released..Passed : Fresh(k, n)'
    <2>1. ASSUME NEW k \in toWrite
          PROVE  Had(k, curated'[k], next - 1)
        BY <1>1, <1>3, <2>1, ReplicaHad
    <2>2. next - 1 \in Nat
        BY <1>3
    <2> QED BY <1>0, <1>1, <1>2, <1>3, <2>1, <2>2, WrittenIsFresh
<1> DEFINE Kept == Keys \ toWrite
<1>6. \A k \in Kept : \A n \in Released..Passed : Fresh(k, n) => Fresh(k, n)'
    <2>1. \A k \in Kept : k \in Behind => k \in Behind'
        BY <1>1, <1>2 DEF Behind, DeletedKeys, UpsertKeys
    <2>2. \A n \in Released..Passed : n \in Nat
        BY <1>3
    <2> QED BY <1>0, <1>1, <1>2, <2>1, <2>2, FreshStays
<1>7. \A k \in Keys \ stale' : k \in toWrite \/ (k \in Kept /\ k \notin stale)
    BY <1>1
<1>8. \A p \in Merges : Active(p)' =>
        /\ asOf'[p] = asOf[p] /\ asOf[p] \in Nat
        /\ \A k \in Done(p)' :
            \/ k \in toWrite
            \/ k \in Kept /\ Active(p) /\ k \in Done(p)
            \/ \A n \in Released..asOf[p] : Fresh(k, n)'
    BY <1>0, <1>1, DoneIs
<1> HIDE DEF Kept
<1> QED BY <1>0, <1>2, <1>4, <1>5, <1>6, <1>7, <1>8, FreshFrame

(* CDC deletes the rows that what it has read no longer has.  Those that *)
(* merges have written since it began it may leave.                      *)
LEMMA CdcDeletesFresh ==
    ASSUME ReconciliationIInv, ReconciliationIInv', FreshInv, CdcDeletes
    PROVE  FreshInv'
<1>0. IInv /\ IInv' /\ MergesInv
    BY DEF ReconciliationIInv
<1>1. /\ Quiet /\ WalKept /\ phase = "upserted" /\ phase' = "applied"
      /\ UNCHANGED <<first, next>> /\ UNCHANGED mergeVars
    <2>1. Quiet
        BY <1>0, CdcDeletesDo
    <2> QED BY <1>0, <2>1, CdcDeletesDo DEF Quiet
<1>2. PICK gone \in SUBSET DeletedKeys(Artifact) :
        /\ DeletedKeys(Artifact) \ gone \subseteq missable
        /\ stale' = stale \ gone
        /\ \A k \in gone : k \in Keys /\ curated'[k] = Replica(next - 1)[k]
        /\ \A k \in Keys \ gone : curated'[k] = curated[k]
    BY <1>0, CdcDeletesDo
<1>3. Released' = Released
    BY <1>0, <1>1, QuietStays
<1>4. /\ WalOK /\ Len(wal) \in Nat /\ next \in Nat \ {0} /\ Released \in Nat
      /\ Passed = next - 1 /\ next - 1 \in 0..Len(wal) /\ Released <= next - 1
    BY <1>0, <1>1, PassedIs
<1>5. Passed' = Passed
    BY <1>1, <1>3 DEF Passed
<1>6. \A k \in gone : \A n \in Released..Passed : Fresh(k, n)'
    <2>1. ASSUME NEW k \in gone
          PROVE  Had(k, curated'[k], next - 1)
        BY <1>2, <1>4, <2>1, ReplicaHad
    <2>2. next - 1 \in Nat
        BY <1>4
    <2> QED BY <1>0, <1>1, <1>3, <1>4, <2>1, <2>2, WrittenIsFresh
<1> DEFINE Kept == Keys \ gone
<1>7. \A k \in Kept : \A n \in Released..Passed : Fresh(k, n) => Fresh(k, n)'
    <2>1. \A k \in Kept : k \notin Behind
        BY <1>1, <1>2 DEF Behind
    <2>2. \A n \in Released..Passed : n \in Nat
        BY <1>4
    <2> QED BY <1>0, <1>1, <1>2, <1>3, <2>1, <2>2, FreshStays
<1>8. \A k \in Keys \ stale' : k \in gone \/ (k \in Kept /\ k \notin stale)
    BY <1>2
<1>9. \A p \in Merges : Active(p)' =>
        /\ asOf'[p] = asOf[p] /\ asOf[p] \in Nat
        /\ \A k \in Done(p)' :
            \/ k \in gone
            \/ k \in Kept /\ Active(p) /\ k \in Done(p)
            \/ \A n \in Released..asOf[p] : Fresh(k, n)'
    <2>1. \A p \in Merges : Active(p)' = Active(p) /\ Done(p)' = Done(p) /\ asOf'[p] = asOf[p]
        BY <1>1 DEF Active, Done, mergeVars
    <2> QED BY <1>0, <2>1, DoneIs
<1> HIDE DEF Kept
<1> QED BY <1>0, <1>3, <1>5, <1>6, <1>7, <1>8, <1>9, FreshFrame

(* A run that fails has passed nothing: rows are past what is released. *)
LEMMA CrashFresh ==
    ASSUME ReconciliationIInv, ReconciliationIInv', FreshInv, Crash,
           UNCHANGED mergeVars, stale' = stale
    PROVE  FreshInv'
<1>0. IInv /\ IInv' /\ MergesInv
    BY DEF ReconciliationIInv
<1>1. phase' = "idle" /\ UNCHANGED <<curated, wal>>
    BY DEF Crash, EndRun, targetVars, sourceVars
<1>2. Quiet /\ WalKept
    BY <1>0, WaitsQuiet DEF Quiet
<1>3. Released' = Released
    BY <1>0, <1>2, QuietStays
<1>4. Passed' = Released /\ Behind' = {}
    BY <1>1, <1>3 DEF Passed, Behind
<1>5. WalOK /\ WalOK' /\ Released \in Nat /\ Passed \in Nat /\ Released <= Passed
    <2>1. Released \in Nat /\ Passed \in Nat /\ Released <= Passed /\ WalOK
        BY <1>0, PassedIs
    <2> QED BY <1>0, <2>1 DEF IInv, TypeOK, WalOK
<1>6. ASSUME NEW k \in Keys, Had(k, curated[k], Released)
      PROVE  \A n : n = Released => Fresh(k, n)'
    <2>1. Had(k, curated[k], Released)'
        BY <1>1, <1>2, <1>3, <1>5, <1>6, HadStays
    <2> QED BY <1>3, <2>1 DEF Fresh
<1>7. ASSUME NEW k \in Keys \ stale'
      PROVE  Fresh(k, Passed)'
    <2>1. Fresh(k, Passed)
        BY <1>7 DEF FreshInv
    <2>2. Had(k, curated[k], Released)
        BY <2>1 DEF Fresh
    <2>3. \A n : n = Passed' => Fresh(k, n)'
        BY <1>4, <1>6, <2>2
    <2> QED BY <2>3 DEF Fresh
<1>8. ASSUME NEW p \in Merges, Active(p)', Released' <= asOf'[p]
      PROVE  DoneFresh(p)'
    <2>1. /\ Active(p) /\ Released <= asOf[p] /\ asOf'[p] = asOf[p] /\ Done(p)' = Done(p)
          /\ Done(p) \subseteq Keys /\ asOf[p] \in Nat
        BY <1>0, <1>3, <1>8, DoneIs DEF Active, Done, mergeVars
    <2>2. ASSUME NEW k \in Done(p)', NEW n \in Released'..asOf'[p], n <= Passed'
          PROVE  Fresh(k, n)'
        <3>1. n = Released /\ n \in Released..asOf[p] /\ n <= Passed /\ k \in Keys /\ k \in Done(p)
            BY <1>3, <1>4, <1>5, <2>1, <2>2
        <3>2. Fresh(k, n)
            BY <2>1, <3>1 DEF FreshInv, DoneFresh
        <3>3. Had(k, curated[k], Released)
            BY <3>2 DEF Fresh
        <3> QED BY <1>6, <3>1, <3>3
    <2> QED BY <2>2 DEF DoneFresh
<1> QED BY <1>7, <1>8 DEF FreshInv

(* The position moves.  No transaction it goes past without CDC having read *)
(* it touches a row that is not stale from then on; the merges under way    *)
(* count as overtaken as soon as there is one that touches a row.           *)
LEMMA CdcPositionFresh ==
    ASSUME ReconciliationIInv, ReconciliationIInv', FreshInv, CdcPosition
    PROVE  FreshInv'
<1>0. IInv /\ IInv' /\ MergesInv
    BY DEF ReconciliationIInv
<1>1. /\ WalKept /\ Released <= Released' /\ phase = "applied" /\ UNCHANGED <<curated, wal>>
      /\ phase' = "idle" \/ (phase' = phase /\ next' = next)
      /\ \A p \in Merges : Active(p)' = Active(p) /\ Done(p)' = Done(p)
    <2>1. UNCHANGED <<mergePhase, batch, staged, raced>>
        BY <1>0, CdcPositionDoes
    <2> QED BY <1>0, <2>1, CdcPositionDoes DEF Active, Done
<1>2. PICK K \in SUBSET Keys :
        /\ \A i \in next..Released' : \A k \in Keys : TouchesKey(i, k) => k \in K
        /\ stale' = stale \cup K
        /\ asOf' = IF K = {} THEN asOf ELSE [p \in Merges |-> 0]
    BY <1>0, CdcPositionDoes
<1>3. /\ WalOK /\ WalOK' /\ Len(wal) \in Nat /\ next \in Nat \ {0}
      /\ Released \in 0..Len(wal) /\ Passed \in Released..Len(wal)
      /\ Passed = Max2(Released, next - 1) /\ next - 1 \in 0..Len(wal)
    <2>1. WalOK'
        BY <1>0 DEF IInv, TypeOK, WalOK
    <2> QED BY <1>0, <1>1, <2>1, PassedIs
<1>4. Released' \in 0..Len(wal) /\ Released' > 0
    <2>1. ReleasedRight'
        BY <1>0, ReleasedThen DEF IInv
    <2> QED BY <1>1, <2>1 DEF ReleasedRight, ReconciliationIInv
<1>5. PICK r \in 0..Len(wal) : r = Released
    BY <1>3
<1>6. PICK s \in 0..Len(wal) : s = Released'
    BY <1>4
<1>7. PICK a \in 0..Len(wal) : a = Passed
    BY <1>3, <1>5
<1>8. PICK b \in Nat : b = Passed' /\ s <= b /\ (b = s \/ b = Max2(s, next - 1))
    <2>1. Passed' = Released' \/ Passed' = Max2(Released', next - 1)
        BY <1>1 DEF Passed
    <2> QED BY <1>3, <1>6, <2>1 DEF Max2
<1>9. Behind = {} /\ Behind' = {}
    BY <1>1 DEF Behind
<1>10. r \in Nat /\ s \in Nat /\ a \in Nat /\ r <= s /\ r <= a /\ a = Max2(r, next - 1)
    BY <1>1, <1>3, <1>5, <1>6, <1>7
(* What is past all that CDC had passed is past all that it passes now. *)
<1>11. ASSUME NEW k \in Keys \ K, NEW row, Had(k, row, a)
       PROVE  \A n \in 0..b : Had(k, row, n)
    <2>1. CASE b <= a
        <3>1. \A n \in 0..b : n \in 0..a
            BY <1>8, <1>10, <2>1
        <3> QED BY <1>3, <1>10, <1>11, <3>1, HadBefore
    <2>2. CASE b > a
        <3>1. b = s /\ b \in a..Len(wal)
            BY <1>3, <1>8, <1>10, <2>2 DEF Max2
        <3>2. \A i \in (a + 1)..b : i \in next..Released'
            BY <1>3, <1>6, <1>10, <3>1 DEF Max2
        <3>3. \A i \in (a + 1)..b : ~TouchesKey(i, k)
            BY <1>2, <1>11, <3>2
        <3>4. Had(k, row, b)
            BY <1>3, <1>7, <1>11, <3>1, <3>3, HadRests
        <3> QED BY <1>3, <1>8, <3>4, HadBefore
    <2> QED BY <1>8, <1>10, <2>1, <2>2
<1>12. ASSUME NEW k \in Keys, NEW n \in Nat, s <= n, Had(k, curated[k], n)
       PROVE  Fresh(k, n)'
    <2>1. s \in 0..n
        BY <1>10, <1>12
    <2>2. Had(k, curated[k], s)
        BY <1>3, <1>12, <2>1, HadBefore
    <2>3. Had(k, curated[k], s)' /\ Had(k, curated[k], n)'
        BY <1>1, <1>3, <1>10, <1>12, <2>2, HadStays
    <2> QED BY <1>6, <2>3 DEF Fresh
<1>13. ASSUME NEW k \in Keys \ stale'
       PROVE  Fresh(k, Passed)'
    <2>1. k \in Keys \ K /\ k \in Keys \ stale
        BY <1>2, <1>13
    <2>2. Had(k, curated[k], a)
        <3>1. Fresh(k, Passed)
            BY <2>1 DEF FreshInv
        <3> QED BY <1>7, <1>9, <3>1 DEF Fresh
    <2>3. Had(k, curated[k], b)
        BY <1>8, <1>11, <2>1, <2>2
    <2>4. Fresh(k, b)'
        BY <1>8, <1>12, <2>1, <2>3
    <2> QED BY <1>8, <2>4 DEF Fresh
<1>14. ASSUME NEW p \in Merges, Active(p)', Released' <= asOf'[p]
       PROVE  DoneFresh(p)'
    <2>1. K = {} /\ asOf' = asOf
        <3>1. CASE K # {}
            BY <1>2, <1>4, <1>14, <3>1
        <3> QED BY <1>2, <3>1
    <2>2. /\ Active(p) /\ Done(p)' = Done(p) /\ Done(p) \subseteq Keys
          /\ asOf[p] \in Nat /\ s <= asOf[p] /\ Released <= asOf[p]
        BY <1>0, <1>1, <1>5, <1>6, <1>10, <1>14, <2>1, DoneIs
    <2>3. ASSUME NEW k \in Done(p), NEW n \in s..asOf[p], n <= b
          PROVE  Fresh(k, n)'
        <3>1. k \in Keys \ K /\ n \in Nat /\ s <= n
            BY <1>10, <2>1, <2>2
        <3>2. \A m \in r..asOf[p] : m <= a => Had(k, curated[k], m)
            <4>1. DoneFresh(p)
                BY <2>2 DEF FreshInv
            <4> QED BY <1>5, <1>7, <1>9, <4>1 DEF DoneFresh, Fresh
        <3>3. Had(k, curated[k], n)
            <4>1. CASE n <= a
                <5>1. n \in r..asOf[p]
                    BY <1>10, <2>2, <3>1
                <5> QED BY <3>2, <4>1, <5>1
            <4>2. CASE n > a
                <5>1. a \in r..asOf[p] /\ a <= a /\ n \in 0..b
                    BY <1>8, <1>10, <2>2, <2>3, <3>1, <4>2
                <5>2. Had(k, curated[k], a)
                    BY <3>2, <5>1
                <5> QED BY <1>11, <3>1, <5>1, <5>2
            <4> QED BY <1>10, <3>1, <4>1, <4>2
        <3> QED BY <1>12, <3>1, <3>3
    <2> QED BY <1>6, <1>8, <2>1, <2>2, <2>3 DEF DoneFresh
<1> QED BY <1>13, <1>14 DEF FreshInv

-----------------------------------------------------------------------------
(* What a step of a merge leaves as it was. *)
LEMMA MergeKeeps ==
    ASSUME ReconciliationIInv, ReconciliationIInv', UNCHANGED cdcVars
    PROVE  /\ IInv /\ IInv' /\ MergesInv /\ WalKept /\ WalOK
           /\ Released' = Released /\ Passed' = Passed
           /\ Released \in Nat /\ Passed \in Nat /\ Released <= Passed
           /\ missable' = missable => Behind' = Behind
           /\ phase' = phase /\ toWrite' = toWrite /\ Artifact' = Artifact
<1>1. /\ IInv /\ IInv' /\ MergesInv
    BY DEF ReconciliationIInv
<1>2. /\ WalKept /\ Released' = Released /\ Passed' = Passed /\ Artifact' = Artifact
      /\ phase' = phase /\ toWrite' = toWrite
    BY <1>1, CdcStill DEF cdcVars
<1>3. missable' = missable => Behind' = Behind
    BY <1>2 DEF Behind, DeletedKeys, UpsertKeys
<1>4. WalOK /\ Released \in Nat /\ Passed \in Nat /\ Released <= Passed
    BY <1>1, PassedIs
<1> QED BY <1>1, <1>2, <1>3, <1>4

(* A merge that writes no row: what it is done with has the row of its *)
(* snapshot, because that row's hash is recorded.                      *)
LEMMA ReadsFresh ==
    ASSUME NoCollisions, ReconciliationIInv, ReconciliationIInv', FreshInv, NEW p \in Merges,
           MergeExtracts(p) \/ MergeReads(p)
    PROVE  FreshInv'
<1>0. UNCHANGED cdcVars
    BY DEF MergeExtracts, MergeReads
<1>1. /\ IInv /\ IInv' /\ MergesInv /\ WalKept /\ WalOK
      /\ Released' = Released /\ Passed' = Passed
      /\ Released \in Nat /\ Passed \in Nat /\ Released <= Passed
    BY <1>0, MergeKeeps
<1>2. /\ UNCHANGED <<curated, missable, stale>>
      /\ \A q \in Merges \ {p} :
            /\ Active(q)' = Active(q) /\ Done(q)' = Done(q) /\ asOf'[q] = asOf[q]
      /\ Active(p)' =>
            /\ mergePhase[p] # "idle" /\ asOf'[p] = asOf[p]
            /\ \A k \in Done(p)' :
                \/ Active(p) /\ k \in Done(p)
                \/ k \in DOMAIN snapshot[p] /\ hashState[k] = RowHash[snapshot[p][k]]
    <2>1. CASE MergeExtracts(p)
        BY <1>1, <2>1, ExtractWorks DEF Active, Done
    <2>2. CASE MergeReads(p)
        BY <1>1, <2>2, ReadsWork DEF Active, Done
    <2> QED BY <2>1, <2>2
<1>3. Behind' = Behind
    BY <1>0, <1>2, MergeKeeps
<1>4. \A k \in Keys : \A n \in Released..Passed : Fresh(k, n) => Fresh(k, n)'
    <2>1. \A n \in Released..Passed : n \in Nat
        BY <1>1
    <2> QED BY <1>1, <1>2, <1>3, <2>1, FreshStays
<1>5. ASSUME mergePhase[p] # "idle", NEW k \in DOMAIN snapshot[p],
             hashState[k] = RowHash[snapshot[p][k]]
      PROVE  \A n \in Released..asOf[p] : Fresh(k, n)'
    <2>1. k \in Keys /\ snapshot[p][k] \in Rows /\ asOf[p] \in Nat
        BY <1>1, BatchRow, DoneIs DEF MergesInv, MergeTypes
    <2>2. curated[k] = snapshot[p][k]
        BY <1>1, <1>5, <2>1, RecordedRowIsThere DEF IInv, TypeOK
    <2>3. curated'[k] = Snapshot!Merged(p, k)
        BY <1>2, <2>2 DEF Snapshot!Merged
    <2>4. Had(k, curated'[k], asOf[p])
        BY <1>1, <1>5, <2>1, <2>3, MergedHad
    <2>5. CASE Released <= asOf[p]
        BY <1>1, <2>1, <2>4, <2>5, WrittenIsFresh
    <2>6. CASE ~(Released <= asOf[p])
        BY <1>1, <2>1, <2>6
    <2> QED BY <2>5, <2>6
<1>6. ASSUME NEW q \in Merges, Active(q)'
      PROVE  /\ asOf'[q] = asOf[q] /\ asOf[q] \in Nat
             /\ \A k \in Done(q)' :
                 \/ k \in Keys /\ Active(q) /\ k \in Done(q)
                 \/ \A n \in Released..asOf[q] : Fresh(k, n)'
    <2>1. Done(q) \subseteq Keys /\ asOf[q] \in Nat
        BY <1>1, DoneIs
    <2>2. CASE q # p
        BY <1>2, <1>6, <2>1, <2>2
    <2>3. CASE q = p
        BY <1>2, <1>5, <1>6, <2>1, <2>3
    <2> QED BY <2>2, <2>3
<1> DEFINE None == {}
<1>7. /\ \A k \in None : \A n \in Released..Passed : Fresh(k, n)'
      /\ \A k \in Keys \ stale' : k \in None \/ (k \in Keys /\ k \notin stale)
      /\ \A q \in Merges : Active(q)' =>
            /\ asOf'[q] = asOf[q] /\ asOf[q] \in Nat
            /\ \A k \in Done(q)' :
                \/ k \in None
                \/ k \in Keys /\ Active(q) /\ k \in Done(q)
                \/ \A n \in Released..asOf[q] : Fresh(k, n)'
    BY <1>2, <1>6
<1> HIDE DEF None
<1> QED BY <1>1, <1>4, <1>7, FreshFrame

(* A batch is written.  Its rows are as recent as the snapshot. *)
LEMMA UpsertsFresh ==
    ASSUME ReconciliationIInv, ReconciliationIInv', FreshInv, NEW p \in Merges, MergeUpserts(p)
    PROVE  FreshInv'
<1> DEFINE B == DOMAIN batch[p]
<1>0. UNCHANGED cdcVars
    BY DEF MergeUpserts
<1>1. /\ IInv /\ IInv' /\ MergesInv /\ WalKept /\ WalOK
      /\ Released' = Released /\ Passed' = Passed
      /\ Released \in Nat /\ Passed \in Nat /\ Released <= Passed
      /\ phase' = phase /\ toWrite' = toWrite /\ Artifact' = Artifact
    BY <1>0, MergeKeeps
<1>2. /\ mergePhase[p] = "batch read" /\ Active(p)
      /\ B \subseteq Keys
      /\ \A k \in B : curated'[k] = Snapshot!Merged(p, k)
      /\ \A k \in Keys \ B : curated'[k] = curated[k]
      /\ asOf' = asOf
      /\ stale' = IF Overtaken(p) THEN stale \cup B ELSE stale \ B
      /\ missable' = IF phase = "upserted" THEN missable \cup B ELSE missable
    BY <1>1, UpsertsWork DEF Active
<1>3. \A q \in Merges : Active(q)' => Active(q) /\ \A k \in Done(q)' : k \in Done(q) \/ (q = p /\ k \in B)
    <2>1. \A k \in Done(p)' : k \in Done(p) \/ k \in B
        BY <1>1, UpsertsWork
    <2>2. ASSUME NEW q \in Merges \ {p}, Active(q)'
          PROVE  Active(q) /\ Done(q)' \subseteq Done(q)
        <3>1. /\ UNCHANGED <<mergePhase[q], batch[q], staged[q]>>
              /\ raced'[q] \subseteq raced[q] \cup B
              /\ Active(q) => B = {}
            BY <1>1, <2>2, UpsertsWork
        <3> QED BY <2>2, <3>1 DEF Active, Done
    <2> QED BY <1>2, <2>1, <2>2
<1>4. asOf[p] \in Nat /\ \A q \in Merges : Done(q) \subseteq Keys /\ asOf[q] \in Nat
    BY <1>1, DoneIs
<1>5. ASSUME NEW k \in B
      PROVE  \A n \in Released..asOf[p] : Fresh(k, n)'
    <2>1. Had(k, curated'[k], asOf[p])
        BY <1>1, <1>2, <1>5, MergedHad
    <2>2. CASE Released <= asOf[p]
        BY <1>1, <1>4, <2>1, <2>2, WrittenIsFresh
    <2>3. CASE ~(Released <= asOf[p])
        BY <1>1, <1>4, <2>3
    <2> QED BY <2>2, <2>3
<1> DEFINE New == IF Overtaken(p) THEN {} ELSE B
           Kept == Keys \ B
<1>6. \A k \in New : \A n \in Released..Passed : Fresh(k, n)'
    <2>1. ASSUME ~Overtaken(p)
          PROVE  \A n \in Released..Passed : n \in Released..asOf[p]
        BY <1>1, <1>4, <2>1 DEF Overtaken
    <2> QED BY <1>5, <2>1
<1>7. \A k \in Kept : \A n \in Released..Passed : Fresh(k, n) => Fresh(k, n)'
    <2>1. \A k \in Kept : k \in Behind => k \in Behind'
        BY <1>1, <1>2 DEF Behind, DeletedKeys, UpsertKeys
    <2>2. \A n \in Released..Passed : n \in Nat
        BY <1>1
    <2> QED BY <1>1, <1>2, <2>1, <2>2, FreshStays
<1>8. \A k \in Keys \ stale' : k \in New \/ (k \in Kept /\ k \notin stale)
    BY <1>2
<1>9. \A q \in Merges : Active(q)' =>
        /\ asOf'[q] = asOf[q] /\ asOf[q] \in Nat
        /\ \A k \in Done(q)' :
            \/ k \in New
            \/ k \in Kept /\ Active(q) /\ k \in Done(q)
            \/ \A n \in Released..asOf[q] : Fresh(k, n)'
    <2>1. ASSUME NEW q \in Merges, Active(q)', NEW k \in Done(q)'
          PROVE  (k \in Kept /\ k \in Done(q)) \/ (q = p /\ k \in B)
        <3>1. k \in Keys /\ (q # p => B = {})
            BY <1>1, <1>2, <1>3, <1>4, <2>1, UpsertsWork
        <3> QED BY <1>3, <2>1, <3>1
    <2> HIDE DEF New, Kept, B
    <2> QED BY <1>2, <1>3, <1>4, <1>5, <2>1
<1> HIDE DEF New, Kept, B
<1> QED BY <1>1, <1>6, <1>7, <1>8, <1>9, FreshFrame

(* The delete.  A merge that is not overtaken by now has brought every row *)
(* up to its snapshot, or found another writer to have done so since.      *)
LEMMA DeletesFresh ==
    ASSUME ReconciliationIInv, ReconciliationIInv', FreshInv, NEW p \in Merges, MergeDeletes(p)
    PROVE  FreshInv'
<1>0. UNCHANGED cdcVars
    BY DEF MergeDeletes
<1>1. /\ IInv /\ IInv' /\ MergesInv /\ WalKept /\ WalOK
      /\ Released' = Released /\ Passed' = Passed
      /\ Released \in Nat /\ Passed \in Nat /\ Released <= Passed
    BY <1>0, MergeKeeps
<1>2. /\ mergePhase[p] = "deleting" /\ Active(p) /\ ~Active(p)'
      /\ asOf' = asOf /\ missable' = missable
      /\ stale' = IF Overtaken(p) THEN stale \cup (Keys \ staged[p]) ELSE {}
      /\ \A q \in Merges \ {p} : Active(q)' = Active(q) /\ Done(q)' = Done(q)
    BY <1>1, DeletesWork DEF Active, Done
<1>3. PICK gone \in SUBSET (Keys \ staged[p]) :
        /\ \A k \in gone : curated'[k] = Snapshot!Merged(p, k)
        /\ \A k \in Keys \ gone : curated'[k] = curated[k]
        /\ Keys \ gone \subseteq Done(p)
        /\ \A q \in Merges \ {p} : Active(q) => gone = {}
    BY <1>1, DeletesWork
<1>4. Behind' = Behind
    BY <1>0, <1>2, MergeKeeps
<1>5. asOf[p] \in Nat /\ \A q \in Merges : Done(q) \subseteq Keys /\ asOf[q] \in Nat
    BY <1>1, DoneIs
<1>6. \A k \in Keys \ gone : \A n \in Released..Passed : Fresh(k, n) => Fresh(k, n)'
    <2>1. \A n \in Released..Passed : n \in Nat
        BY <1>1
    <2> QED BY <1>1, <1>3, <1>4, <2>1, FreshStays
<1>7. ASSUME ~Overtaken(p), NEW k \in Keys
      PROVE  \A n \in Released..Passed : Fresh(k, n)'
    <2>1. Passed <= asOf[p] /\ Released <= asOf[p]
        BY <1>1, <1>5, <1>7 DEF Overtaken
    <2>2. \A n \in Released..Passed : n \in Released..asOf[p] /\ n <= Passed
        BY <1>1, <1>5, <2>1
    <2>3. CASE k \in gone
        <3>1. Had(k, curated'[k], asOf[p])
            BY <1>1, <1>2, <1>3, <2>3, MergedHad
        <3>2. \A n \in Released..asOf[p] : Fresh(k, n)'
            BY <1>1, <1>5, <2>1, <3>1, WrittenIsFresh
        <3> QED BY <2>2, <3>2
    <2>4. CASE k \notin gone
        <3>1. \A n \in Released..Passed : Fresh(k, n)
            BY <1>2, <1>3, <2>1, <2>2, <2>4 DEF FreshInv, DoneFresh
        <3> QED BY <1>6, <2>4, <3>1
    <2> QED BY <2>3, <2>4
<1> DEFINE New == IF Overtaken(p) THEN {} ELSE Keys
           Kept == Keys \ gone
<1>8. \A k \in New : \A n \in Released..Passed : Fresh(k, n)'
    BY <1>7
<1>9. \A k \in Keys \ stale' : k \in New \/ (k \in Kept /\ k \notin stale)
    BY <1>2, <1>3
<1>10. \A q \in Merges : Active(q)' =>
        /\ asOf'[q] = asOf[q] /\ asOf[q] \in Nat
        /\ \A k \in Done(q)' :
            \/ k \in New
            \/ k \in Kept /\ Active(q) /\ k \in Done(q)
            \/ \A n \in Released..asOf[q] : Fresh(k, n)'
    BY <1>2, <1>3, <1>5
<1>11. \A k \in Kept : \A n \in Released..Passed : Fresh(k, n) => Fresh(k, n)'
    BY <1>6
<1> HIDE DEF New, Kept
<1> QED BY <1>1, <1>8, <1>9, <1>10, <1>11, FreshFrame

-----------------------------------------------------------------------------
(***************************************************************************)
(* Every row that is not stale is as recent as all that CDC has passed, or *)
(* as all that is released where the run in progress has still to write    *)
(* it; and what a merge is done with is as recent as its snapshot.  This   *)
(* is the invariant that OnlyOvertakenMergesLose needs.                    *)
(***************************************************************************)
THEOREM ReconciliationSpecFresh ==
    ASSUME NoCollisions
    PROVE  ReconciliationSpec => [](ReconciliationIInv /\ FreshInv)
<1>1. ReconciliationInit => FreshInv
    <2> SUFFICES ASSUME ReconciliationInit PROVE FreshInv
        OBVIOUS
    <2>1. stale = Keys /\ \A p \in Merges : ~Active(p)
        BY DEF ReconciliationInit, Active
    <2> QED BY <2>1 DEF FreshInv
<1>2. ReconciliationIInv /\ ReconciliationIInv' /\ FreshInv /\ [ReconciliationNext]_allVars
        => FreshInv'
    <2> SUFFICES ASSUME ReconciliationIInv, ReconciliationIInv', FreshInv,
                        [ReconciliationNext]_allVars
                 PROVE  FreshInv'
        OBVIOUS
    <2>1. CASE UNCHANGED allVars
        BY <2>1, StillFresh
    <2>2. CASE ReconciliationNext
        <3>1. IInv
            BY DEF ReconciliationIInv
        <3>2. CASE Waits /\ UNCHANGED mergeVars /\ missable' = missable /\ stale' = stale
            <4>1. CASE Source \/ StartExtract \/ ReadStep \/ Land
                BY <3>2, <4>1, WaitsFresh
            <4>2. CASE Classify
                BY <3>2, <4>2, ClassifyFresh
            <4> QED BY <3>2, <4>1, <4>2 DEF Waits
        <3>3. CASE Crash /\ UNCHANGED mergeVars /\ stale' = stale
            BY <3>3, CrashFresh
        <3>4. CASE CdcUpserts
            BY <3>4, CdcUpsertsFresh
        <3>5. CASE CdcDeletes
            BY <3>5, CdcDeletesFresh
        <3>6. CASE CdcPosition
            BY <3>6, CdcPositionFresh
        <3>7. CASE \E p \in Merges : MergeRun(p)
            BY <3>7, ReadsFresh, UpsertsFresh, DeletesFresh DEF MergeRun
        <3> QED BY <2>2, <3>1, <3>2, <3>3, <3>4, <3>5, <3>6, <3>7, ReconciliationSteps
    <2> QED BY <2>1, <2>2
<1>3. ReconciliationSpec => []FreshInv
    <2>1. ReconciliationSpec => []ReconciliationIInv
        BY ReconciliationSpecIInv
    <2> QED BY <1>1, <1>2, <2>1, PTL DEF ReconciliationSpec
<1> QED BY <1>3, ReconciliationSpecIInv, PTL

(***************************************************************************)
(* Neither pipeline undoes the other but for what an overtaken merge       *)
(* writes or a deadline drops: every other row is as recent as the         *)
(* checkpoint and the slot, through every interleaving of the statements   *)
(* of CDC with those of any number of merges.                              *)
(***************************************************************************)
THEOREM ReconciliationSpecOnlyOvertakenMergesLose ==
    ASSUME NoCollisions
    PROVE  ReconciliationSpec => []OnlyOvertakenMergesLose
<1>1. FreshInv => OnlyOvertakenMergesLose
    BY IsRowOfHad DEF FreshInv, Fresh, OnlyOvertakenMergesLose
<1> QED BY <1>1, ReconciliationSpecFresh, PTL
=============================================================================
