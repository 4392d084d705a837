----------------------- MODULE PgOutputDecodeProofs -----------------------
(***************************************************************************)
(* Proofs about PgOutputDecode, for any keys and bodies, any replica       *)
(* identities, and any bounds on transactions and versions.                *)
(*                                                                         *)
(* Two functions of the model are recursive: the changes of source_table   *)
(* in a transaction (OwnChanges), and a table with events applied to it    *)
(* (ApplyAll).  What the proofs need of them is one step of each, from     *)
(* three facts on numbers and functions that come first.  The invariant    *)
(* follows the decoder through a transaction message by message.           *)
(***************************************************************************)
EXTENDS PgOutputDecode, WellFoundedInduction, TLAPS

(* Among numbers there is a least one. *)
LEMMA LeastNumber ==
    ASSUME NEW T, T \subseteq Nat, T # {}
    PROVE  \E n \in T : \A m \in T : n <= m
<1>1. IsWellFoundedOn(OpToRel(<, Nat), Nat)
    BY NatLessThanWellFounded
<1>2. PICK n \in T : \A m \in T : ~(<<m, n>> \in OpToRel(<, Nat))
    BY <1>1, WFMin
<1>3. \A m \in T : ~(m < n)
    BY <1>2 DEF OpToRel
<1> QED BY <1>3

(* Two functions with one beginning and one rule are the same. *)
LEMMA OneRule ==
    ASSUME NEW f, NEW g, NEW N \in Nat, f[0] = g[0],
           \A n \in 1..N : f[n - 1] = g[n - 1] => f[n] = g[n]
    PROVE  \A n \in 0..N : f[n] = g[n]
<1> DEFINE T == {n \in 0..N : f[n] # g[n]}
<1> SUFFICES ASSUME T # {} PROVE FALSE
    OBVIOUS
<1>1. PICK n \in T : \A m \in T : n <= m
    <2>1. T \subseteq Nat
        OBVIOUS
    <2> HIDE DEF T
    <2> QED BY <2>1, LeastNumber
<1>2. n \in 1..N /\ n - 1 \in 0..N /\ n - 1 \notin T
    BY <1>1
<1> QED BY <1>2

(* f begins with c, and goes on by step up to N. *)
GoesOn(f, c, step, N) == f[0] = c /\ \A n \in 1..N : f[n] = step[n][f[n - 1]]

(* A beginning and a rule for the steps make a function. *)
LEMMA RuleMakesFunction ==
    ASSUME NEW S, NEW c \in S, NEW N \in Nat, NEW step \in [1..N -> [S -> S]]
    PROVE  \E f \in [0..N -> S] : GoesOn(f, c, step, N)
<1> DEFINE Made(n) == \E f \in [0..n -> S] :
                        f[0] = c /\ \A i \in 1..n : f[i] = step[i][f[i - 1]]
           T == {n \in 0..N : ~Made(n)}
<1>1. Made(0)
    <2> DEFINE f == [i \in 0..0 |-> c]
    <2>1. f \in [0..0 -> S] /\ f[0] = c /\ 1..0 = {}
        OBVIOUS
    <2> HIDE DEF f
    <2>2. \A i \in 1..0 : f[i] = step[i][f[i - 1]]
        BY <2>1
    <2> QED BY <2>1, <2>2
<1>2. ASSUME NEW n \in 1..N, Made(n - 1)
      PROVE  Made(n)
    <2>1. PICK g \in [0..(n - 1) -> S] :
            g[0] = c /\ \A i \in 1..(n - 1) : g[i] = step[i][g[i - 1]]
        BY <1>2
    <2> DEFINE f == [i \in 0..n |-> IF i = n THEN step[n][g[n - 1]] ELSE g[i]]
    <2>2. n - 1 \in 0..(n - 1) /\ step[n] \in [S -> S] /\ g[n - 1] \in S
        BY <2>1
    <2>3. \A i \in 0..n : i # n => i \in 0..(n - 1)
        OBVIOUS
    <2>4. f \in [0..n -> S]
        BY <2>1, <2>2, <2>3
    <2>5. f[0] = c
        BY <2>1
    <2>6. \A i \in 1..n : f[i - 1] = g[i - 1]
        OBVIOUS
    <2>7. \A i \in 1..n : f[i] = step[i][f[i - 1]]
        <3>1. f[n] = step[n][f[n - 1]]
            BY <2>6
        <3>2. \A i \in 1..n : i # n => i \in 1..(n - 1) /\ f[i] = g[i]
            OBVIOUS
        <3> HIDE DEF f
        <3> QED BY <2>1, <2>6, <3>1, <3>2
    <2> HIDE DEF f
    <2> QED BY <2>4, <2>5, <2>7
<1> SUFFICES Made(N)
    BY DEF GoesOn
<1> HIDE DEF Made
<1>3. T = {}
    <2> SUFFICES ASSUME T # {} PROVE FALSE
        OBVIOUS
    <2>1. PICK n \in T : \A m \in T : n <= m
        <3>1. T \subseteq Nat
            OBVIOUS
        <3> HIDE DEF T
        <3> QED BY <3>1, LeastNumber
    <2>2. n \in 1..N /\ n - 1 \in 0..N /\ n - 1 \notin T
        BY <1>1, <2>1
    <2> QED BY <1>2, <2>1, <2>2
<1> QED BY <1>3
-----------------------------------------------------------------------------
(* A table, a change as a transaction has it, and one as the stream has it. *)
Contents == [Keys -> Bodies \cup {Null, Absent}]
ChangeRecords ==
    [op : {"I", "U", "D", "T", "Y"}, table : Tables, old : Keys \cup {Null},
     key : Keys \cup {Null}, body : Bodies \cup {Null, Absent},
     sent : Bodies \cup {Null, Absent, Unchanged}]
StreamChanges == [op : {"I", "U", "D", "T"}, from : Keys \cup {Null}, to : Keys \cup {Null}]

(* What each kind of change has for keys and values. *)
WellFormed(c) ==
    /\ c \in ChangeRecords
    /\ c.table = "other" => c.op = "I"
    /\ c.op = "I" => c.old = Null /\ c.key \in Keys
    /\ c.op = "U" => c.old \in Keys /\ c.key \in Keys
    /\ c.op = "D" => c.old \in Keys /\ c.key = Null
    /\ c.op \in {"T", "Y"} => c.old = Null /\ c.key = Null
    /\ c.op \in {"I", "U"} => c.sent \in Bodies \cup {Null, Unchanged}

(* What can happen to a table is well formed, and leaves a table. *)
LEMMA ChangesAreWellFormed ==
    ASSUME NEW t \in Contents, NEW c \in ChangesOn(t)
    PROVE  WellFormed(c) /\ AfterChange(t, c) \in Contents
<1>1. CASE \E k \in Keys, b \in Bodies \cup {Null} : c = Change("I", "orders", Null, k, b, b)
    <2>1. PICK k \in Keys, b \in Bodies \cup {Null} : c = Change("I", "orders", Null, k, b, b)
        BY <1>1
    <2> QED BY <2>1, NullAssumption
            DEF Change, WellFormed, ChangeRecords, Tables, AfterChange, Contents
<1>2. CASE \E j \in Keys, k \in Keys, b \in Bodies \cup {Null} :
                c = Change("U", "orders", j, k, b, Sent(t[j], b))
    <2>1. PICK j \in Keys, k \in Keys, b \in Bodies \cup {Null} :
                c = Change("U", "orders", j, k, b, Sent(t[j], b))
        BY <1>2
    <2>2. Sent(t[j], b) \in Bodies \cup {Null, Unchanged}
        BY DEF Sent
    <2>3. WellFormed(c)
        BY <2>1, <2>2, NullAssumption DEF Change, WellFormed, ChangeRecords, Tables
    <2>4. AfterChange(t, c) \in Contents
        BY <2>1 DEF Change, AfterChange, Contents
    <2> QED BY <2>3, <2>4
<1>3. CASE \E j \in Keys : c = Change("D", "orders", j, Null, Absent, Absent)
    BY <1>3, NullAssumption
        DEF Change, WellFormed, ChangeRecords, Tables, AfterChange, Contents
<1>4. CASE \E k \in Keys : c = Change("I", "other", Null, k, Null, Null)
    BY <1>4, NullAssumption
        DEF Change, WellFormed, ChangeRecords, Tables, AfterChange, Contents
<1>5. CASE \/ c = Change("T", "orders", Null, Null, Absent, Absent)
           \/ c = Change("Y", "orders", Null, Null, Absent, Absent)
    BY <1>5, NullAssumption
        DEF Change, WellFormed, ChangeRecords, Tables, AfterChange, Contents
<1> QED BY <1>1, <1>2, <1>3, <1>4, <1>5 DEF ChangesOn
-----------------------------------------------------------------------------
(* An event leaves a table a table. *)
LEMMA ApplyType ==
    ASSUME NEW t \in Contents, NEW e \in PendingChanges
    PROVE  Apply(t, e) \in Contents
BY DEF Apply, Contents, PendingChanges, Tuples

(* The value of ApplyAll, once the tables on the way are given. *)
LEMMA ApplyAllIs ==
    ASSUME NEW t, NEW es, Len(es) \in Nat, NEW f, f = [n \in 0..Len(es) |-> f[n]],
           f[0] = t, \A n \in 1..Len(es) : f[n] = Apply(f[n - 1], es[n])
    PROVE  ApplyAll(t, es) = f[Len(es)]
<1> DEFINE Body(g, n) == IF n = 0 THEN t ELSE Apply(g[n - 1], es[n])
           IsReplay(g) == g = [n \in 0..Len(es) |-> Body(g, n)]
           h == CHOOSE g : IsReplay(g)
<1>1. IsReplay(f)
    <2>1. \A n \in 0..Len(es) : n # 0 => n \in 1..Len(es)
        OBVIOUS
    <2>2. \A n \in 0..Len(es) : f[n] = Body(f, n)
        BY <2>1
    <2> HIDE DEF Body
    <2> QED BY <2>2
<1>2. IsReplay(h)
    <2> HIDE DEF IsReplay
    <2> QED BY <1>1, Zenon
<1>3. h[0] = t /\ \A n \in 1..Len(es) : h[n] = Apply(h[n - 1], es[n])
    <2>1. \A n \in 0..Len(es) : h[n] = Body(h, n)
        <3> HIDE DEF h, Body
        <3> QED BY <1>2
    <2>2. \A n \in 1..Len(es) : n \in 0..Len(es) /\ n # 0
        OBVIOUS
    <2>3. 0 \in 0..Len(es)
        OBVIOUS
    <2> HIDE DEF h
    <2> QED BY <2>1, <2>2, <2>3
<1>4. ApplyAll(t, es) = h[Len(es)]
    BY DEF ApplyAll
<1> HIDE DEF h
<1>5. \A n \in 0..Len(es) : f[n] = h[n]
    <2>1. f[0] = h[0] /\ \A n \in 1..Len(es) : f[n - 1] = h[n - 1] => f[n] = h[n]
        BY <1>3
    <2> QED BY <2>1, OneRule
<1> QED BY <1>4, <1>5

(* No event, no change. *)
LEMMA ApplyNone == ASSUME NEW t PROVE ApplyAll(t, <<>>) = t
<1> DEFINE f == [n \in 0..0 |-> t]
<1>1. /\ Len(<<>>) = 0 /\ f = [n \in 0..0 |-> f[n]]
      /\ f[0] = t /\ 1..0 = {}
    OBVIOUS
<1> HIDE DEF f
<1> QED BY <1>1, ApplyAllIs

(* One more event is applied to what the others left. *)
LEMMA ApplyOneMore ==
    ASSUME NEW t \in Contents, NEW es \in Seq(PendingChanges), NEW e \in PendingChanges
    PROVE  /\ ApplyAll(t, es) \in Contents
           /\ ApplyAll(t, Append(es, e)) = Apply(ApplyAll(t, es), e)
<1> DEFINE N == Len(es)
           step == [n \in 1..N |-> [r \in Contents |-> Apply(r, es[n])]]
           more == Append(es, e)
<1>1. N \in Nat /\ \A n \in 1..N : es[n] \in PendingChanges
    OBVIOUS
<1>2. step \in [1..N -> [Contents -> Contents]]
    BY <1>1, ApplyType
<1>3. /\ Len(more) = N + 1 /\ more[N + 1] = e
      /\ \A n \in 1..N : more[n] = es[n]
    OBVIOUS
<1> HIDE DEF N, more
<1>4. PICK f \in [0..N -> Contents] : GoesOn(f, t, step, N)
    <2> HIDE DEF step
    <2> QED BY <1>1, <1>2, RuleMakesFunction
<1>5. \A n \in 1..N : f[n] = Apply(f[n - 1], es[n])
    <2>1. \A n \in 1..N : n - 1 \in 0..N
        BY <1>1
    <2> QED BY <1>4, <2>1 DEF GoesOn
<1>0. f[0] = t
    BY <1>4 DEF GoesOn
<1> HIDE DEF step
<1>6. ApplyAll(t, es) = f[N]
    BY <1>0, <1>1, <1>5, ApplyAllIs DEF N
<1> DEFINE g == [n \in 0..(N + 1) |-> IF n = N + 1 THEN Apply(f[N], e) ELSE f[n]]
<1>7. g[0] = t /\ g[N] = f[N] /\ g[N + 1] = Apply(f[N], e)
    BY <1>0, <1>1
<1>8. \A n \in 1..(N + 1) : g[n] = Apply(g[n - 1], more[n])
    <2>1. g[N + 1] = Apply(g[(N + 1) - 1], more[N + 1])
        BY <1>1, <1>3, <1>7
    <2>2. ASSUME NEW n \in 1..N PROVE g[n] = Apply(g[n - 1], more[n])
        <3>1. g[n] = f[n] /\ g[n - 1] = f[n - 1]
            BY <1>1
        <3> HIDE DEF g
        <3> QED BY <1>3, <1>5, <3>1
    <2>3. \A n \in 1..(N + 1) : n = N + 1 \/ n \in 1..N
        BY <1>1
    <2> HIDE DEF g
    <2> QED BY <2>1, <2>2, <2>3
<1>9. g = [n \in 0..(N + 1) |-> g[n]] /\ N + 1 \in Nat
    BY <1>1
<1> HIDE DEF g
<1>10. ApplyAll(t, more) = g[N + 1]
    <2>1. /\ Len(more) \in Nat /\ g = [n \in 0..Len(more) |-> g[n]] /\ g[0] = t
          /\ \A n \in 1..Len(more) : g[n] = Apply(g[n - 1], more[n])
        BY <1>3, <1>7, <1>8, <1>9
    <2>2. ApplyAll(t, more) = g[Len(more)]
        BY <2>1, ApplyAllIs
    <2> QED BY <1>3, <2>2
<1> QED BY <1>1, <1>4, <1>6, <1>7, <1>10 DEF more
-----------------------------------------------------------------------------
(* A change of source_table, as the stream has it. *)
StreamedChange(c) == Streamed(c.op, c.old, c.key)
PendingStreamed(e) == Streamed(e.op, OldKeyOf(e), e.row.key)

TxnOK == txn \in Seq(ChangeRecords) /\ \A n \in 1..Len(txn) : WellFormed(txn[n])

(* The changes of source_table among the first n of the transaction. *)
OwnRule(f) ==
    /\ f \in [0..Len(txn) -> Seq(StreamChanges)]
    /\ f[0] = <<>>
    /\ \A n \in 1..Len(txn) :
            f[n] = IF IsOwn(txn[n]) THEN Append(f[n - 1], StreamedChange(txn[n])) ELSE f[n - 1]
Own == CHOOSE f : OwnRule(f)

(* The stream has no change that is of no row and no TRUNCATE. *)
LEMMA StreamedType ==
    ASSUME NEW c, WellFormed(c), IsOwn(c)
    PROVE  StreamedChange(c) \in StreamChanges
BY DEF WellFormed, IsOwn, StreamedChange, Streamed, StreamChanges, ChangeRecords

(* There are such sequences of changes. *)
LEMMA OwnExists == TxnOK => OwnRule(Own)
<1> SUFFICES ASSUME TxnOK PROVE \E f : OwnRule(f)
    <2> HIDE DEF OwnRule
    <2> QED BY Zenon DEF Own
<1> DEFINE N == Len(txn)
           Lists == Seq(StreamChanges)
           step == [n \in 1..N |-> [r \in Lists |->
                        IF IsOwn(txn[n]) THEN Append(r, StreamedChange(txn[n])) ELSE r]]
<1>1. N \in Nat /\ <<>> \in Lists
    BY DEF TxnOK
<1>2. step \in [1..N -> [Lists -> Lists]]
    <2>1. ASSUME NEW n \in 1..N, NEW r \in Lists, IsOwn(txn[n])
          PROVE  Append(r, StreamedChange(txn[n])) \in Lists
        <3>1. StreamedChange(txn[n]) \in StreamChanges
            BY <2>1, StreamedType DEF TxnOK
        <3> QED BY <3>1
    <2> HIDE DEF Lists
    <2> QED BY <2>1
<1>3. PICK f \in [0..N -> Lists] : GoesOn(f, <<>>, step, N)
    <2> HIDE DEF step, Lists, N
    <2> QED BY <1>1, <1>2, RuleMakesFunction
<1>4. ASSUME NEW n \in 1..N
      PROVE  f[n] = IF IsOwn(txn[n]) THEN Append(f[n - 1], StreamedChange(txn[n])) ELSE f[n - 1]
    <2>1. n - 1 \in 0..N
        BY <1>1
    <2>2. f[n] = step[n][f[n - 1]] /\ f[n - 1] \in Lists
        BY <1>3, <2>1 DEF GoesOn
    <2> HIDE DEF Lists
    <2> QED BY <2>2
<1>5. f[0] = <<>>
    BY <1>3 DEF GoesOn
<1> QED BY <1>4, <1>5 DEF OwnRule

(* OwnChanges are all of them. *)
LEMMA OwnChangesAre == TxnOK => OwnChanges = Own[Len(txn)]
<1> SUFFICES ASSUME TxnOK PROVE OwnChanges = Own[Len(txn)]
    OBVIOUS
<1> DEFINE N == Len(txn)
           Body(g, n) == IF n = 0 THEN <<>>
                         ELSE IF IsOwn(txn[n])
                              THEN Append(g[n - 1], Streamed(txn[n].op, txn[n].old, txn[n].key))
                              ELSE g[n - 1]
           IsList(g) == g = [n \in 0..N |-> Body(g, n)]
           h == CHOOSE g : IsList(g)
<1>1. N \in Nat /\ OwnRule(Own)
    BY OwnExists DEF TxnOK
<1>2. IsList(Own)
    <2>1. \A n \in 0..N : n # 0 => n \in 1..N
        BY <1>1
    <2>2. \A n \in 0..N : Own[n] = Body(Own, n)
        BY <1>1, <2>1 DEF OwnRule, StreamedChange
    <2>3. Own = [n \in 0..N |-> Own[n]]
        BY <1>1 DEF OwnRule
    <2> HIDE DEF Body, N
    <2> QED BY <2>2, <2>3
<1>3. IsList(h)
    <2> HIDE DEF IsList
    <2> QED BY <1>2, Zenon
<1>4. OwnChanges = h[N]
    BY DEF OwnChanges
<1>5. \A n \in 0..N : h[n] = Body(h, n)
    <2> HIDE DEF h, Body, N
    <2> QED BY <1>3
<1> HIDE DEF h
<1>6. Own[0] = h[0] /\ \A n \in 1..N : Own[n - 1] = h[n - 1] => Own[n] = h[n]
    <2>1. h[0] = <<>>
        BY <1>1, <1>5
    <2>2. ASSUME NEW n \in 1..N, Own[n - 1] = h[n - 1] PROVE Own[n] = h[n]
        <3>1. n \in 0..N /\ n # 0
            BY <1>1
        <3> QED BY <1>1, <1>5, <2>2, <3>1 DEF OwnRule, StreamedChange
    <2> QED BY <1>1, <2>1, <2>2 DEF OwnRule
<1>7. \A n \in 0..N : Own[n] = h[n]
    <2> HIDE DEF N
    <2> QED BY <1>1, <1>6, OneRule
<1> QED BY <1>1, <1>4, <1>7

(* What the two lemmas say, of one state. *)
OwnRight == OwnRule(Own) /\ OwnChanges = Own[Len(txn)]

(* What holds of the transaction holds of the next state's. *)
LEMMA OwnThen == TxnOK' => OwnRight'
<1>1. TxnOK => OwnRight
    BY OwnExists, OwnChangesAre DEF OwnRight
<1> QED BY <1>1, PTL

(* While the transaction is the same, so are its changes of source_table. *)
LEMMA OwnKept == UNCHANGED txn => Own' = Own /\ OwnChanges' = OwnChanges /\ TxnOK' = TxnOK
BY DEF Own, OwnRule, OwnChanges, TxnOK

(* A change more in the transaction is at most one change more of the table. *)
LEMMA OwnOneMore ==
    ASSUME TxnOK, NEW c, WellFormed(c), txn' = Append(txn, c)
    PROVE  /\ TxnOK'
           /\ OwnChanges' = IF IsOwn(c) THEN Append(OwnChanges, StreamedChange(c)) ELSE OwnChanges
<1> DEFINE N == Len(txn)
<1>1. /\ N \in Nat /\ Len(txn') = N + 1 /\ txn'[N + 1] = c
      /\ \A n \in 1..N : txn'[n] = txn[n]
      /\ c \in ChangeRecords
    BY DEF TxnOK, WellFormed
<1>2. TxnOK'
    <2>1. txn' \in Seq(ChangeRecords)
        BY <1>1 DEF TxnOK
    <2>2. \A n \in 1..Len(txn') : n = N + 1 \/ n \in 1..N
        BY <1>1
    <2> QED BY <1>1, <2>1, <2>2 DEF TxnOK
<1>3. OwnRule(Own) /\ OwnChanges = Own[N]
    BY OwnExists, OwnChangesAre
<1>4. OwnRule(Own)' /\ OwnChanges' = Own'[N + 1]
    BY <1>1, <1>2, OwnThen DEF OwnRight
<1>5. \A n \in 1..(N + 1) :
            Own'[n] = IF IsOwn(txn'[n]) THEN Append(Own'[n - 1], StreamedChange(txn'[n]))
                      ELSE Own'[n - 1]
    BY <1>1, <1>4 DEF OwnRule, IsOwn, StreamedChange, Streamed
<1>6. \A n \in 0..N : Own[n] = Own'[n]
    <2>1. Own[0] = Own'[0]
        BY <1>3, <1>4 DEF OwnRule
    <2>2. ASSUME NEW n \in 1..N, Own[n - 1] = Own'[n - 1] PROVE Own[n] = Own'[n]
        <3>1. n \in 1..(N + 1)
            BY <1>1
        <3>2. Own'[n] = IF IsOwn(txn[n]) THEN Append(Own'[n - 1], StreamedChange(txn[n]))
                        ELSE Own'[n - 1]
            BY <1>1, <1>5, <3>1
        <3> QED BY <1>3, <2>2, <3>2 DEF OwnRule
    <2> QED BY <1>1, <2>1, <2>2, OneRule
<1>7. Own'[N + 1] = IF IsOwn(c) THEN Append(Own'[N], StreamedChange(c)) ELSE Own'[N]
    <2>1. N + 1 \in 1..(N + 1) /\ (N + 1) - 1 = N
        BY <1>1
    <2> QED BY <1>1, <1>5, <2>1
<1> QED BY <1>1, <1>2, <1>3, <1>4, <1>6, <1>7
-----------------------------------------------------------------------------
(* r is t, but for nulls in place of values stored out of line. *)
Near(r, t) == \A k \in Keys : r[k] = t[k] \/ (t[k] \in Toasted /\ r[k] = Null)

(* What the decoder makes of a change of source_table. *)
LEMMA ReadBack ==
    ASSUME NEW c, WellFormed(c), IsOwn(c), c.op # "T", NEW i \in 0..MaxChanges,
           NEW e, e = [op |-> c.op, index |-> i, old |-> OldSent(c), row |-> RowAfter(c)]
    PROVE  /\ e \in PendingChanges
           /\ PendingStreamed(e) = StreamedChange(c)
           /\ c.op # "I" => OldKeyOf(e) = c.old
<1>1. c.op \in {"I", "U", "D"} /\ c.old \in Keys \cup {Null} /\ c.key \in Keys \cup {Null}
    BY DEF WellFormed, IsOwn, ChangeRecords
<1>2. OldSent(c) \in Tuples
    BY <1>1, NullAssumption DEF OldSent, Tuples, NoTuple
<1>3. RowAfter(c) \in Tuples
    BY <1>1 DEF RowAfter, Tuples, NoTuple, Value, WellFormed
<1>4. e \in PendingChanges
    BY <1>1, <1>2, <1>3 DEF PendingChanges
<1>5. e.row.key = c.key
    BY <1>1 DEF RowAfter, NoTuple, WellFormed
<1>6. c.op # "I" => OldKeyOf(e) = c.old
    <2>1. CASE OldSent(c) = NoTuple
        <3>1. c.op # "I" => c.op = "U" /\ c.old = c.key
            BY <1>1, <2>1, NullAssumption DEF OldSent, NoTuple
        <3> QED BY <1>5, <2>1, <3>1 DEF OldKeyOf
    <2>2. CASE OldSent(c) # NoTuple
        BY <1>1, <2>2 DEF OldKeyOf, OldSent
    <2> QED BY <2>1, <2>2
<1>7. PendingStreamed(e) = StreamedChange(c)
    BY <1>1, <1>5, <1>6 DEF PendingStreamed, StreamedChange, Streamed
<1> QED BY <1>4, <1>6, <1>7

(* Applied to nearly the same tables, a change and what was read of it     *)
(* leave nearly the same tables.                                           *)
LEMMA NearApply ==
    ASSUME NEW t \in Contents, NEW r \in Contents, Near(r, t),
           NEW c \in ChangesOn(t), Possible(c, t), IsOwn(c), c.op # "T",
           NEW i \in 0..MaxChanges,
           NEW e, e = [op |-> c.op, index |-> i, old |-> OldSent(c), row |-> RowAfter(c)]
    PROVE  Near(Apply(r, e), AfterChange(t, c))
<1>1. /\ WellFormed(c)
      /\ c.op # "I" => OldKeyOf(e) = c.old
      /\ e.op = c.op /\ e.row = RowAfter(c)
      /\ c.op \in {"I", "U", "D"} /\ c.table = "orders"
    BY ChangesAreWellFormed, ReadBack DEF WellFormed, IsOwn, ChangeRecords
<1>2. ASSUME c.op = "D" PROVE Near(Apply(r, e), AfterChange(t, c))
    BY <1>1, <1>2 DEF Apply, AfterChange, Near, Contents
<1>3. ASSUME c.op \in {"I", "U"}, NEW k \in Keys,
             \/ Value(c.sent) = c.body
             \/ c.body \in Toasted /\ Value(c.sent) = Null
      PROVE  \/ Apply(r, e)[k] = AfterChange(t, c)[k]
             \/ AfterChange(t, c)[k] \in Toasted /\ Apply(r, e)[k] = Null
    <2>1. e.row.key = c.key /\ e.row.body = Value(c.sent) /\ e.op # "D"
        BY <1>1, <1>3 DEF RowAfter
    <2>2. CASE k = c.key
        <3>1. Apply(r, e)[k] = Value(c.sent) /\ AfterChange(t, c)[k] = c.body
            BY <1>1, <1>3, <2>1, <2>2 DEF Apply, AfterChange
        <3> QED BY <1>3, <3>1
    <2>3. CASE k # c.key
        <3>1. Apply(r, e)[k] = IF c.op # "I" /\ k = c.old THEN Absent ELSE r[k]
            BY <1>1, <2>1, <2>3 DEF Apply
        <3>2. AfterChange(t, c)[k] = IF c.op = "U" /\ k = c.old THEN Absent ELSE t[k]
            BY <1>1, <1>3, <2>3 DEF AfterChange
        <3> QED BY <1>3, <3>1, <3>2 DEF Near
    <2> QED BY <2>2, <2>3
<1>4. ASSUME c.op \in {"I", "U"}
      PROVE  \/ Value(c.sent) = c.body
             \/ c.body \in Toasted /\ Value(c.sent) = Null
    <2>1. CASE c.op = "I"
        <3>1. c.sent = c.body /\ c.sent \in Bodies \cup {Null}
            BY <1>1, <2>1 DEF ChangesOn, Change
        <3> QED BY <3>1, UnchangedAssumption DEF Value
    <2>2. CASE c.op = "U"
        <3>1. PICK j \in Keys, k \in Keys, b \in Bodies \cup {Null} :
                c = Change("U", "orders", j, k, b, Sent(t[j], b))
            BY <2>2 DEF ChangesOn, Change
        <3>2. c.sent = Sent(t[j], b) /\ c.body = b
            BY <3>1 DEF Change
        <3> QED BY <3>2, UnchangedAssumption DEF Value, Sent
    <2> QED BY <1>4, <2>1, <2>2
<1>5. ASSUME c.op \in {"I", "U"} PROVE Near(Apply(r, e), AfterChange(t, c))
    BY <1>3, <1>4, <1>5 DEF Near
<1> QED BY <1>1, <1>2, <1>5
-----------------------------------------------------------------------------
(* Where the server is in its transaction. *)
Positions ==
    /\ TxnOK
    /\ Len(txn) <= MaxChanges
    /\ at \in Idle..(Len(txn) + 1)
    /\ at = Idle /\ txn # <<>> => lsn < MaxLsn

(* Every description the server has sent in this session has been decoded. *)
SameRelations == announced = relations

(* The pending changes are those of the messages read, numbered from zero. *)
Decoded ==
    /\ pending \in Seq(PendingChanges)
    /\ at < 1 => pending = <<>> /\ change_index = 0
    /\ at >= 1 =>
        /\ current_xid = lsn
        /\ change_index = Len(pending)
        /\ Len(pending) <= at - 1
        /\ Len(pending) = Len(Own[at - 1])
        /\ \A n \in 1..Len(pending) :
            pending[n].index = n - 1 /\ PendingStreamed(pending[n]) = Own[at - 1][n]

(* f[n] is the table after n changes of the transaction. *)
History(f) ==
    /\ f \in [0..Len(txn) -> Contents]
    /\ f[Len(txn)] = source
    /\ \A n \in 1..Len(txn) :
        Possible(txn[n], f[n - 1]) /\ f[n] = AfterChange(f[n - 1], txn[n])

(* The replica, with the pending changes applied, is nearly the table after *)
(* the messages read.                                                       *)
Follows(f) ==
    /\ Near(replica, f[0])
    /\ at >= 1 => Near(ApplyAll(replica, pending), f[at - 1])
Replays == \E f : History(f) /\ Follows(f)

IInv == TypeOK /\ Positions /\ SameRelations /\ Decoded /\ Replays

(* Nothing has been sent or read. *)
LEMMA InitIInv == Init => IInv
<1> SUFFICES ASSUME Init PROVE IInv
    OBVIOUS
<1>1. TypeOK
    BY BoundsAssumption DEF Init, TypeOK, Idle, None, Tables
<1>2. Positions /\ SameRelations
    BY BoundsAssumption DEF Init, Positions, SameRelations, TxnOK, Idle
<1>3. Decoded
    BY DEF Init, Decoded, Idle
<1>4. Replays
    <2> DEFINE f == [n \in 0..0 |-> source]
    <2>1. Len(txn) = 0 /\ 1..0 = {} /\ source \in Contents /\ at = -1 /\ replica = source
        BY DEF Init, Contents, Idle
    <2>2. f \in [0..0 -> Contents] /\ f[0] = source
        BY <2>1
    <2> HIDE DEF f
    <2>3. History(f) /\ Follows(f)
        BY <2>1, <2>2 DEF History, Follows, Near
    <2> QED BY <2>3 DEF Replays
<1> QED BY <1>1, <1>2, <1>3, <1>4 DEF IInv

(* The numbers of the invariant. *)
LEMMA Numbers ==
    ASSUME IInv
    PROVE  /\ Len(txn) \in 0..MaxChanges /\ Len(txn) \in Nat /\ MaxChanges \in Nat
           /\ MaxLsn \in Nat /\ lsn \in Nat
           /\ at \in Int /\ Idle = -1 /\ at >= -1 /\ at <= Len(txn) + 1
           /\ Len(pending) \in Nat
<1>1. Len(txn) \in Nat /\ Len(pending) \in Nat
    BY DEF IInv, Positions, TxnOK, Decoded
<1> QED BY <1>1, BoundsAssumption DEF IInv, Positions, TypeOK, Idle

(* Source and transaction the same, the history is the same. *)
LEMMA HistoryKept ==
    ASSUME UNCHANGED <<txn, source>>, NEW f, History(f)
    PROVE  History(f)'
BY DEF History, Possible, ChangesOn, AfterChange

(* A change of the source. *)
LEMMA SourceChangeKeeps ==
    ASSUME IInv, SourceChange
    PROVE  /\ IInv'
           /\ \/ OwnChanges' = OwnChanges
              \/ \E c \in StreamChanges : OwnChanges' = Append(OwnChanges, c)
<1>1. PICK c \in ChangesOn(source) :
        Possible(c, source) /\ txn' = Append(txn, c) /\ source' = AfterChange(source, c)
    BY DEF SourceChange
<1>2. /\ at = Idle /\ lsn < MaxLsn /\ Len(txn) < MaxChanges
      /\ UNCHANGED <<identity, version, lsn, at, announced, relations, pending,
                     current_xid, change_index, events, replica>>
    BY DEF SourceChange, decoderVars
<1>3. WellFormed(c) /\ source' \in Contents
    BY <1>1, ChangesAreWellFormed DEF IInv, TypeOK, Contents
<1>4. /\ TxnOK'
      /\ OwnChanges' = IF IsOwn(c) THEN Append(OwnChanges, StreamedChange(c)) ELSE OwnChanges
    BY <1>1, <1>3, OwnOneMore DEF IInv, Positions
<1> DEFINE N == Len(txn)
<1>5. /\ N \in Nat /\ Len(txn') = N + 1 /\ txn'[N + 1] = c
      /\ \A n \in 1..N : txn'[n] = txn[n]
    BY <1>1, <1>3 DEF IInv, Positions, TxnOK, WellFormed
<1>6. TypeOK'
    BY <1>2, <1>3 DEF IInv, TypeOK, Contents
<1>7. Positions' /\ SameRelations'
    BY <1>2, <1>4, <1>5, Numbers DEF IInv, Positions, SameRelations
<1>8. Decoded'
    BY <1>2, Numbers DEF IInv, Decoded
<1>9. Replays'
    <2>1. PICK f : History(f) /\ Follows(f)
        BY DEF IInv, Replays
    <2>2. f \in [0..N -> Contents] /\ f[N] = source
        BY <2>1 DEF History
    <2>3. PICK g \in [0..(N + 1) -> Contents] :
            g[N + 1] = source' /\ \A n \in 0..N : g[n] = f[n]
        <3> DEFINE h == [n \in 0..(N + 1) |-> IF n = N + 1 THEN source' ELSE f[n]]
        <3>1. \A n \in 0..(N + 1) : n = N + 1 \/ n \in 0..N
            BY <1>5
        <3>2. h \in [0..(N + 1) -> Contents]
            BY <1>3, <2>2, <3>1
        <3>3. h[N + 1] = source' /\ \A n \in 0..N : h[n] = f[n]
            BY <1>5
        <3> QED BY <3>2, <3>3
    <2>5. ASSUME NEW n \in 1..(N + 1)
          PROVE  Possible(txn'[n], g[n - 1]) /\ g[n] = AfterChange(g[n - 1], txn'[n])
        <3>1. CASE n = N + 1
            <4>1. n - 1 = N /\ N \in 0..N
                BY <1>5, <3>1
            <4>2. g[n - 1] = source /\ txn'[n] = c /\ g[n] = source'
                BY <1>5, <2>2, <2>3, <3>1, <4>1
            <4> QED BY <1>1, <4>2
        <3>2. CASE n \in 1..N
            <4>1. n \in 0..N /\ n - 1 \in 0..N
                BY <1>5, <3>2
            <4>2. g[n - 1] = f[n - 1] /\ g[n] = f[n] /\ txn'[n] = txn[n]
                BY <1>5, <2>3, <3>2, <4>1
            <4> QED BY <2>1, <3>2, <4>2 DEF History
        <3> QED BY <1>5, <3>1, <3>2
    <2>6. History(g)'
        <3>1. Len(txn)' = N + 1
            BY <1>5
        <3>2. /\ g \in [0..Len(txn') -> Contents] /\ g[Len(txn')] = source'
              /\ \A n \in 1..Len(txn') :
                    Possible(txn'[n], g[n - 1]) /\ g[n] = AfterChange(g[n - 1], txn'[n])
            BY <2>3, <2>5, <3>1
        <3> QED BY <3>2 DEF History
    <2>7. Follows(g)'
        <3>1. g[0] = f[0] /\ at' = -1
            BY <1>2, <1>5, <2>3, Numbers
        <3> QED BY <1>2, <2>1, <3>1 DEF Follows, Near
    <2> QED BY <2>6, <2>7 DEF Replays
<1>10. IsOwn(c) => StreamedChange(c) \in StreamChanges
    BY <1>3, StreamedType
<1> QED BY <1>4, <1>6, <1>7, <1>8, <1>9, <1>10 DEF IInv

(* While nothing of a transaction has been read, nothing is pending.       *)
LEMMA NothingReadKeeps ==
    ASSUME IInv, UNCHANGED <<txn, source, replica>>,
           TypeOK', at' \in {Idle, 0}, SameRelations',
           at' = Idle => (at = Idle /\ lsn' = lsn),
           pending' = <<>> /\ change_index' = 0
    PROVE  IInv'
<1>1. TxnOK'
    BY OwnKept DEF IInv, Positions
<1>2. at' < 1 /\ at' \in Idle..(Len(txn') + 1)
    BY Numbers
<1>3. Positions'
    BY <1>1, <1>2 DEF IInv, Positions
<1>4. Decoded'
    BY <1>2 DEF Decoded
<1>5. Replays'
    <2>1. PICK f : History(f) /\ Follows(f)
        BY DEF IInv, Replays
    <2>2. History(f)'
        BY <2>1, HistoryKept
    <2>3. Follows(f)'
        BY <1>2, <2>1 DEF Follows, Near
    <2> QED BY <2>2, <2>3 DEF Replays
<1> QED BY <1>3, <1>4, <1>5 DEF IInv

(* The transaction is committed, and its BEGIN is the next message. *)
LEMMA SourceCommitKeeps == ASSUME IInv, SourceCommit PROVE IInv'
<1>1. /\ at = Idle /\ txn # <<>> /\ at' = 0 /\ lsn' = lsn + 1
      /\ UNCHANGED <<source, identity, version, txn, announced, relations, pending,
                     current_xid, change_index, events, replica>>
    BY DEF SourceCommit, decoderVars
<1>2. lsn < MaxLsn
    BY <1>1 DEF IInv, Positions
<1>3. TypeOK'
    BY <1>1, <1>2, Numbers DEF IInv, TypeOK
<1>4. at' # Idle /\ pending' = <<>> /\ change_index' = 0 /\ SameRelations'
    BY <1>1, Numbers DEF IInv, Decoded, SameRelations
<1> QED BY <1>1, <1>3, <1>4, NothingReadKeeps

(* ALTER TABLE changes no row. *)
LEMMA AlterTableKeeps == ASSUME IInv, AlterTable PROVE IInv'
<1>1. /\ at = Idle /\ at' = at
      /\ version["orders"] < MaxVersion
      /\ version' = [version EXCEPT !["orders"] = version["orders"] + 1]
      /\ UNCHANGED <<source, identity, txn, lsn, announced, relations, pending,
                     current_xid, change_index, events, replica>>
    BY DEF AlterTable, decoderVars
<1>2. version' \in [Tables -> 1..MaxVersion]
    BY <1>1, BoundsAssumption DEF IInv, TypeOK, Tables
<1>3. TypeOK'
    BY <1>1, <1>2 DEF IInv, TypeOK
<1>4. at < 1 /\ pending' = <<>> /\ change_index' = 0 /\ SameRelations'
    BY <1>1, Numbers DEF IInv, Decoded, SameRelations
<1> QED BY <1>1, <1>3, <1>4, NothingReadKeeps

(* A session ends and another begins. *)
LEMMA NewSessionKeeps == ASSUME IInv, NewSession PROVE IInv'
<1>1. /\ at' = IF at = Idle THEN Idle ELSE 0
      /\ announced' = [t \in Tables |-> None] /\ relations' = [t \in Tables |-> None]
      /\ pending' = <<>> /\ current_xid' = None /\ change_index' = 0
      /\ UNCHANGED <<source, identity, version, txn, lsn, events, replica>>
    BY DEF NewSession, NewDecoder
<1>2. announced' \in [Tables -> 0..MaxVersion] /\ None \in 0..MaxLsn
    BY <1>1, BoundsAssumption DEF None
<1>3. TypeOK'
    BY <1>1, <1>2, Numbers DEF IInv, TypeOK
<1>4. (at' = Idle => at = Idle) /\ SameRelations'
    BY <1>1, Numbers DEF SameRelations
<1> QED BY <1>1, <1>3, <1>4, NothingReadKeeps

(* BEGIN. *)
LEMMA DecodeBeginKeeps == ASSUME IInv, DecodeBegin PROVE IInv'
<1>1. /\ at = 0 /\ at' = 1 /\ current_xid' = lsn /\ pending' = <<>> /\ change_index' = 0
      /\ UNCHANGED <<source, identity, version, txn, lsn, announced, relations, events, replica>>
    BY DEF DecodeBegin
<1>2. TypeOK'
    BY <1>1, Numbers DEF IInv, TypeOK
<1>3. Positions' /\ SameRelations'
    BY <1>1, OwnKept, Numbers DEF IInv, Positions, SameRelations
<1>4. Decoded'
    <2>1. Own' = Own /\ Own[0] = <<>>
        BY <1>1, OwnKept, OwnExists DEF IInv, Positions, OwnRule
    <2>2. Len(pending') = 0 /\ at' - 1 = 0
        BY <1>1
    <2> QED BY <1>1, <2>1, <2>2 DEF Decoded
<1>5. Replays'
    <2>1. PICK f : History(f) /\ Follows(f)
        BY DEF IInv, Replays
    <2>2. History(f)'
        BY <1>1, <2>1, HistoryKept
    <2>3. Near(replica, f[0]) /\ ApplyAll(replica', pending') = replica /\ at' - 1 = 0
        BY <1>1, <2>1, ApplyNone DEF Follows
    <2>4. Follows(f)'
        BY <1>1, <2>3 DEF Follows, Near
    <2> QED BY <2>2, <2>4 DEF Replays
<1> QED BY <1>2, <1>3, <1>4, <1>5 DEF IInv

(* A relation is described, and the description decoded. *)
LEMMA DecodeRelationKeeps == ASSUME IInv, DecodeRelation PROVE IInv'
<1>1. PICK t \in Tables :
        /\ announced' = [announced EXCEPT ![t] = version[t]]
        /\ relations' = [relations EXCEPT ![t] = version[t]]
    BY DEF DecodeRelation
<1>2. UNCHANGED <<source, identity, version, txn, lsn, at, pending, current_xid,
                  change_index, events, replica>>
    BY DEF DecodeRelation
<1>3. TypeOK'
    <2>1. version[t] \in 0..MaxVersion
        BY BoundsAssumption DEF IInv, TypeOK
    <2> QED BY <1>1, <1>2, <2>1 DEF IInv, TypeOK
<1>4. Positions' /\ SameRelations'
    BY <1>1, <1>2, OwnKept DEF IInv, Positions, SameRelations
<1>5. Decoded'
    BY <1>2, OwnKept DEF IInv, Decoded
<1>6. Replays'
    <2>1. PICK f : History(f) /\ Follows(f)
        BY DEF IInv, Replays
    <2>2. History(f)'
        BY <1>2, <2>1, HistoryKept
    <2>3. Follows(f)'
        BY <1>2, <2>1 DEF Follows, Near, ApplyAll, Apply, OldKeyOf
    <2> QED BY <2>2, <2>3 DEF Replays
<1> QED BY <1>3, <1>4, <1>5, <1>6 DEF IInv

(* A message that is not about the table: another table's, or unknown. *)
LEMMA OtherMessageKeeps ==
    ASSUME IInv, at \in 1..Len(txn), ~IsOwn(txn[at]), at' = at + 1,
           UNCHANGED <<source, identity, version, txn, lsn, announced, relations, pending,
                       current_xid, change_index, events, replica>>
    PROVE  IInv'
<1>0. at + 1 \in Idle..(MaxChanges + 1) /\ at + 1 \in Idle..(Len(txn) + 1) /\ at + 1 # Idle
    BY Numbers
<1>1. TypeOK'
    BY <1>0 DEF IInv, TypeOK
<1>2. Positions' /\ SameRelations'
    BY <1>0, OwnKept DEF IInv, Positions, SameRelations
<1>3. Own' = Own /\ Own[at] = Own[at - 1] /\ at \in Nat /\ (at + 1) - 1 = at
    BY OwnKept, OwnExists, Numbers DEF IInv, Positions, OwnRule
<1>4. Decoded'
    BY <1>3, Numbers DEF IInv, Decoded
<1>5. Replays'
    <2>1. PICK f : History(f) /\ Follows(f)
        BY DEF IInv, Replays
    <2>2. History(f)'
        BY <2>1, HistoryKept
    <2>3. f[at] = f[at - 1]
        BY <2>1 DEF History, AfterChange, IsOwn
    <2>4. Follows(f)'
        BY <1>3, <2>1, <2>3, Numbers DEF Follows, Near, ApplyAll, Apply, OldKeyOf
    <2> QED BY <2>2, <2>4 DEF Replays
<1> QED BY <1>1, <1>2, <1>4, <1>5 DEF IInv

(* A change of the table. *)
LEMMA OwnMessageKeeps ==
    ASSUME IInv, at \in 1..Len(txn), IsOwn(txn[at]), txn[at].op # "T", at' = at + 1,
           NEW e, e = [op |-> txn[at].op, index |-> change_index,
                       old |-> OldSent(txn[at]), row |-> RowAfter(txn[at])],
           pending' = Append(pending, e), change_index' = change_index + 1,
           UNCHANGED <<source, identity, version, txn, lsn, announced, relations,
                       current_xid, events, replica>>
    PROVE  IInv'
<1> DEFINE c == txn[at]
           P == Len(pending)
<1>1. /\ WellFormed(c) /\ at \in Nat /\ at - 1 \in Nat /\ (at + 1) - 1 = at
      /\ P \in Nat /\ change_index = P /\ P <= at - 1 /\ P = Len(Own[at - 1])
      /\ P + 1 <= MaxChanges /\ change_index \in 0..MaxChanges
      /\ pending \in Seq(PendingChanges)
    BY Numbers DEF IInv, Positions, TxnOK, Decoded
<1>2. e \in PendingChanges /\ PendingStreamed(e) = StreamedChange(c)
    BY <1>1, ReadBack
<1>3. /\ pending' \in Seq(PendingChanges) /\ Len(pending') = P + 1
      /\ pending'[P + 1] = e /\ \A n \in 1..P : pending'[n] = pending[n]
    BY <1>1, <1>2
<1>4. TypeOK'
    <2>1. \A n \in DOMAIN pending' : pending'[n] \in PendingChanges
        BY <1>3
    <2>2. change_index + 1 \in 0..MaxChanges /\ Len(pending') <= MaxChanges
        BY <1>1, <1>3, Numbers
    <2>3. at + 1 \in Idle..(MaxChanges + 1)
        BY Numbers
    <2> QED BY <2>1, <2>2, <2>3 DEF IInv, TypeOK
<1>5. Positions' /\ SameRelations'
    BY OwnKept, Numbers DEF IInv, Positions, SameRelations
<1>6. /\ Own' = Own /\ Own[at - 1] \in Seq(StreamChanges)
      /\ Own[at] = Append(Own[at - 1], StreamedChange(c))
    <2>1. OwnRule(Own) /\ Own' = Own
        BY OwnKept, OwnExists DEF IInv, Positions
    <2>2. at - 1 \in 0..Len(txn)
        BY Numbers
    <2> QED BY <2>1, <2>2 DEF OwnRule
<1>7. /\ Len(Own[at]) = P + 1 /\ Own[at][P + 1] = StreamedChange(c)
      /\ \A n \in 1..P : Own[at][n] = Own[at - 1][n]
    BY <1>1, <1>6
<1>8. \A n \in 1..(P + 1) :
            pending'[n].index = n - 1 /\ PendingStreamed(pending'[n]) = Own[at][n]
    <2>1. pending'[P + 1].index = (P + 1) - 1
        BY <1>1, <1>3
    <2>2. \A n \in 1..P : pending'[n].index = n - 1 /\ PendingStreamed(pending'[n]) = Own[at][n]
        BY <1>1, <1>3, <1>7 DEF IInv, Decoded
    <2>3. \A n \in 1..(P + 1) : n = P + 1 \/ n \in 1..P
        BY <1>1
    <2> HIDE DEF P, c
    <2> QED BY <1>2, <1>3, <1>7, <2>1, <2>2, <2>3
<1>9. Decoded'
    <2>1. \A n \in 1..Len(pending') :
            pending'[n].index = n - 1 /\ PendingStreamed(pending'[n])= Own'[at' - 1][n]
        BY <1>1, <1>3, <1>6, <1>8
    <2>2. current_xid' = lsn' /\ change_index' = Len(pending') /\ Len(pending') <= at' - 1
        BY <1>1, <1>3 DEF IInv, Decoded
    <2>3. Len(pending') = Len(Own'[at' - 1]) /\ ~(at' < 1)
        BY <1>1, <1>3, <1>6, <1>7
    <2> QED BY <1>3, <2>1, <2>2, <2>3 DEF Decoded, PendingStreamed, OldKeyOf, Streamed
<1>10. Replays'
    <2>1. PICK f : History(f) /\ Follows(f)
        BY DEF IInv, Replays
    <2>2. History(f)'
        BY <2>1, HistoryKept
    <2> DEFINE t == f[at - 1]
               r == ApplyAll(replica, pending)
    <2>3. /\ t \in Contents /\ Possible(c, t) /\ c \in ChangesOn(t)
          /\ f[at] = AfterChange(t, c) /\ Near(r, t)
        <3>1. at - 1 \in 0..Len(txn) /\ at >= 1
            BY Numbers
        <3>2. t \in Contents /\ Possible(c, t) /\ f[at] = AfterChange(t, c)
            BY <2>1, <3>1 DEF History
        <3> QED BY <2>1, <3>1, <3>2 DEF Possible, Follows
    <2>4. r \in Contents /\ ApplyAll(replica, pending') = Apply(r, e)
        <3>1. replica \in Contents
            BY DEF IInv, TypeOK, Contents
        <3> QED BY <1>1, <1>2, <3>1, ApplyOneMore
    <2> HIDE DEF t, r, c
    <2>5. Near(Apply(r, e), AfterChange(t, c))
        BY <1>1, <2>3, <2>4, NearApply DEF c
    <2>6. Near(ApplyAll(replica, pending'), f[at])
        BY <2>3, <2>4, <2>5
    <2>7. Follows(f)'
        <3>1. Near(replica, f[0])
            BY <2>1 DEF Follows
        <3>2. replica' = replica /\ at' - 1 = at
            BY <1>1
        <3>3. Near(ApplyAll(replica', pending'), f[at' - 1])
            BY <2>6, <3>2
        <3> QED BY <3>1, <3>2, <3>3 DEF Follows, Near
    <2> QED BY <2>2, <2>7 DEF Replays
<1> QED BY <1>4, <1>5, <1>9, <1>10 DEF IInv

(* INSERT, UPDATE or DELETE of some table. *)
LEMMA DecodeChangeKeeps == ASSUME IInv, DecodeChange PROVE IInv'
<1>1. /\ at \in 1..Len(txn) /\ txn[at].op \notin {"T", "Y"} /\ at' = at + 1
      /\ UNCHANGED <<source, identity, version, txn, lsn, announced, relations,
                     current_xid, events, replica>>
      /\ IF txn[at].table = "orders"
         THEN /\ pending' = Append(pending, [op |-> txn[at].op, index |-> change_index,
                                             old |-> OldSent(txn[at]), row |-> RowAfter(txn[at])])
              /\ change_index' = change_index + 1
         ELSE UNCHANGED <<pending, change_index>>
    BY DEF DecodeChange, Sending, Readable
<1>2. CASE txn[at].table = "orders"
    BY <1>1, <1>2, OwnMessageKeeps DEF IsOwn
<1>3. CASE txn[at].table # "orders"
    BY <1>1, <1>3, OtherMessageKeeps DEF IsOwn
<1> QED BY <1>2, <1>3

(* A message the decoder has no branch for. *)
LEMMA DecodeOtherKeeps == ASSUME IInv, DecodeOther PROVE IInv'
BY OtherMessageKeeps DEF DecodeOther, IsOwn, decoderVars

(* COMMIT: the pending changes are returned, and applied. *)
LEMMA DecodeCommitKeeps == ASSUME IInv, DecodeCommit PROVE IInv'
<1>1. /\ at = Len(txn) + 1 /\ at' = Idle /\ txn' = <<>>
      /\ replica' = ApplyAll(replica, pending)
      /\ pending' = <<>> /\ current_xid' = None /\ change_index' = 0
      /\ UNCHANGED <<source, identity, version, lsn, announced, relations>>
    BY DEF DecodeCommit
<1>2. replica' \in Contents
    <2>1. replica \in Contents /\ pending \in Seq(PendingChanges)
        BY DEF IInv, TypeOK, Contents, Decoded
    <2>2. CASE pending = <<>>
        BY <1>1, <2>1, <2>2, ApplyNone
    <2>3. CASE pending # <<>>
        <3> DEFINE P == Len(pending)
                   es == [n \in 1..(P - 1) |-> pending[n]]
                   e == pending[P]
        <3>1. P \in Nat \ {0} /\ e \in PendingChanges
            BY <2>1, <2>3
        <3>2. es \in Seq(PendingChanges) /\ pending = Append(es, e)
            BY <2>1, <3>1
        <3> HIDE DEF es, e, P
        <3>3. /\ ApplyAll(replica, es) \in Contents
              /\ replica' = Apply(ApplyAll(replica, es), e)
            BY <1>1, <2>1, <3>1, <3>2, ApplyOneMore
        <3> QED BY <3>1, <3>3, ApplyType
    <2> QED BY <2>2, <2>3
<1>3. TypeOK'
    <2>1. None \in 0..MaxLsn /\ Idle \in Idle..(MaxChanges + 1) /\ 0 \in 0..MaxChanges
        BY Numbers DEF None
    <2>2. Len(pending') <= MaxChanges /\ DOMAIN pending' = {}
        BY <1>1, Numbers
    <2> QED BY <1>1, <1>2, <2>1, <2>2 DEF IInv, TypeOK, Contents
<1>4. TxnOK' /\ Len(txn') = 0
    BY <1>1 DEF TxnOK
<1>5. Positions' /\ SameRelations'
    BY <1>1, <1>4, Numbers DEF IInv, Positions, SameRelations
<1>6. Decoded'
    BY <1>1, Numbers DEF Decoded
<1>7. Replays'
    <2>1. PICK f : History(f) /\ Follows(f)
        BY DEF IInv, Replays
    <2>2. Near(ApplyAll(replica, pending), f[at - 1]) /\ f[Len(txn)] = source /\ at - 1 = Len(txn)
        BY <1>1, <2>1, Numbers DEF Follows, History
    <2>3. Near(replica', source')
        BY <1>1, <2>2
    <2>4. PICK g \in [0..0 -> Contents] : g[0] = source'
        <3>1. source' \in Contents
            BY <1>1 DEF IInv, TypeOK, Contents
        <3> DEFINE h == [n \in 0..0 |-> source']
        <3>2. h \in [0..0 -> Contents] /\ h[0] = source'
            BY <3>1
        <3> QED BY <3>2
    <2>5. History(g)'
        <3>1. 1..0 = {}
            OBVIOUS
        <3> QED BY <1>4, <2>4, <3>1 DEF History
    <2>6. Follows(g)'
        <3>1. ~(at' >= 1)
            BY <1>1, Numbers
        <3> QED BY <2>3, <2>4, <3>1 DEF Follows, Near
    <2> QED BY <2>5, <2>6 DEF Replays
<1> QED BY <1>3, <1>5, <1>6, <1>7 DEF IInv

(* The invariant is kept by every step. *)
LEMMA StepIInv == IInv /\ [Next]_vars => IInv'
<1> SUFFICES ASSUME IInv, [Next]_vars PROVE IInv'
    OBVIOUS
<1>1. CASE UNCHANGED vars
    <2>1. UNCHANGED <<source, identity, version, txn, lsn, at, announced, relations, pending,
                      current_xid, change_index, events, replica>>
        BY <1>1 DEF vars
    <2>2. Own' = Own /\ TxnOK' = TxnOK
        BY <2>1, OwnKept
    <2>3. TypeOK' /\ Positions' /\ SameRelations' /\ Decoded'
        BY <2>1, <2>2 DEF IInv, TypeOK, Positions, SameRelations, Decoded
    <2>4. PICK f : History(f) /\ Follows(f)
        BY DEF IInv, Replays
    <2>5. History(f)'
        BY <2>1, <2>4, HistoryKept
    <2>6. Follows(f)'
        BY <2>1, <2>4 DEF Follows, Near, ApplyAll, Apply, OldKeyOf
    <2> QED BY <2>3, <2>5, <2>6 DEF IInv, Replays
<1>2. CASE Next
    BY <1>2, SourceChangeKeeps, SourceCommitKeeps, AlterTableKeeps, DecodeBeginKeeps,
       DecodeRelationKeeps, DecodeChangeKeeps, DecodeOtherKeeps, DecodeCommitKeeps,
       NewSessionKeeps DEF Next, Decode, Raise, Disconnect
<1> QED BY <1>1, <1>2

(* The invariant holds in every reachable state. *)
THEOREM SpecIInv == Spec => []IInv
BY InitIInv, StepIInv, PTL DEF Spec

(* Every variable of the server and the decoder keeps its type. *)
THEOREM SpecTypeOK == Spec => []TypeOK
<1>1. IInv => TypeOK
    BY DEF IInv
<1> QED BY SpecIInv, <1>1, PTL

(***************************************************************************)
(* After any number of lost sessions and ALTER TABLEs, a relation is       *)
(* described before the decoder needs it: only a TRUNCATE makes            *)
(* decode_message raise for ever (decode.py:107).                          *)
(***************************************************************************)
THEOREM SpecOnlyTruncateRaises == Spec => []OnlyTruncateRaises
<1>1. IInv => OnlyTruncateRaises
    BY DEF IInv, SameRelations, OnlyTruncateRaises, MustDescribe, Readable
<1> QED BY SpecIInv, <1>1, PTL

(***************************************************************************)
(* Events applied in their order rebuild the source table after every      *)
(* transaction, but for nulls in place of values stored out of line: the   *)
(* unchanged marker read as a null (decode.py:218) is the only error.      *)
(***************************************************************************)
THEOREM SpecOnlyToastedValuesDiffer == Spec => []OnlyToastedValuesDiffer
<1>1. IInv => OnlyToastedValuesDiffer
    <2> SUFFICES ASSUME IInv, txn = <<>> PROVE Near(replica, source)
        BY DEF OnlyToastedValuesDiffer, Near
    <2>1. PICK f : History(f) /\ Follows(f)
        BY DEF IInv, Replays
    <2>2. Len(txn) = 0
        OBVIOUS
    <2> QED BY <2>1, <2>2 DEF History, Follows
<1> QED BY SpecIInv, <1>1, PTL
-----------------------------------------------------------------------------
(* Steps that leave transaction, position and events alone are stutters of *)
(* the stream, whether something is being sent or not.                     *)
LEMMA StreamStutters ==
    ASSUME UNCHANGED <<txn, lsn, events>>, at' = Idle <=> at = Idle
    PROVE  UNCHANGED Stream!vars
BY OwnKept DEF Stream!vars

(* What the decoder returns for a COMMIT is what the stream delivers. *)
LEMMA CommitDelivers ==
    ASSUME IInv, DecodeCommit
    PROVE  Stream!Deliver
<1>1. /\ at = Len(txn) + 1 /\ at' = Idle /\ txn' = <<>> /\ lsn' = lsn
      /\ events' = [n \in DOMAIN pending |->
                        [lsn |-> lsn, xid |-> current_xid, change |-> pending[n]]]
    BY DEF DecodeCommit
<1>2. /\ at # Idle /\ at >= 1 /\ at - 1 = Len(txn) /\ OwnChanges = Own[at - 1]
      /\ OwnRule(Own)
    BY <1>1, OwnChangesAre, OwnExists, Numbers DEF IInv, Positions
<1>3. /\ current_xid = lsn /\ pending \in Seq(PendingChanges)
      /\ OwnChanges \in Seq(StreamChanges) /\ Len(pending) = Len(OwnChanges)
      /\ \A n \in 1..Len(pending) :
            pending[n].index = n - 1 /\ PendingStreamed(pending[n]) = OwnChanges[n]
    BY <1>2, Numbers DEF IInv, Decoded, OwnRule
<1>4. OwnChanges' = <<>>
    <2>1. TxnOK' /\ Len(txn') = 0
        BY <1>1 DEF TxnOK
    <2>2. OwnRule(Own)' /\ OwnChanges' = Own'[Len(txn')]
        BY <2>1, OwnThen DEF OwnRight
    <2>3. Own'[0] = <<>>
        BY <2>2 DEF OwnRule
    <2> QED BY <2>1, <2>2, <2>3
<1>5. DOMAIN pending = 1..Len(pending) /\ DOMAIN OwnChanges = 1..Len(pending)
    BY <1>3
<1>6. \A n \in DOMAIN OwnChanges : OwnChanges[n].op # "T"
    <2>1. ASSUME NEW n \in 1..Len(pending) PROVE OwnChanges[n].op # "T"
        <3>1. pending[n].op \in {"I", "U", "D"}
            <4>1. pending[n] \in PendingChanges
                BY <1>3, <2>1
            <4> QED BY <4>1 DEF PendingChanges
        <3>2. OwnChanges[n] = Streamed(pending[n].op, OldKeyOf(pending[n]), pending[n].row.key)
            BY <1>3, <2>1 DEF PendingStreamed
        <3> QED BY <3>1, <3>2 DEF Streamed
    <2> QED BY <1>5, <2>1
<1>7. [n \in DOMAIN events' |-> StreamedEvent(events'[n])] =
        [n \in DOMAIN OwnChanges |-> Stream!Event(lsn, n - 1, OwnChanges[n])]
    <2>1. DOMAIN events' = DOMAIN OwnChanges
        BY <1>1, <1>5
    <2>2. ASSUME NEW n \in 1..Len(pending)
          PROVE  StreamedEvent(events'[n]) = Stream!Event(lsn, n - 1, OwnChanges[n])
        <3>1. events'[n] = [lsn |-> lsn, xid |-> lsn, change |-> pending[n]]
            BY <1>1, <1>3, <1>5
        <3>2. StreamedEvent(events'[n]) =
                [lsn |-> lsn, xid |-> lsn, index |-> pending[n].index,
                 change |-> PendingStreamed(pending[n])]
            BY <3>1 DEF StreamedEvent, PendingStreamed
        <3> QED BY <1>3, <3>2 DEF Stream!Event
    <2> QED BY <1>5, <2>1, <2>2
<1> DEFINE queue == <<[lsn |-> lsn, changes |-> OwnChanges]>>
<1>8. queue # <<>> /\ Head(queue) = [lsn |-> lsn, changes |-> OwnChanges] /\ Tail(queue) = <<>>
    OBVIOUS
<1>9. (IF at = Idle THEN <<>> ELSE queue) = queue
    BY <1>2
<1>10. (IF at = Idle THEN OwnChanges ELSE <<>>) = <<>> /\ (IF at = Idle THEN OwnChanges ELSE <<>>)' = <<>>
    BY <1>1, <1>2, <1>4
<1>11. (IF at = Idle THEN <<>> ELSE queue)' = <<>>
    BY <1>1
<1>12. [n \in DOMAIN events |-> StreamedEvent(events[n])]' =
            [n \in DOMAIN events' |-> StreamedEvent(events'[n])]
    BY DEF StreamedEvent, Streamed, OldKeyOf
<1> QED BY <1>1, <1>6, <1>7, <1>8, <1>9, <1>10, <1>11, <1>12 DEF Stream!Deliver

(* A step of the server and the decoder is a step of the stream or none. *)
LEMMA StepRefines == IInv /\ [Next]_vars => [Stream!Next]_(Stream!vars)
<1> SUFFICES ASSUME IInv, [Next]_vars PROVE [Stream!Next]_(Stream!vars)
    OBVIOUS
<1>1. CASE UNCHANGED vars
    BY <1>1, StreamStutters DEF vars
<1>2. CASE SourceChange
    <2>1. at = Idle /\ at' = Idle /\ UNCHANGED <<lsn, events>>
        BY <1>2 DEF SourceChange
    <2>2. CASE OwnChanges' = OwnChanges
        BY <2>1, <2>2 DEF Stream!vars, StreamedEvent, Streamed, OldKeyOf
    <2>3. CASE \E c \in StreamChanges : OwnChanges' = Append(OwnChanges, c)
        <3>1. Stream!Write
            BY <2>1, <2>3 DEF Stream!Write, StreamChanges, StreamedEvent, Streamed, OldKeyOf
        <3> QED BY <3>1 DEF Stream!Next
    <2> QED BY <1>2, <2>2, <2>3, SourceChangeKeeps
<1>3. CASE SourceCommit
    <2>1. at = Idle /\ at' # Idle /\ lsn' = lsn + 1 /\ UNCHANGED <<txn, events>>
        BY <1>3 DEF SourceCommit, Idle
    <2>2. OwnChanges' = OwnChanges
        BY <2>1, OwnKept
    <2>3. Append(<<>>, [lsn |-> lsn', changes |-> OwnChanges]) =
            <<[lsn |-> lsn', changes |-> OwnChanges]>>
        OBVIOUS
    <2>4. Stream!Commit
        BY <2>1, <2>2, <2>3 DEF Stream!Commit, StreamedEvent, Streamed, OldKeyOf
    <2> QED BY <2>4 DEF Stream!Next
<1>4. CASE DecodeCommit
    BY <1>4, CommitDelivers DEF Stream!Next
<1>5. CASE AlterTable \/ DecodeBegin \/ DecodeRelation \/ DecodeChange \/ DecodeOther \/ NewSession
    <2>1. UNCHANGED <<txn, lsn, events>>
        BY <1>5 DEF AlterTable, DecodeBegin, DecodeRelation, DecodeChange, DecodeOther, NewSession
    <2>2. at' = Idle <=> at = Idle
        <3>1. CASE AlterTable \/ DecodeRelation
            BY <3>1 DEF AlterTable, DecodeRelation
        <3>2. CASE DecodeBegin \/ DecodeChange \/ DecodeOther
            <4>1. at >= 0 /\ at' >= 0
                <5>1. CASE DecodeBegin
                    BY <5>1 DEF DecodeBegin
                <5>2. CASE DecodeChange \/ DecodeOther
                    <6>1. at \in 1..Len(txn) /\ at' = at + 1
                        BY <5>2 DEF DecodeChange, DecodeOther, Sending
                    <6> QED BY <6>1, Numbers
                <5> QED BY <3>2, <5>1, <5>2
            <4> QED BY <4>1, Numbers
        <3>3. CASE NewSession
            BY <3>3 DEF NewSession, Idle
        <3> QED BY <1>5, <3>1, <3>2, <3>3
    <2> QED BY <2>1, <2>2, StreamStutters
<1> QED BY <1>1, <1>2, <1>3, <1>4, <1>5 DEF Next, Decode, Raise, Disconnect

(***************************************************************************)
(* decode_message delivers the transactions of the source whole, once, in  *)
(* order and numbered from zero, whatever sessions were lost on the way:   *)
(* what the extract stage takes for granted is what the decoder does.      *)
(***************************************************************************)
THEOREM SpecDeliversWholeTransactions == Spec => DeliversWholeTransactions
<1>1. Init => Stream!Init
    <2> SUFFICES ASSUME Init PROVE Stream!Init
        OBVIOUS
    <2>1. at = Idle /\ txn = <<>> /\ lsn = 0 /\ events = <<>>
        BY DEF Init
    <2>2. TxnOK /\ Len(txn) = 0
        BY <2>1 DEF TxnOK
    <2>3. OwnChanges = <<>>
        BY <2>2, OwnExists, OwnChangesAre DEF OwnRule
    <2> QED BY <2>1, <2>3 DEF Stream!Init
<1> QED BY SpecIInv, <1>1, StepRefines, PTL DEF Spec, DeliversWholeTransactions, Stream!Spec
=============================================================================
