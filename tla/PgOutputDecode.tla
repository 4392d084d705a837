--------------------------- MODULE PgOutputDecode ---------------------------
(***************************************************************************)
(* PgOutputDecoder (strategies/logical_cdc/decode.py) reading pgoutput     *)
(* messages one at a time, and what _normalize_source_event makes of the   *)
(* events it returns.                                                      *)
(*                                                                         *)
(* The server is external: it sends each committed transaction as BEGIN,   *)
(* the changes of every published table and COMMIT, describes a relation   *)
(* before its first change of a session and again when its columns have    *)
(* changed, sends the old key as the replica identity says, and leaves out *)
(* of an UPDATE the values stored out of line (TOAST) that did not change. *)
(* A new session starts the unfinished transaction again.                  *)
(***************************************************************************)
EXTENDS Integers, Sequences

CONSTANTS
    Keys, Bodies,   \* the source table: key fields, the other fields
    Toasted,        \* the bodies stored out of line
    Identities,     \* replica identities the source may have: DEFAULT, FULL
    Null, Absent,
    MaxChanges,     \* bound: changes in a transaction
    MaxVersion,     \* bound: changes of the table's columns
    MaxLsn          \* bound: transactions

ASSUME ToastedAssumption == Toasted \subseteq Bodies
ASSUME NullAssumption == Null \notin Keys \cup Bodies \cup {Absent} /\ Absent \notin Bodies
ASSUME BoundsAssumption == MaxChanges \in Nat /\ MaxVersion \in Nat \ {0} /\ MaxLsn \in Nat

VARIABLES
    source,      \* the source table after the last transaction
    identity,    \* its replica identity
    version,     \* its columns
    txn, lsn,    \* the transaction being sent, and its position
    at,          \* the next message of it: 0 BEGIN, n change n, Len + 1 COMMIT
    announced,   \* what the server has described in this session
    relations, pending, current_xid, change_index,   \* the decoder's fields
    events,      \* returned by the last decode_message of a COMMIT
    replica      \* a table the events have been applied to

decoderVars == <<relations, pending, current_xid, change_index>>
vars == <<source, identity, version, txn, lsn, at, announced, relations, pending,
          current_xid, change_index, events, replica>>

Tables == {"orders", "other"}       \* source_table, and another published one
None == 0                           \* no relation known, no xid
Idle == -1
NoTuple == [key |-> Null, body |-> Absent]

(* What a transaction may do next to a table: a change of a row, a change  *)
(* of another table, a TRUNCATE, a message the decoder has no branch for.  *)
Change(op, table, old, key, body, sent) ==
    [op |-> op, table |-> table, old |-> old, key |-> key, body |-> body, sent |-> sent]

(* The value on the wire of an updated column. *)
Unchanged == "u"
ASSUME UnchangedAssumption == Unchanged \notin Bodies
Sent(before, after) == IF before = after /\ after \in Toasted THEN Unchanged ELSE after

ChangesOn(t) ==
    {Change("I", "orders", Null, k, b, b) : k \in {j \in Keys : t[j] = Absent}, b \in Bodies \cup {Null}}
    \cup {Change("U", "orders", j, k, b, Sent(t[j], b)) :
            j \in {i \in Keys : t[i] # Absent}, k \in Keys, b \in Bodies \cup {Null}}
    \cup {Change("D", "orders", j, Null, Absent, Absent) : j \in {i \in Keys : t[i] # Absent}}
    \cup {Change("I", "other", Null, k, Null, Null) : k \in Keys}
    \cup {Change("T", "orders", Null, Null, Absent, Absent),
          Change("Y", "orders", Null, Null, Absent, Absent)}

Possible(c, t) ==
    c \in ChangesOn(t) /\ (c.op = "U" => c.key = c.old \/ t[c.key] = Absent)

AfterChange(t, c) ==
    IF c.table # "orders" \/ c.op = "Y" THEN t
    ELSE [k \in Keys |->
            IF c.op \in {"I", "U"} /\ k = c.key THEN c.body
            ELSE IF c.op = "T" \/ (c.op \in {"U", "D"} /\ k = c.old) THEN Absent
            ELSE t[k]]
-----------------------------------------------------------------------------
NewDecoder ==
    /\ relations' = [t \in Tables |-> None]
    /\ pending' = <<>>
    /\ current_xid' = None
    /\ change_index' = 0

Init ==
    /\ source = [k \in Keys |-> Absent]
    /\ replica = source
    /\ identity \in Identities
    /\ version = [t \in Tables |-> 1]
    /\ txn = <<>> /\ lsn = 0 /\ at = Idle
    /\ announced = [t \in Tables |-> None]
    /\ relations = [t \in Tables |-> None]
    /\ pending = <<>> /\ current_xid = None /\ change_index = 0
    /\ events = <<>>

(* A transaction is built change by change, then sent. *)
SourceChange ==
    /\ at = Idle
    /\ lsn < MaxLsn
    /\ Len(txn) < MaxChanges
    /\ \E c \in ChangesOn(source) :
        /\ Possible(c, source)
        /\ txn' = Append(txn, c)
        /\ source' = AfterChange(source, c)
    /\ UNCHANGED <<identity, version, lsn, at, announced, decoderVars, events, replica>>

SourceCommit ==
    /\ at = Idle
    /\ txn # <<>>
    /\ lsn' = lsn + 1
    /\ at' = 0
    /\ UNCHANGED <<source, identity, version, txn, announced, decoderVars, events, replica>>

AlterTable ==
    /\ at = Idle /\ txn = <<>>
    /\ version["orders"] < MaxVersion
    /\ version' = [version EXCEPT !["orders"] = @ + 1]
    /\ UNCHANGED <<source, identity, txn, lsn, at, announced, decoderVars, events, replica>>
-----------------------------------------------------------------------------
(* The next message is change c, unless its relation must be described. *)
Sending(c) ==
    /\ at \in 1..Len(txn)
    /\ c = txn[at]

MustDescribe(c) == c.op # "Y" /\ announced[c.table] # version[c.table]

(* old_key: DEFAULT sends it when the key changed, FULL always. *)
OldSent(c) ==
    IF c.op = "D" \/ (c.op = "U" /\ (identity = "FULL" \/ c.old # c.key))
    THEN [key |-> c.old, body |-> Null] ELSE NoTuple

(* Mutant: the marker of an unchanged value is taken for the value. *)
RawValue(sent) == sent

(* _read_tuple_data: null and unchanged values both become None. *)
Value(sent) == IF sent \in {Null, Unchanged} THEN Null ELSE sent
RowAfter(c) == IF c.op = "D" THEN NoTuple ELSE [key |-> c.key, body |-> Value(c.sent)]

(* _read_relation and _read_tuple_data raise otherwise; so does a TRUNCATE. *)
Readable(c) ==
    c.op # "T" /\ (c.op # "Y" => relations[c.table] = version[c.table])

DecodeBegin ==
    /\ at = 0
    /\ at' = 1
    /\ current_xid' = lsn
    /\ pending' = <<>>
    /\ change_index' = 0
    /\ UNCHANGED <<source, identity, version, txn, lsn, announced, relations, events, replica>>

(* Mutant: a relation already known is not described again. *)
DecodeNewRelation ==
    /\ \E t \in Tables, c \in {txn[n] : n \in DOMAIN txn} :
        /\ Sending(c) /\ MustDescribe(c)
        /\ t = c.table
        /\ announced' = [announced EXCEPT ![t] = version[t]]
        /\ relations' = IF relations[t] # None THEN relations
                        ELSE [relations EXCEPT ![t] = version[t]]
    /\ UNCHANGED <<source, identity, version, txn, lsn, at, pending, current_xid,
                   change_index, events, replica>>

DecodeRelation ==
    /\ \E t \in Tables, c \in {txn[n] : n \in DOMAIN txn} :
        /\ Sending(c) /\ MustDescribe(c)
        /\ t = c.table
        /\ announced' = [announced EXCEPT ![t] = version[t]]
        /\ relations' = [relations EXCEPT ![t] = version[t]]
    /\ UNCHANGED <<source, identity, version, txn, lsn, at, pending, current_xid,
                   change_index, events, replica>>

(* Mutant: changes of other tables are counted too. *)
CountEveryChange ==
    /\ \E c \in {txn[n] : n \in DOMAIN txn} :
        /\ Sending(c) /\ ~MustDescribe(c) /\ Readable(c) /\ c.op # "Y"
        /\ change_index' = change_index + 1
        /\ IF c.table = "orders"
           THEN pending' = Append(pending, [op |-> c.op, index |-> change_index,
                                            old |-> OldSent(c), row |-> RowAfter(c)])
           ELSE UNCHANGED pending
    /\ at' = at + 1
    /\ UNCHANGED <<source, identity, version, txn, lsn, announced, relations,
                   current_xid, events, replica>>

(* _decode_insert, _decode_update, _decode_delete, then _append_change. *)
DecodeChange ==
    /\ \E c \in {txn[n] : n \in DOMAIN txn} :
        /\ Sending(c) /\ ~MustDescribe(c) /\ Readable(c) /\ c.op # "Y"
        /\ IF c.table = "orders"
           THEN /\ pending' = Append(pending, [op |-> c.op, index |-> change_index,
                                               old |-> OldSent(c), row |-> RowAfter(c)])
                /\ change_index' = change_index + 1
           ELSE UNCHANGED <<pending, change_index>>
    /\ at' = at + 1
    /\ UNCHANGED <<source, identity, version, txn, lsn, announced, relations,
                   current_xid, events, replica>>

DecodeOther ==
    /\ at \in 1..Len(txn)
    /\ txn[at].op = "Y"
    /\ at' = at + 1
    /\ UNCHANGED <<source, identity, version, txn, lsn, announced, decoderVars, events, replica>>

(* _normalize_source_event, and the events applied in their order. *)
OldKeyOf(e) == IF e.old # NoTuple THEN e.old.key ELSE e.row.key
(* Mutant: an UPDATE of the key leaves the row under the old key. *)
ApplyKeepingOldKey(t, e) ==
    [k \in Keys |->
        IF e.op # "D" /\ k = e.row.key THEN e.row.body
        ELSE IF e.op = "D" /\ k = OldKeyOf(e) THEN Absent ELSE t[k]]

Apply(t, e) ==
    [k \in Keys |->
        IF e.op # "D" /\ k = e.row.key THEN e.row.body
        ELSE IF e.op # "I" /\ k = OldKeyOf(e) THEN Absent ELSE t[k]]
ApplyAll(t, es) ==
    LET after[n \in 0..Len(es)] == IF n = 0 THEN t ELSE Apply(after[n - 1], es[n])
    IN  after[Len(es)]

DecodeCommit ==
    /\ at = Len(txn) + 1
    /\ events' = [n \in DOMAIN pending |->
                    [lsn |-> lsn, xid |-> current_xid, change |-> pending[n]]]
    /\ replica' = ApplyAll(replica, pending)
    /\ pending' = <<>>
    /\ current_xid' = None
    /\ change_index' = 0
    /\ at' = Idle
    /\ txn' = <<>>
    /\ UNCHANGED <<source, identity, version, lsn, announced, relations>>

(* The message raises PgOutputDecodeError, or the read ends for a reason of  *)
(* its own: the transaction is not finished and a later session has it sent  *)
(* again to a new decoder.                                                   *)
NewSession ==
    /\ announced' = [t \in Tables |-> None]
    /\ NewDecoder
    /\ at' = IF at = Idle THEN Idle ELSE 0
    /\ UNCHANGED <<source, identity, version, txn, lsn, events, replica>>

Raise ==
    /\ \E c \in {txn[n] : n \in DOMAIN txn} :
        Sending(c) /\ ~MustDescribe(c) /\ ~Readable(c)
    /\ NewSession

Disconnect == NewSession

Decode == DecodeBegin \/ DecodeRelation \/ DecodeChange \/ DecodeOther \/ DecodeCommit
Next == SourceChange \/ SourceCommit \/ AlterTable \/ Decode \/ Raise \/ Disconnect

Spec == Init /\ [][Next]_vars
-----------------------------------------------------------------------------
Tuples == [key : Keys \cup {Null}, body : Bodies \cup {Null, Absent}]
PendingChanges == [op : {"I", "U", "D"}, index : 0..MaxChanges, old : Tuples, row : Tuples]

TypeOK ==
    /\ source \in [Keys -> Bodies \cup {Null, Absent}]
    /\ replica \in [Keys -> Bodies \cup {Null, Absent}]
    /\ identity \in Identities
    /\ version \in [Tables -> 1..MaxVersion]
    /\ lsn \in 0..MaxLsn /\ at \in Idle..MaxChanges + 1
    /\ announced \in [Tables -> 0..MaxVersion] /\ relations \in [Tables -> 0..MaxVersion]
    /\ Len(pending) <= MaxChanges
    /\ \A n \in DOMAIN pending : pending[n] \in PendingChanges
    /\ current_xid \in 0..MaxLsn /\ change_index \in 0..MaxChanges

(***************************************************************************)
(* A replica that applies the returned events, and nothing else, is the    *)
(* source table whenever a transaction has been decoded: none of its       *)
(* changes is missing, doubled after a reconnection, taken from another    *)
(* table or out of order, and a row that changed its key is there once.    *)
(***************************************************************************)
ReplicaIsSource == (at = Idle /\ txn = <<>>) => replica = source

(***************************************************************************)
(* With values stored out of line the replica differs in those values      *)
(* alone, and where it differs it has a null: keys, deletions and all the  *)
(* other values are the source's.                                          *)
(***************************************************************************)
OnlyToastedValuesDiffer ==
    (at = Idle /\ txn = <<>>) =>
        \A k \in Keys : replica[k] = source[k] \/ (source[k] \in Toasted /\ replica[k] = Null)

(* TransactionStream's view of a change, of a transaction and of an event. *)
Streamed(op, old, key) == [op |-> op, from |-> IF op = "I" THEN key ELSE old, to |-> key]
IsOwn(c) == c.table = "orders" /\ c.op # "Y"
OwnChanges ==
    LET own[n \in 0..Len(txn)] ==
            IF n = 0 THEN <<>>
            ELSE IF IsOwn(txn[n])
                 THEN Append(own[n - 1], Streamed(txn[n].op, txn[n].old, txn[n].key))
                 ELSE own[n - 1]
    IN  own[Len(txn)]
StreamedEvent(e) ==
    [lsn |-> e.lsn, xid |-> e.xid, index |-> e.change.index,
     change |-> Streamed(e.change.op, OldKeyOf(e.change), e.change.row.key)]

Stream == INSTANCE TransactionStream WITH
    Changes <- [op : {"I", "U", "D", "T"}, from : Keys \cup {Null}, to : Keys \cup {Null}],
    open <- IF at = Idle THEN OwnChanges ELSE <<>>,
    queue <- IF at = Idle THEN <<>> ELSE <<[lsn |-> lsn, changes |-> OwnChanges]>>,
    delivered <- [n \in DOMAIN events |-> StreamedEvent(events[n])]

(***************************************************************************)
(* decode_message implements the stream: whatever the sessions lost, the   *)
(* COMMIT of a transaction returns all its changes of source_table once,   *)
(* with the keys they had, under its position and numbered from zero       *)
(* without a gap.  apply and _flush_transaction order and group the events *)
(* by nothing else.                                                        *)
(***************************************************************************)
DeliversWholeTransactions == Stream!Spec

(***************************************************************************)
(* Only a TRUNCATE stops the decoder: after every reconnection and every   *)
(* ALTER TABLE the columns it knows are those of the tuples it reads.      *)
(***************************************************************************)
OnlyTruncateRaises ==
    \A c \in {txn[n] : n \in DOMAIN txn} :
        Sending(c) /\ ~MustDescribe(c) /\ ~Readable(c) => c.op = "T"
=============================================================================
