-------------------------- MODULE TransactionStream --------------------------
(***************************************************************************)
(* What the logical CDC extract relies on and PgOutputDecoder promises:    *)
(* the source commits transactions, and what was written to source_table   *)
(* in one of them is delivered whole, once, in the order of the commits,   *)
(* each change under the position of its transaction and numbered from     *)
(* zero.  A transaction that truncated the table is never delivered, and   *)
(* nothing committed after it is.                                          *)
(***************************************************************************)
EXTENDS Naturals, Sequences

CONSTANTS
    Changes     \* what one statement does to source_table: [op, from, to]

VARIABLES
    open,       \* written by the transaction the source has not committed yet
    queue,      \* transactions committed and not yet delivered
    lsn,        \* position of the last commit
    delivered   \* the events of the last transaction delivered

vars == <<open, queue, lsn, delivered>>

Event(position, index, change) ==
    [lsn |-> position, xid |-> position, index |-> index, change |-> change]

Init == open = <<>> /\ queue = <<>> /\ lsn = 0 /\ delivered = <<>>

Write ==
    /\ \E c \in Changes : open' = Append(open, c)
    /\ UNCHANGED <<queue, lsn, delivered>>

Commit ==
    /\ lsn' = lsn + 1
    /\ queue' = Append(queue, [lsn |-> lsn', changes |-> open])
    /\ open' = <<>>
    /\ UNCHANGED delivered

Deliver ==
    /\ queue # <<>>
    /\ LET next == Head(queue) IN
        /\ \A n \in DOMAIN next.changes : next.changes[n].op # "T"
        /\ delivered' = [n \in DOMAIN next.changes |->
                            Event(next.lsn, n - 1, next.changes[n])]
    /\ queue' = Tail(queue)
    /\ UNCHANGED <<open, lsn>>

Next == Write \/ Commit \/ Deliver

Spec == Init /\ [][Next]_vars
=============================================================================
