----------------------------- MODULE Transactions -----------------------------
(***************************************************************************)
(* READ COMMITTED transactions on tables of rows, as the operations on     *)
(* registrars, zones and contact checks use them.                          *)
(*                                                                         *)
(* A statement sees what is committed when it starts.  It waits for rows   *)
(* that another transaction has written or locked, and for locks of whole  *)
(* tables.  What a transaction has written becomes visible when it ends.   *)
(*                                                                         *)
(* Dates are days.  CURRENT_DATE and NOW() are the day on which the        *)
(* transaction began.                                                      *)
(***************************************************************************)
EXTENDS Naturals, FiniteSets, Sequences

CONSTANTS None,       \* NULL, or a value that is not set
          Process,    \* callers, each with one transaction at a time
          Workloads,  \* named sets of calls; a behaviour has calls of one of them
          Start,      \* the rows that are there before
          MaxRows,    \* bound of the rows of a table
          LastDay     \* LastDay[w]: bound of the calendar for the workload w

Ids == 1..MaxRows

Tables == DOMAIN Start

VARIABLES today,     \* the calendar
          db,        \* db[t][i]: the row of table t with id i that is committed, or None
          workload,
          call,      \* call[p]: the operation that p executes, if any
          stage,     \* how far it has come
          day,       \* day[p]: when its transaction began
          draft,     \* draft[p]: its uncommitted rows
          seen,      \* seen[p]: what p has read
          locks      \* locks[p]: its locks of tables and of rows

vars == <<today, db, workload, call, stage, day, draft, seen, locks>>

-----------------------------------------------------------------------------
(* PostgreSQL: a statement waits for conflicting locks of other            *)
(* transactions, which they keep to their ends.                            *)
Conflicts(a, b) ==
    \/ "access exclusive" \in {a, b}
    \/ "exclusive" \in {a, b} /\ "access share" \notin {a, b}

Granted(p, table, mode) ==
    \A q \in Process \ {p} : \A l \in locks[q] : l.table = table => ~Conflicts(l.mode, mode)

TableLock(table, mode) == [table |-> table, mode |-> mode, row |-> None]

Acquire(p, table, mode) ==
    /\ Granted(p, table, mode)
    /\ locks' = [locks EXCEPT ![p] = @ \cup {TableLock(table, mode)}]

(* No other transaction has written the row.                               *)
Unwritten(p, table, id) ==
    \A q \in Process \ {p} : \A c \in draft[q] : ~(c.table = table /\ c.id = id)

(* No other transaction has written or locked the row.                     *)
RowFree(p, table, id) ==
    /\ Unwritten(p, table, id)
    /\ \A q \in Process \ {p} : \A l \in locks[q] : ~(l.table = table /\ l.row = id)

(* SELECT ... FOR SHARE                                                    *)
RowLock(table, id) == [table |-> table, mode |-> "row share", row |-> id]

Drafted(table) == UNION {{c.id : c \in {d \in draft[q] : d.table = table}} : q \in Process}

NewIds(table) == {i \in Ids : db[table][i] = None /\ i \notin Drafted(table)}

RowsOf(table) == {i \in Ids : db[table][i] # None}

(* A unique column: no other row has the value, and one that another       *)
(* transaction is about to write is waited for.                            *)
Unique(p, table, id, column, value) ==
    /\ \A i \in RowsOf(table) \ {id} : db[table][i][column] # value
    /\ \A q \in Process \ {p} : \A c \in draft[q] :
          c.table = table /\ c.row # None => c.row[column] # value

-----------------------------------------------------------------------------
At(p, kind, at) == stage[p] = at /\ call[p].kind = kind

Period(from, to) == [from |-> from, to |-> to]

NotAfter(a, b) == b # None => a <= b

Overlap(a, b) == NotAfter(a.from, b.to) /\ NotAfter(b.from, a.to)

(* The transaction has written rows; what it holds, it keeps.              *)
Written(p, changes) ==
    /\ draft' = [draft EXCEPT ![p] = changes]
    /\ stage' = [stage EXCEPT ![p] = "written"]
    /\ UNCHANGED <<today, db, workload, call, day>>

Row(table, id, row) == [table |-> table, id |-> id, row |-> row]

(* Columns that are given are set, the others keep their values.           *)
With(row, set) == [c \in DOMAIN row |-> IF c \in DOMAIN set THEN set[c] ELSE row[c]]

(* UPDATE ... SET the given columns, which throws if there is no such row  *)
UpdateColumns(p, table, id, set) ==
    /\ DOMAIN set # {} /\ db[table][id] # None /\ RowFree(p, table, id)
    /\ Written(p, {Row(table, id, With(db[table][id], set))})
    /\ UNCHANGED locks

Passed(p, at) ==
    /\ stage' = [stage EXCEPT ![p] = at]
    /\ UNCHANGED <<today, db, workload, call, day, draft, seen>>

(* A statement that only reads                                             *)
Read(p, what, at) ==
    /\ seen' = [seen EXCEPT ![p] = what]
    /\ stage' = [stage EXCEPT ![p] = at]
    /\ UNCHANGED <<today, db, workload, call, day, draft>>

End(p) ==
    /\ stage' = [stage EXCEPT ![p] = "idle"]
    /\ call' = [call EXCEPT ![p] = None]
    /\ day' = [day EXCEPT ![p] = 0]
    /\ draft' = [draft EXCEPT ![p] = {}]
    /\ seen' = [seen EXCEPT ![p] = None]
    /\ locks' = [locks EXCEPT ![p] = {}]
    /\ UNCHANGED <<today, workload>>

-----------------------------------------------------------------------------
Init ==
    /\ today = 0
    /\ db = Start
    /\ workload \in DOMAIN Workloads
    /\ call = [p \in Process |-> None]
    /\ stage = [p \in Process |-> "idle"]
    /\ day = [p \in Process |-> 0]
    /\ draft = [p \in Process |-> {}]
    /\ seen = [p \in Process |-> None]
    /\ locks = [p \in Process |-> {}]

Tick ==
    /\ today < LastDay[workload]
    /\ today' = today + 1
    /\ UNCHANGED <<db, workload, call, stage, day, draft, seen, locks>>

Begin(p) ==
    /\ stage[p] = "idle"
    /\ call' \in {[call EXCEPT ![p] = c] : c \in Workloads[workload]}
    /\ stage' = [stage EXCEPT ![p] = "begun"]
    /\ day' = [day EXCEPT ![p] = today]
    /\ UNCHANGED <<today, db, workload, draft, seen, locks>>

Commit(p) ==
    /\ stage[p] = "written"
    /\ db' = [t \in Tables |-> [i \in Ids |->
                 IF \E c \in draft[p] : c.table = t /\ c.id = i
                 THEN (CHOOSE c \in draft[p] : c.table = t /\ c.id = i).row ELSE db[t][i]]]
    /\ End(p)

(* An operation that throws, or a caller that gives up                     *)
Rollback(p) ==
    /\ stage[p] # "idle"
    /\ End(p)
    /\ UNCHANGED db

(* With a mistake: a lock that does not keep others out.                   *)
LockShared(p, table) ==
    /\ stage[p] = "begun" /\ Acquire(p, table, "row exclusive") /\ Passed(p, "locked")

Lock(p, table) ==
    /\ stage[p] = "begun" /\ Acquire(p, table, "access exclusive") /\ Passed(p, "locked")
=============================================================================
