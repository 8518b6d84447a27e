---------------------------- MODULE Authinfo_proofs ----------------------------
(***************************************************************************)
(* Theorems about Authinfo: uses of passwords are counted, a visitor finds *)
(* what was locked for it, and only concurrent operations leave a password *)
(* active besides another or after a transfer.                             *)
(***************************************************************************)
EXTENDS Authinfo, FiniteSetTheorems, TLAPS

-----------------------------------------------------------------------------
(* The inductive invariant                                                 *)

(* A row is held by a transaction that runs.                               *)
WritersRun == \A i \in DOMAIN rows : writer[i] # None => Running(writer[i])

SameStored(a, b) == SameOwner(a, b) /\ a.expires = b.expires /\ a.by = b.by

(* A draft is of the password of its row, and active only if that is, or   *)
(* if the writer has inserted it.                                          *)
DraftsFollow ==
    \A i \in DOMAIN rows :
        /\ SameStored(draft[i], rows[i])
        /\ writer[i] # None /\ Active(draft[i]) => Active(rows[i]) \/ rows[i].by = writer[i]

(* Who has inserted a row has been asked to.                               *)
RowsBelong ==
    \A i \in DOMAIN rows : rows[i].by # None =>
        LET d == tx[rows[i].by] IN
        d.stage # "idle" /\ d.call.kind = "store" /\ SameOwner(rows[i], d.call)

BeforeEnded == \A t \in Tx : \A u \in tx[t].before : u # t /\ tx[u].stage \in Ended

(* Each kind of operation has its stages.                                  *)
OnCourse(d) ==
    /\ d.open => d.stage \in Statements
    /\ d.stage = "idle" => d.uses = {} /\ d.hits = {} /\ d.at = d.call.object
    /\ d.stage # "failed"
    /\ d.call.kind = "store" =>
          d.stage \in {"idle", "share", "deactivate", "insert", "done"} \cup Ended
    /\ d.call.kind # "store" => d.stage \notin {"deactivate", "insert"}
    /\ d.call.kind = "transfer" => d.stage \notin {"deactivate", "expire", "insert"}
    /\ d.call.kind # "transfer" =>
          d.stage \notin {"sponsor", "ask", "write"} /\ (d.stage # "idle" => d.left = d.call.contacts)

(* What matched is still held and usable.                                  *)
HitsHeld(t, d) ==
    /\ d.stage \in {"match", "visit"} => \A i \in d.hits :
          writer[i] = t /\ Usable(draft[i], d.now) /\ draft[i].object = d.at
    /\ d.stage \notin {"match", "visit"} \cup Ended => d.hits = {}

(* A transaction is still going to ask the object that it is at.           *)
Asks(d) == d.stage \in {"sponsor", "share", "match", "visit"}

(* What it has used, it holds, and will not use again.                     *)
UsesHeld(t, d) ==
    /\ d.stage \notin Ended => \A i \in d.uses :
          /\ writer[i] = t /\ draft[i].object \notin d.left
          /\ Asks(d) => draft[i].object # d.at
    /\ Asks(d) => d.at \notin d.left

(* The row was inserted by a transaction that had not ended at the         *)
(* beginning.                                                              *)
Younger(d, row) == row.by # None /\ row.by \notin d.before

(* Of the passwords that a store was to deactivate, only younger ones are  *)
(* active, once the statement has seen them.                               *)
Deactivated(t, d) ==
    d.call.kind = "store" /\ (d.open \/ d.stage \in {"insert", "done"}) =>
        \A i \in DOMAIN rows :
            (d.open => i \notin d.todo) /\ ToDeactivate(d.call, View(t, i)) => Younger(d, View(t, i))

(* The same of those that a transfer was to clean, also when it has ended  *)
HasCleaned(d) == (d.stage = "clean" /\ d.open) \/ d.stage \in {"write", "done", "committed"}

Cleaned(t, d) ==
    d.call.kind = "transfer" /\ ~d.own /\ HasCleaned(d) =>
        \A i \in DOMAIN rows :
            (d.open => i \notin d.todo) /\ ToClean(d.call, d.now, View(t, i)) => Younger(d, View(t, i))

Goes(t, d) ==
    OnCourse(d) /\ HitsHeld(t, d) /\ UsesHeld(t, d) /\ Deactivated(t, d) /\ Cleaned(t, d)

(* The transactions that a row has satisfied                               *)
Users(i) == {t \in Tx : tx[t].stage = "committed" /\ i \in tx[t].uses}

Counted ==
    \A i \in DOMAIN rows :
        /\ IsFiniteSet(Users(i)) /\ rows[i].used = Cardinality(Users(i))
        /\ writer[i] # None =>
              draft[i].used = rows[i].used + (IF i \in tx[writer[i]].uses THEN 1 ELSE 0)

Tables == WritersRun /\ DraftsFollow /\ RowsBelong /\ BeforeEnded /\ Counted /\ TwoActiveWereConcurrent

IInv == TypeOK /\ Tables /\ \A t \in Tx : Goes(t, tx[t])

-----------------------------------------------------------------------------
(* Types                                                                   *)

LEMMA FunctionIsSeq ==
    ASSUME NEW S, NEW n \in Nat, NEW f \in [1..n -> S]
    PROVE  f \in Seq(S) /\ Len(f) = n /\ DOMAIN f = 1..n
  OBVIOUS

LEMMA InitTyped == Init => TypeOK
<1> SUFFICES ASSUME Init PROVE TypeOK
  OBVIOUS
<1>1. /\ rows \in Seq(Row) /\ draft \in Seq(Row) /\ Len(draft) = Len(rows)
      /\ sponsor \in [Objects -> Registrars]
  BY RowsStored DEF Init
<1>2. writer \in [1..Len(InitialRows) -> Tx \cup {None}]
  BY RowsStored DEF Init
<1>3. writer \in Seq(Tx \cup {None}) /\ Len(writer) = Len(rows)
  BY <1>2, RowsStored, FunctionIsSeq DEF Init
<1>4. \A c \in Calls : Nothing(c) \in Transaction
  BY CallsKnown DEF Nothing, Transaction, Stage, Call
<1>5. \A t \in Tx : tx[t].todo \cup tx[t].hits \cup tx[t].uses = {}
  BY DEF Init, Nothing
<1>6. tx \in [Tx -> Transaction]
  BY <1>4 DEF Init
<1> QED BY <1>1, <1>3, <1>5, <1>6 DEF Init, TypeOK

LEMMA RowTyped ==
    ASSUME TypeOK, NEW i \in DOMAIN rows
    PROVE  /\ i \in DOMAIN draft /\ i \in DOMAIN writer /\ i \in Nat \ {0}
           /\ rows[i] \in Row /\ draft[i] \in Row /\ writer[i] \in Tx \cup {None}
  BY DEF TypeOK

(* What a transaction leaves when it ends                                  *)
LEMMA EndTyped ==
    ASSUME TypeOK, NEW t \in Tx, NEW outcome \in Ended, NEW table \in Seq(Row),
           Len(table) = Len(rows), End(t, outcome, table)
    PROVE  /\ rows' \in Seq(Row) /\ draft' \in Seq(Row) /\ writer' \in Seq(Tx \cup {None})
           /\ Len(rows') = Len(rows) /\ Len(draft') = Len(rows) /\ Len(writer') = Len(rows)
           /\ locked' \in [Objects -> Tx \cup {None}] /\ sharers' \in [Objects -> SUBSET Tx]
           /\ keeper' \in [Objects -> Tx \cup {None}] /\ tx' \in [Tx -> Transaction]
           /\ \A u \in Tx : tx'[u].todo \cup tx'[u].hits \cup tx'[u].uses \subseteq DOMAIN rows'
<1> DEFINE n == Len(rows)
<1>1. /\ n \in Nat /\ DOMAIN rows = 1..n /\ DOMAIN draft = 1..n /\ DOMAIN writer = 1..n
      /\ DOMAIN table = 1..n
  BY DEF TypeOK
<1>2. draft' \in [1..n -> Row] /\ writer' \in [1..n -> Tx \cup {None}]
  BY <1>1 DEF TypeOK, End
<1>3. /\ draft' \in Seq(Row) /\ Len(draft') = n
      /\ writer' \in Seq(Tx \cup {None}) /\ Len(writer') = n
  BY <1>1, <1>2, FunctionIsSeq
<1>4. rows' = table /\ DOMAIN rows' = DOMAIN rows
  BY <1>1 DEF End
<1>5. outcome \in Stage
  BY DEF Stage, Ended
<1> DEFINE d == [tx[t] EXCEPT !.stage = outcome, !.open = FALSE, !.todo = {}]
<1>6. tx' = [tx EXCEPT ![t] = d]
  BY DEF End, TypeOK
<1>7. /\ d \in Transaction /\ d.todo = {} /\ d.hits = tx[t].hits /\ d.uses = tx[t].uses
  <2>1. tx[t] \in Transaction
    BY DEF TypeOK
  <2> QED BY <1>5, <2>1 DEF Transaction
<1> HIDE DEF d
<1>8. /\ tx' \in [Tx -> Transaction]
      /\ \A u \in Tx : tx'[u].todo \cup tx'[u].hits \cup tx'[u].uses \subseteq DOMAIN rows'
  BY <1>4, <1>6, <1>7 DEF TypeOK
<1> QED BY <1>3, <1>4, <1>8 DEF TypeOK, End

-----------------------------------------------------------------------------
(* What a transaction is at                                                *)

LEMMA Standing ==
    ASSUME IInv, NEW t \in Tx
    PROVE  /\ tx[t] \in Transaction /\ Goes(t, tx[t])
           /\ tx[t].call \in Call /\ tx[t].call.object \notin tx[t].call.contacts
<1>1. tx[t] \in Transaction /\ Goes(t, tx[t])
  BY DEF IInv, TypeOK
<1>2. tx[t].call \in Calls
  BY <1>1 DEF Transaction
<1> QED BY <1>1, <1>2, CallsKnown

(* Between statements nothing is open, and nothing has matched.            *)
LEMMA BetweenStatements ==
    ASSUME IInv, NEW t \in Tx, tx[t].stage \in {"idle", "sponsor", "share", "insert", "ask", "write", "done"}
    PROVE  tx[t].open = FALSE /\ tx[t].hits = {} /\ tx[t].stage \notin Statements \cup Ended
<1>1. tx[t].stage \notin {"match", "visit"} \cup Ended /\ tx[t].stage \notin Statements
  BY DEF Ended, Statements
<1>2. tx[t].open \in BOOLEAN
  BY Standing DEF Transaction
<1> QED BY <1>1, <1>2, Standing DEF Goes, OnCourse, HitsHeld

-----------------------------------------------------------------------------
(* Steps                                                                   *)

(* A transaction goes on as d and leaves the tables as they are.           *)
Quiet(t, d) ==
    /\ tx' = [tx EXCEPT ![t] = d] /\ UNCHANGED tables
    /\ sponsor' = sponsor /\ clock' = clock
    /\ tx[t].stage \notin Ended /\ d.stage \notin {"idle", "committed"}
    /\ d.stage \in Ended => tx[t].stage = "idle"
    /\ d.call = tx[t].call /\ d.uses = tx[t].uses
    /\ d.todo \cup d.hits \subseteq DOMAIN rows
    /\ \/ d.before = tx[t].before
       \/ /\ tx[t].stage = "idle"
          /\ \A u \in d.before : u # t /\ tx[u].stage \in Ended

LEMMA QuietKeepsInv ==
    ASSUME IInv, NEW t \in Tx, NEW d \in Transaction, Quiet(t, d), Goes(t, d),
           locked' \in [Objects -> Tx \cup {None}], sharers' \in [Objects -> SUBSET Tx],
           keeper' \in [Objects -> Tx \cup {None}]
    PROVE  IInv'
<1>1. /\ tx'[t] = d /\ \A u \in Tx \ {t} : tx'[u] = tx[u]
      /\ rows' = rows /\ draft' = draft /\ writer' = writer
  BY DEF IInv, TypeOK, Quiet, tables
<1>2. TypeOK'
  <2>1. tx' \in [Tx -> Transaction]
    BY DEF IInv, TypeOK, Quiet
  <2>2. \A u \in Tx : tx'[u].todo \cup tx'[u].hits \cup tx'[u].uses \subseteq DOMAIN rows'
    BY <1>1 DEF IInv, TypeOK, Quiet
  <2> QED BY <1>1, <2>1, <2>2 DEF IInv, TypeOK, Quiet
<1>3. WritersRun' /\ DraftsFollow'
  <2>1. \A i \in DOMAIN rows : writer[i] # None => writer[i] \in Tx
    BY DEF IInv, TypeOK
  <2> QED BY <1>1, <2>1 DEF IInv, Tables, WritersRun, DraftsFollow, Running, Quiet
<1>4. RowsBelong'
  <2>1. \A i \in DOMAIN rows : rows[i].by # None => rows[i].by \in Tx
    BY RowTyped DEF IInv, Row
  <2> QED BY <1>1, <2>1 DEF IInv, Tables, RowsBelong, Quiet
<1>5. BeforeEnded'
  <2>1. \A u \in Tx : tx[u].before \subseteq Tx /\ d.before \subseteq Tx
    BY DEF IInv, TypeOK, Transaction
  <2> QED BY <1>1, <2>1 DEF IInv, Tables, BeforeEnded, Quiet
<1>6. Counted'
  <2>1. \A i \in DOMAIN rows : Users(i)' = Users(i)
    BY <1>1 DEF Users, Quiet, Ended
  <2>2. \A i \in DOMAIN rows : writer[i] # None => tx'[writer[i]].uses = tx[writer[i]].uses
    BY <1>1 DEF IInv, TypeOK, Quiet
  <2> QED BY <1>1, <2>1, <2>2 DEF IInv, Tables, Counted
<1>7. TwoActiveWereConcurrent'
  <2>1. \A i \in DOMAIN rows : rows[i].by # None => tx'[rows[i].by].before = tx[rows[i].by].before
    BY <1>1, RowTyped DEF IInv, Row, Tables, RowsBelong, Quiet
  <2> QED BY <1>1, <2>1 DEF IInv, Tables, TwoActiveWereConcurrent
<1>8. \A u \in Tx : Goes(u, tx[u])'
  <2> SUFFICES ASSUME NEW u \in Tx PROVE Goes(u, tx[u])'
    OBVIOUS
  <2>1. Goes(u, tx'[u])
    BY <1>1 DEF IInv
  <2>2. \A i : View(u, i)' = View(u, i)
    BY <1>1 DEF View
  <2>3. OnCourse(tx[u])' /\ HitsHeld(u, tx[u])' /\ UsesHeld(u, tx[u])'
    BY <1>1, <2>1 DEF Goes, OnCourse, HitsHeld, UsesHeld, Asks
  <2>4. Deactivated(u, tx[u])' /\ Cleaned(u, tx[u])'
    BY <1>1, <2>1, <2>2 DEF Goes, Deactivated, Cleaned, Younger, HasCleaned
  <2> QED BY <2>3, <2>4 DEF Goes
<1> QED BY <1>2, <1>3, <1>4, <1>5, <1>6, <1>7, <1>8 DEF IInv, Tables

-----------------------------------------------------------------------------
(* Actions that leave the tables                                           *)

LEMMA BeginKeepsInv ==
    ASSUME IInv, NEW t \in Tx, Begin(t)
    PROVE  IInv'
<1> DEFINE c == tx[t].call
           stage == IF c.kind = "store" /\ c.ttl = 0 THEN "refused" ELSE FirstStage(c)
           ended == {u \in Tx : tx[u].stage \in Ended}
           e == [tx[t] EXCEPT !.stage = stage, !.now = clock, !.left = c.contacts, !.before = ended]
<1>1. tx[t] \in Transaction /\ c \in Call /\ c.object \notin c.contacts /\ clock \in Nat
  BY CallsKnown DEF IInv, TypeOK, Transaction
<1>2. /\ stage \in Stage \ {"idle", "committed", "failed"}
      /\ stage \in {"refused", "share", "clean", "expire", "sponsor"}
      /\ stage # "refused" => stage = FirstStage(c)
  BY <1>1 DEF FirstStage, Call, Stage, Ended, Statements
<1>3. c.contacts \in SUBSET Objects /\ ended \in SUBSET Tx
  BY <1>1 DEF Call
<1>4. /\ e \in Transaction
      /\ e.stage = stage /\ e.now = clock /\ e.left = c.contacts /\ e.before = ended
      /\ e.call = c /\ e.at = tx[t].at /\ e.open = tx[t].open /\ e.todo = tx[t].todo
      /\ e.hits = tx[t].hits /\ e.uses = tx[t].uses
  BY <1>1, <1>2, <1>3 DEF Transaction
<1>5. tx' = [tx EXCEPT ![t] = e]
  BY DEF Begin, IInv, TypeOK
<1>6. PICK d \in Transaction : d = e
  BY <1>4
<1>7. /\ tx[t].stage = "idle" /\ tx[t].uses = {} /\ tx[t].hits = {} /\ tx[t].at = c.object
      /\ tx[t].open = FALSE
  BY <1>1 DEF Begin, IInv, Goes, OnCourse, Statements, Transaction
<1> HIDE DEF e, stage
<1>8. Goes(t, d)
  <2>1. OnCourse(d)
    BY <1>1, <1>2, <1>4, <1>6, <1>7 DEF OnCourse, FirstStage, Call, Ended
  <2>2. HitsHeld(t, d) /\ UsesHeld(t, d)
    BY <1>1, <1>4, <1>6, <1>7 DEF HitsHeld, UsesHeld, Asks
  <2>3. Deactivated(t, d) /\ Cleaned(t, d)
    BY <1>2, <1>4, <1>6, <1>7 DEF Deactivated, Cleaned, HasCleaned
  <2> QED BY <2>1, <2>2, <2>3 DEF Goes
<1>9. Quiet(t, d)
  <2>1. \A u \in d.before : u # t /\ tx[u].stage \in Ended
    BY <1>4, <1>6, <1>7 DEF Ended
  <2>2. d.todo \cup d.hits \subseteq DOMAIN rows
    BY <1>4, <1>6 DEF IInv, TypeOK
  <2> QED BY <1>2, <1>4, <1>5, <1>6, <1>7, <2>1, <2>2 DEF Quiet, Begin, Ended
<1> QED BY <1>8, <1>9, QuietKeepsInv DEF Begin, locks, IInv, TypeOK

(* A step that takes a transaction that runs to its next stage             *)
Advances(t, d, stage) ==
    /\ d \in Transaction /\ d.stage = stage
    /\ d.call = tx[t].call /\ d.now = tx[t].now /\ d.at = tx[t].at /\ d.left = tx[t].left
    /\ d.open = tx[t].open /\ d.todo = tx[t].todo /\ d.hits = tx[t].hits /\ d.own = tx[t].own
    /\ d.friends = tx[t].friends /\ d.uses = tx[t].uses /\ d.before = tx[t].before

LEMMA AdvanceKeepsInv ==
    ASSUME IInv, NEW t \in Tx, NEW stage \in Stage,
           tx' = [tx EXCEPT ![t].stage = stage], UNCHANGED <<tables, sponsor, clock>>,
           Running(t), stage \notin Ended \cup {"idle"},
           \A d : Advances(t, d, stage) => Goes(t, d),
           locked' \in [Objects -> Tx \cup {None}], sharers' \in [Objects -> SUBSET Tx],
           keeper' \in [Objects -> Tx \cup {None}]
    PROVE  IInv'
<1> DEFINE e == [tx[t] EXCEPT !.stage = stage]
<1>1. tx[t] \in Transaction
  BY DEF IInv, TypeOK
<1>2. Advances(t, e, stage)
  BY <1>1 DEF Transaction, Advances
<1>3. tx' = [tx EXCEPT ![t] = e]
  BY DEF IInv, TypeOK
<1> HIDE DEF e
<1>4. PICK d \in Transaction : d = e
  BY <1>2 DEF Advances
<1>5. Quiet(t, d)
  <2>1. d.todo \cup d.hits \subseteq DOMAIN rows
    BY <1>2, <1>4 DEF Advances, IInv, TypeOK
  <2>2. d.stage \notin {"idle", "committed"} \cup Ended /\ tx[t].stage \notin Ended
    BY <1>2, <1>4 DEF Advances, Running, Ended
  <2> QED BY <1>2, <1>3, <1>4, <2>1, <2>2 DEF Quiet, Advances
<1> QED BY <1>2, <1>4, <1>5, QuietKeepsInv

LEMMA LockForShareKeepsInv ==
    ASSUME IInv, NEW t \in Tx, LockForShare(t)
    PROVE  IInv'
<1> DEFINE stage == IF tx[t].call.kind = "store" THEN "deactivate" ELSE "match"
<1>1. /\ tx[t].stage = "share" /\ tx[t] \in Transaction /\ tx[t].open = FALSE /\ tx[t].hits = {}
      /\ Goes(t, tx[t])
  BY Standing, BetweenStatements DEF LockForShare
<1>2. stage \in Stage /\ stage \notin Ended \cup {"idle"} /\ Running(t)
  BY <1>1 DEF Stage, Statements, Ended, Running
<1>3. ASSUME NEW d, Advances(t, d, stage) PROVE Goes(t, d)
  <2>1. OnCourse(d)
    BY <1>1, <1>3 DEF Goes, OnCourse, Advances, Statements, Ended
  <2>2. HitsHeld(t, d) /\ UsesHeld(t, d)
    BY <1>1, <1>3 DEF Goes, HitsHeld, UsesHeld, Asks, Advances, Ended
  <2>3. Deactivated(t, d) /\ Cleaned(t, d)
    BY <1>1, <1>3 DEF Deactivated, Cleaned, HasCleaned, Advances
  <2> QED BY <2>1, <2>2, <2>3 DEF Goes
<1>4. sharers' \in [Objects -> SUBSET Tx]
  BY DEF LockForShare, IInv, TypeOK
<1> QED BY <1>2, <1>3, <1>4, AdvanceKeepsInv DEF LockForShare, IInv, TypeOK

LEMMA SetHistoryIdKeepsInv ==
    ASSUME IInv, NEW t \in Tx, SetHistoryId(t)
    PROVE  IInv'
<1>1. /\ tx[t].stage = "write" /\ tx[t] \in Transaction /\ tx[t].open = FALSE /\ tx[t].hits = {}
      /\ tx[t].call.kind = "transfer" /\ Goes(t, tx[t])
  BY Standing, BetweenStatements DEF SetHistoryId, Goes, OnCourse
<1>2. "done" \in Stage /\ "done" \notin Ended \cup {"idle"} /\ Running(t)
  BY <1>1 DEF Stage, Ended, Running
<1>3. ASSUME NEW d, Advances(t, d, "done") PROVE Goes(t, d)
  <2>1. OnCourse(d)
    BY <1>1, <1>3 DEF Goes, OnCourse, Advances, Statements, Ended
  <2>2. HitsHeld(t, d) /\ UsesHeld(t, d)
    BY <1>1, <1>3 DEF Goes, HitsHeld, UsesHeld, Asks, Advances, Ended
  <2>3. Deactivated(t, d) /\ Cleaned(t, d)
    BY <1>1, <1>3 DEF Goes, Deactivated, Cleaned, HasCleaned, Advances, Younger
  <2> QED BY <2>1, <2>2, <2>3 DEF Goes
<1>4. keeper' \in [Objects -> Tx \cup {None}]
  BY DEF SetHistoryId, IInv, TypeOK
<1> QED BY <1>2, <1>3, <1>4, AdvanceKeepsInv DEF SetHistoryId, IInv, TypeOK

(* What is selected now is still to be done.                               *)
LEMMA SnapshotKeepsInv ==
    ASSUME IInv, NEW t \in Tx, Snapshot(t)
    PROVE  IInv'
<1> DEFINE todo == {i \in DOMAIN rows : Selects(t, View(t, i))}
           e == [tx[t] EXCEPT !.open = TRUE, !.todo = todo]
<1>1. tx[t] \in Transaction /\ tx[t].stage \in Statements /\ Goes(t, tx[t])
  BY DEF Snapshot, IInv, TypeOK
<1>2. todo \in SUBSET Nat
  BY RowTyped DEF IInv
<1>3. /\ e \in Transaction
      /\ e.open = TRUE /\ e.todo = todo /\ e.stage = tx[t].stage /\ e.now = tx[t].now
      /\ e.left = tx[t].left /\ e.before = tx[t].before /\ e.call = tx[t].call /\ e.at = tx[t].at
      /\ e.hits = tx[t].hits /\ e.uses = tx[t].uses /\ e.own = tx[t].own
  BY <1>1, <1>2 DEF Transaction
<1>4. tx' = [tx EXCEPT ![t] = e]
  BY DEF Snapshot, IInv, TypeOK
<1>5. PICK d \in Transaction : d = e
  BY <1>3
<1> HIDE DEF e
<1>6. Goes(t, d)
  <2>1. OnCourse(d)
    BY <1>1, <1>3, <1>5 DEF Goes, OnCourse
  <2>2. HitsHeld(t, d) /\ UsesHeld(t, d)
    BY <1>1, <1>3, <1>5 DEF Goes, HitsHeld, UsesHeld, Asks
  <2>3. Deactivated(t, d)
    BY <1>1, <1>3, <1>5 DEF Goes, OnCourse, Deactivated, Selects, Statements, Ended
  <2>4. Cleaned(t, d)
    BY <1>1, <1>3, <1>5 DEF Cleaned, HasCleaned, Selects, Statements
  <2> QED BY <2>1, <2>2, <2>3, <2>4 DEF Goes
<1>7. Quiet(t, d)
  BY <1>1, <1>3, <1>4, <1>5 DEF Quiet, Snapshot, Statements, Ended, IInv, TypeOK
<1> QED BY <1>6, <1>7, QuietKeepsInv DEF Snapshot, locks, IInv, TypeOK

(* A row that is no longer selected is passed over.                        *)
LEMMA PassKeepsInv ==
    ASSUME IInv, NEW t \in Tx, TakeRow(t), NEW i \in tx[t].todo, ~Selects(t, View(t, i)),
           tx' = [tx EXCEPT ![t].todo = @ \ {i}], UNCHANGED tables
    PROVE  IInv'
<1> DEFINE e == [tx[t] EXCEPT !.todo = @ \ {i}]
<1>1. tx[t] \in Transaction /\ tx[t].stage \in Statements /\ tx[t].open /\ Goes(t, tx[t])
  BY DEF TakeRow, IInv, TypeOK
<1>2. /\ e \in Transaction
      /\ e.open = tx[t].open /\ e.todo = tx[t].todo \ {i} /\ e.stage = tx[t].stage
      /\ e.now = tx[t].now /\ e.left = tx[t].left /\ e.before = tx[t].before
      /\ e.call = tx[t].call /\ e.at = tx[t].at /\ e.hits = tx[t].hits /\ e.uses = tx[t].uses
      /\ e.own = tx[t].own
  BY <1>1 DEF Transaction
<1>3. tx' = [tx EXCEPT ![t] = e]
  BY DEF IInv, TypeOK
<1>4. PICK d \in Transaction : d = e
  BY <1>2
<1> HIDE DEF e
<1>5. Goes(t, d)
  <2>1. OnCourse(d)
    BY <1>1, <1>2, <1>4 DEF Goes, OnCourse
  <2>2. HitsHeld(t, d) /\ UsesHeld(t, d)
    BY <1>1, <1>2, <1>4 DEF Goes, HitsHeld, UsesHeld, Asks
  <2>3. Deactivated(t, d)
    BY <1>1, <1>2, <1>4 DEF Goes, OnCourse, Deactivated, Younger, Selects, Statements, Ended
  <2>4. Cleaned(t, d)
    BY <1>1, <1>2, <1>4 DEF Goes, Cleaned, HasCleaned, Younger, Selects, Statements
  <2> QED BY <2>1, <2>2, <2>3, <2>4 DEF Goes
<1>6. Quiet(t, d)
  BY <1>1, <1>2, <1>3, <1>4 DEF Quiet, TakeRow, Statements, Ended, IInv, TypeOK
<1> QED BY <1>5, <1>6, QuietKeepsInv DEF TakeRow, locks, IInv, TypeOK

LEMMA AfterStatementKeepsInv ==
    ASSUME IInv, NEW t \in Tx, AfterStatement(t)
    PROVE  IInv'
<1> DEFINE stage == Continuation(t)
           e == [tx[t] EXCEPT !.open = FALSE, !.stage = stage]
<1>1. /\ tx[t] \in Transaction /\ tx[t].stage \in Statements /\ tx[t].open /\ tx[t].todo = {}
      /\ Goes(t, tx[t]) /\ tx[t].call \in Call
  BY CallsKnown DEF AfterStatement, IInv, TypeOK, Transaction
<1>2. /\ stage \in {"insert", "visit", "write", "done"}
      /\ stage = "insert" <=> tx[t].stage = "deactivate"
      /\ stage = "visit" <=> tx[t].stage = "match"
      /\ stage = "write" <=> tx[t].stage = "clean" /\ tx[t].call.kind = "transfer"
  BY <1>1 DEF Continuation, Statements
<1>3. stage \in Stage
  BY <1>2 DEF Stage
<1> HIDE DEF stage
<1>4. /\ e \in Transaction
      /\ e.open = FALSE /\ e.todo = {} /\ e.stage = stage /\ e.now = tx[t].now
      /\ e.left = tx[t].left /\ e.before = tx[t].before /\ e.call = tx[t].call /\ e.at = tx[t].at
      /\ e.hits = tx[t].hits /\ e.uses = tx[t].uses /\ e.own = tx[t].own
  BY <1>1, <1>3 DEF Transaction
<1>5. tx' = [tx EXCEPT ![t] = e]
  BY DEF AfterStatement, IInv, TypeOK, stage
<1>6. PICK d \in Transaction : d = e
  BY <1>4
<1> HIDE DEF e
<1>7. Goes(t, d)
  <2>1. OnCourse(d)
    BY <1>1, <1>2, <1>4, <1>6 DEF Goes, OnCourse, Statements, Ended
  <2>2. HitsHeld(t, d) /\ UsesHeld(t, d)
    BY <1>1, <1>2, <1>4, <1>6 DEF Goes, HitsHeld, UsesHeld, Asks, Statements, Ended
  <2>3. Deactivated(t, d)
    BY <1>1, <1>2, <1>4, <1>6 DEF Goes, OnCourse, Deactivated, Younger, Statements
  <2>4. Cleaned(t, d)
    BY <1>1, <1>2, <1>4, <1>6 DEF Goes, OnCourse, Cleaned, HasCleaned, Younger, Statements
  <2> QED BY <2>1, <2>2, <2>3, <2>4 DEF Goes
<1>8. Quiet(t, d)
  <2>1. d.todo \cup d.hits \subseteq DOMAIN rows
    BY <1>4, <1>6 DEF IInv, TypeOK
  <2> QED BY <1>1, <1>2, <1>4, <1>5, <1>6, <2>1 DEF Quiet, AfterStatement, Statements, Ended
<1> QED BY <1>7, <1>8, QuietKeepsInv DEF AfterStatement, locks, IInv, TypeOK

LEMMA AskContactKeepsInv ==
    ASSUME IInv, NEW t \in Tx, AskContact(t)
    PROVE  IInv'
<1>1. /\ tx[t] \in Transaction /\ tx[t].stage = "ask" /\ Goes(t, tx[t])
      /\ tx[t].open = FALSE /\ tx[t].hits = {} /\ tx[t].call.kind = "transfer"
  BY Standing, BetweenStatements DEF AskContact, Goes, OnCourse
<1>2. PICK c \in tx[t].left :
         tx' = [tx EXCEPT ![t].stage = "share", ![t].at = c, ![t].left = @ \ {c}]
  BY DEF AskContact
<1> DEFINE e == [tx[t] EXCEPT !.stage = "share", !.at = c, !.left = @ \ {c}]
<1>3. c \in Objects /\ "share" \in Stage
  BY <1>1 DEF Transaction, Stage
<1>4. /\ e \in Transaction
      /\ e.open = FALSE /\ e.todo = tx[t].todo /\ e.stage = "share" /\ e.now = tx[t].now
      /\ e.left = tx[t].left \ {c} /\ e.before = tx[t].before /\ e.call = tx[t].call /\ e.at = c
      /\ e.hits = tx[t].hits /\ e.uses = tx[t].uses /\ e.own = tx[t].own
  BY <1>1, <1>3 DEF Transaction
<1>5. tx' = [tx EXCEPT ![t] = e]
  BY <1>2 DEF IInv, TypeOK
<1>6. PICK d \in Transaction : d = e
  BY <1>4
<1> HIDE DEF e
<1>7. Goes(t, d)
  <2>1. OnCourse(d)
    BY <1>1, <1>4, <1>6 DEF OnCourse, Statements, Ended
  <2>2. HitsHeld(t, d) /\ UsesHeld(t, d)
    BY <1>1, <1>4, <1>6 DEF Goes, HitsHeld, UsesHeld, Asks, Ended
  <2>3. Deactivated(t, d) /\ Cleaned(t, d)
    BY <1>1, <1>4, <1>6 DEF Deactivated, Cleaned, HasCleaned
  <2> QED BY <2>1, <2>2, <2>3 DEF Goes
<1>8. Quiet(t, d)
  <2>1. d.todo \cup d.hits \subseteq DOMAIN rows
    BY <1>4, <1>6 DEF IInv, TypeOK
  <2> QED BY <1>1, <1>4, <1>5, <1>6, <2>1 DEF Quiet, AskContact, Ended
<1> QED BY <1>7, <1>8, QuietKeepsInv DEF AskContact, locks, IInv, TypeOK

-----------------------------------------------------------------------------
(* What a step of t may do to the tables                                   *)

Touches(t) ==
    /\ tx[t].stage \notin Ended /\ \A u \in Tx \ {t} : tx'[u] = tx[u]
    /\ DOMAIN rows \subseteq DOMAIN rows'
    /\ \A i \in DOMAIN rows :
          /\ writer[i] \notin {None, t} =>
                rows'[i] = rows[i] /\ draft'[i] = draft[i] /\ writer'[i] = writer[i]
          /\ writer[i] \in {None, t} => writer'[i] \in {None, t}
          /\ rows'[i] = rows[i] \/ (writer[i] = t /\ rows'[i] = draft[i])
    /\ \A i \in DOMAIN rows' \ DOMAIN rows : writer'[i] = t /\ rows'[i].by = t

(* To another transaction a row looks as before, or no more active than    *)
(* before, or it has been inserted by t.                                   *)
LEMMA OthersView ==
    ASSUME IInv, NEW t \in Tx, NEW u \in Tx \ {t}, Touches(t), NEW i \in DOMAIN rows'
    PROVE  \/ View(u, i)'.by = t
           \/ /\ i \in DOMAIN rows /\ SameStored(View(u, i)', View(u, i))
              /\ Active(View(u, i)') => Active(View(u, i))
<1>1. CASE i \notin DOMAIN rows
  BY <1>1, NoneIsNoTx DEF Touches, View
<1>2. CASE i \in DOMAIN rows /\ writer[i] = u
  BY <1>2, NoneIsNoTx DEF Touches, View, SameStored, SameOwner
<1>3. CASE i \in DOMAIN rows /\ writer[i] # u
  <2>1. View(u, i) = rows[i] /\ View(u, i)' = rows'[i]
    BY <1>3, NoneIsNoTx DEF Touches, View
  <2>2. CASE rows'[i] = rows[i]
    BY <1>3, <2>1, <2>2 DEF SameStored, SameOwner
  <2>3. CASE writer[i] = t /\ rows'[i] = draft[i]
    BY <1>3, <2>1, <2>3, NoneIsNoTx DEF IInv, Tables, DraftsFollow, SameStored
  <2> QED BY <1>3, <2>2, <2>3 DEF Touches
<1> QED BY <1>1, <1>2, <1>3

LEMMA OthersGo ==
    ASSUME IInv, NEW t \in Tx, NEW u \in Tx \ {t}, Touches(t)
    PROVE  Goes(u, tx[u])'
<1>1. Goes(u, tx[u]) /\ tx'[u] = tx[u] /\ tx[u] \in Transaction
  BY DEF IInv, TypeOK, Touches
<1>2. tx[u].hits \cup tx[u].uses \subseteq DOMAIN rows
  BY DEF IInv, TypeOK
<1>3. \A i \in DOMAIN rows : writer[i] = u => draft'[i] = draft[i] /\ writer'[i] = u
  BY NoneIsNoTx DEF Touches
<1>4. OnCourse(tx[u])'
  BY <1>1 DEF Goes, OnCourse
<1>5. HitsHeld(u, tx[u])'
  BY <1>1, <1>2, <1>3 DEF Goes, HitsHeld
<1>6. UsesHeld(u, tx[u])'
  BY <1>1, <1>2, <1>3 DEF Goes, UsesHeld, Asks
<1>7. t \notin tx[u].before
  BY DEF IInv, Tables, BeforeEnded, Touches
<1>8. Deactivated(u, tx[u])'
  BY <1>1, <1>7, OthersView, NoneIsNoTx
     DEF Goes, Deactivated, Younger, ToDeactivate, SameStored, SameOwner
<1>9. Cleaned(u, tx[u])'
  BY <1>1, <1>7, OthersView, NoneIsNoTx
     DEF Goes, Cleaned, HasCleaned, Younger, ToClean, Usable, SameStored, SameOwner
<1> QED BY <1>4, <1>5, <1>6, <1>8, <1>9 DEF Goes

-----------------------------------------------------------------------------
(* The end of a transaction                                                *)

Left(t, outcome) ==
    [i \in DOMAIN rows |-> IF outcome = "committed" /\ writer[i] = t THEN draft[i] ELSE rows[i]]

LEMMA EndKeepsInv ==
    ASSUME IInv, NEW t \in Tx, NEW outcome \in Ended \ {"failed"}, End(t, outcome, Left(t, outcome)),
           tx[t].stage \notin Ended, tx[t].stage # "idle", outcome = "committed" => tx[t].stage = "done",
           sponsor' \in [Objects -> Registrars], clock' = clock
    PROVE  IInv'
<1> DEFINE table == Left(t, outcome)
<1>1. /\ DOMAIN rows = 1..Len(rows) /\ DOMAIN draft = DOMAIN rows /\ DOMAIN writer = DOMAIN rows
      /\ Len(rows) \in Nat /\ tx[t] \in Transaction /\ Goes(t, tx[t])
  BY DEF IInv, TypeOK
<1>2. table \in Seq(Row) /\ Len(table) = Len(rows) /\ DOMAIN table = DOMAIN rows
  <2>1. table \in [1..Len(rows) -> Row]
    BY <1>1, RowTyped DEF IInv, Left
  <2> QED BY <1>1, <2>1, FunctionIsSeq
<1>3. TypeOK'
  <2>1. clock' \in Nat
    BY DEF IInv, TypeOK
  <2> QED BY <1>2, <2>1, EndTyped DEF TypeOK, IInv
<1>4. /\ DOMAIN rows' = DOMAIN rows
      /\ \A i \in DOMAIN rows :
            /\ rows'[i] = IF outcome = "committed" /\ writer[i] = t THEN draft[i] ELSE rows[i]
            /\ draft'[i] = IF writer[i] = t THEN rows'[i] ELSE draft[i]
            /\ writer'[i] = IF writer[i] = t THEN None ELSE writer[i]
  BY <1>1, <1>2 DEF End, Left
<1> HIDE DEF table
<1>5. /\ \A u \in Tx \ {t} : tx'[u] = tx[u]
      /\ tx'[t].stage = outcome /\ tx'[t].open = FALSE /\ tx'[t].call = tx[t].call
      /\ tx'[t].uses = tx[t].uses /\ tx'[t].before = tx[t].before /\ tx'[t].hits = tx[t].hits
      /\ tx'[t].left = tx[t].left /\ tx'[t].at = tx[t].at /\ tx'[t].own = tx[t].own
      /\ tx'[t].now = tx[t].now
  BY <1>1 DEF End, IInv, TypeOK, Transaction
<1>6. \A i \in DOMAIN rows : SameStored(rows'[i], rows[i]) /\ SameStored(draft'[i], rows'[i])
  BY <1>4 DEF IInv, Tables, DraftsFollow, SameStored, SameOwner
<1>7. \A i \in DOMAIN rows : writer[i] \in Tx \cup {None} /\ rows[i].by \in Tx \cup {None}
  BY RowTyped DEF IInv, Row
<1>8. WritersRun'
  BY <1>4, <1>5, <1>7 DEF IInv, Tables, WritersRun, Running
<1>9. DraftsFollow'
  BY <1>4, <1>6 DEF IInv, Tables, DraftsFollow, SameStored
<1>10. outcome # "idle" /\ outcome # "failed"
  BY DEF Ended
<1>11. RowsBelong'
  BY <1>4, <1>5, <1>6, <1>7, <1>10 DEF IInv, Tables, RowsBelong, SameStored, SameOwner
<1>12. BeforeEnded'
  <2>1. \A u \in Tx : tx[u].before \subseteq Tx
    BY DEF IInv, TypeOK, Transaction
  <2> QED BY <1>5, <2>1 DEF IInv, Tables, BeforeEnded
<1>13. Counted'
  <2> SUFFICES ASSUME NEW i \in DOMAIN rows
               PROVE  /\ IsFiniteSet(Users(i)') /\ rows'[i].used = Cardinality(Users(i)')
                      /\ writer'[i] # None =>
                            draft'[i].used = rows'[i].used + (IF i \in tx'[writer'[i]].uses THEN 1 ELSE 0)
    BY <1>4 DEF Counted
  <2>1. /\ IsFiniteSet(Users(i)) /\ rows[i].used = Cardinality(Users(i))
        /\ writer[i] # None =>
              draft[i].used = rows[i].used + (IF i \in tx[writer[i]].uses THEN 1 ELSE 0)
    BY DEF IInv, Tables, Counted
  <2>2. t \notin Users(i) /\ (i \in tx[t].uses => writer[i] = t) /\ rows[i].used \in Nat
    BY <1>1, RowTyped DEF Users, Ended, Goes, UsesHeld, IInv, Row
  <2>3. CASE outcome = "committed" /\ i \in tx[t].uses
    <3>1. Users(i)' = Users(i) \cup {t}
      BY <1>5, <2>3 DEF Users
    <3>2. rows'[i].used = rows[i].used + 1 /\ writer'[i] = None
      BY <1>4, <2>1, <2>2, <2>3, NoneIsNoTx
    <3> QED BY <2>1, <2>2, <3>1, <3>2, FS_AddElement
  <2>4. CASE ~(outcome = "committed" /\ i \in tx[t].uses)
    <3>1. Users(i)' = Users(i)
      BY <1>5, <2>2, <2>4 DEF Users
    <3>2. rows'[i].used = rows[i].used
      <4>1. CASE outcome = "committed" /\ writer[i] = t
        BY <1>4, <2>1, <2>2, <2>4, <4>1, NoneIsNoTx
      <4>2. CASE ~(outcome = "committed" /\ writer[i] = t)
        BY <1>4, <4>2
      <4> QED BY <4>1, <4>2
    <3>3. ASSUME writer'[i] # None
          PROVE  /\ writer[i] = writer'[i] /\ draft'[i] = draft[i]
                 /\ tx'[writer'[i]].uses = tx[writer[i]].uses
      BY <1>4, <1>5, <1>7, <3>3
    <3> QED BY <2>1, <3>1, <3>2, <3>3
  <2> QED BY <2>3, <2>4
<1>14. t \notin tx[t].before /\ \A u \in Tx : t \notin tx[u].before
  BY DEF IInv, Tables, BeforeEnded
<1>15. \A i \in DOMAIN rows :
          Active(rows'[i]) => \/ Active(rows[i]) 
                              \/ outcome = "committed" /\ rows[i].by = t
  BY <1>4, NoneIsNoTx DEF IInv, Tables, DraftsFollow
<1>16. \A i \in DOMAIN rows : View(t, i)' = IF outcome = "committed" THEN View(t, i) ELSE rows[i]
  BY <1>4, NoneIsNoTx DEF View
<1>17. \A i \in DOMAIN rows :
          outcome = "committed" /\ Active(rows'[i]) /\ tx[t].call.kind = "store"
          /\ SameOwner(rows'[i], tx[t].call) => Younger(tx[t], rows'[i])
  <2>1. \A i \in DOMAIN rows : outcome = "committed" => View(t, i) = rows'[i]
    BY <1>4 DEF View
  <2> QED BY <1>1, <2>1 DEF Goes, OnCourse, Deactivated, ToDeactivate, SameOwner, Statements
<1>18. TwoActiveWereConcurrent'
  <2> SUFFICES ASSUME NEW i \in DOMAIN rows, NEW j \in DOMAIN rows, i # j,
                      Active(rows'[i]), Active(rows'[j]), SameOwner(rows'[i], rows'[j])
               PROVE  /\ rows'[i].by # None
                      /\ rows'[j].by # None => rows'[i].by \notin tx'[rows'[j].by].before
    BY <1>4 DEF TwoActiveWereConcurrent
  <2>1. rows'[i].by = rows[i].by /\ rows'[j].by = rows[j].by /\ SameOwner(rows[i], rows[j])
    BY <1>6 DEF SameStored, SameOwner
  <2>2. \A u \in Tx : tx'[u].before = tx[u].before
    BY <1>5
  <2>3. CASE Active(rows[i]) /\ Active(rows[j])
    BY <1>7, <2>1, <2>2, <2>3 DEF IInv, Tables, TwoActiveWereConcurrent
  <2>4. CASE outcome = "committed" /\ rows[i].by = t
    BY <1>7, <1>14, <2>1, <2>2, <2>4, NoneIsNoTx
  <2>5. CASE outcome = "committed" /\ rows[j].by = t
    <3>1. tx[t].call.kind = "store" /\ SameOwner(rows'[i], tx[t].call)
      BY <2>1, <2>5, <1>6, NoneIsNoTx DEF IInv, Tables, RowsBelong, SameOwner, SameStored
    <3> QED BY <1>17, <2>1, <2>2, <2>5, <3>1 DEF Younger
  <2> QED BY <1>15, <2>3, <2>4, <2>5
<1>19. Touches(t)
  BY <1>4, <1>5, NoneIsNoTx DEF Touches
<1>20. Goes(t, tx[t])'
  <2>1. OnCourse(tx[t])'
    BY <1>1, <1>5, <1>10 DEF Goes, OnCourse, Ended
  <2>2. HitsHeld(t, tx[t])' /\ UsesHeld(t, tx[t])'
    BY <1>5 DEF HitsHeld, UsesHeld, Asks, Ended
  <2>3. Deactivated(t, tx[t])'
    BY <1>5 DEF Deactivated, Ended
  <2>4. Cleaned(t, tx[t])'
    <3>1. CASE outcome = "committed"
      BY <1>1, <1>4, <1>5, <1>16, <3>1
         DEF Goes, OnCourse, Cleaned, HasCleaned, Younger, Statements
    <3>2. CASE outcome # "committed"
      BY <1>5, <3>2 DEF Cleaned, HasCleaned, Ended
    <3> QED BY <3>1, <3>2
  <2> QED BY <2>1, <2>2, <2>3, <2>4 DEF Goes
<1> QED BY <1>3, <1>8, <1>9, <1>11, <1>12, <1>13, <1>18, <1>19, <1>20, OthersGo DEF IInv, Tables

LEMMA CommitKeepsInv ==
    ASSUME IInv, NEW t \in Tx, Commit(t)
    PROVE  IInv'
<1>1. End(t, "committed", Left(t, "committed"))
  BY DEF Commit, Left
<1>2. "committed" \in Ended \ {"failed"} /\ tx[t].stage = "done" /\ "done" \notin Ended
  BY DEF Commit, Ended
<1>3. sponsor' \in [Objects -> Registrars] /\ clock' = clock
  BY CallsKnown DEF Commit, IInv, TypeOK, Transaction, Call
<1> QED BY <1>1, <1>2, <1>3, EndKeepsInv

(* However else an operation ends, it leaves the rows as they were.        *)
LEMMA LeaveKeepsInv ==
    ASSUME IInv, NEW t \in Tx, NEW outcome \in {"refused", "rolledback"}, End(t, outcome, rows),
           Running(t), UNCHANGED <<sponsor, clock>>
    PROVE  IInv'
<1>1. Left(t, outcome) = rows
  BY DEF Left, IInv, TypeOK
<1>2. outcome \in Ended \ {"failed"} /\ outcome # "committed"
  BY DEF Ended
<1> QED BY <1>1, <1>2, EndKeepsInv DEF Running, IInv, TypeOK

LEMMA RollbackKeepsInv ==
    ASSUME IInv, NEW t \in Tx, Rollback(t)
    PROVE  IInv'
  BY LeaveKeepsInv DEF Rollback

LEMMA BreakDeadlockKeepsInv ==
    ASSUME IInv, NEW t \in Tx, BreakDeadlock(t)
    PROVE  IInv'
<1>1. PICK ts \in SUBSET Tx : t \in ts /\ Ring(ts)
  BY DEF BreakDeadlock
<1>2. PICK u \in ts : WaitsFor(t, u)
  BY <1>1 DEF Ring
<1>3. Running(t)
  <2>1. tx[t].open => tx[t].stage \in Statements
    BY DEF IInv, Goes, OnCourse
  <2> QED BY <1>2, <2>1 DEF WaitsFor, Running, Ended, Statements
<1> QED BY <1>3, LeaveKeepsInv DEF BreakDeadlock

LEMMA LockSponsorKeepsInv ==
    ASSUME IInv, NEW t \in Tx, LockSponsor(t)
    PROVE  IInv'
<1>1. /\ tx[t].stage = "sponsor" /\ tx[t] \in Transaction /\ tx[t].open = FALSE
      /\ tx[t].hits = {} /\ tx[t].call.kind = "transfer" /\ Goes(t, tx[t])
  BY Standing, BetweenStatements DEF LockSponsor, Goes, OnCourse
<1>2. "share" \in Stage /\ "share" \notin Ended \cup {"idle"} /\ Running(t)
  BY <1>1 DEF Stage, Ended, Running
<1>3. CASE End(t, "refused", rows)
  BY <1>2, <1>3, LeaveKeepsInv DEF LockSponsor
<1>4. CASE /\ locked' = [locked EXCEPT ![tx[t].call.object] = t]
           /\ tx' = [tx EXCEPT ![t].stage = "share"]
           /\ UNCHANGED <<tables, sharers, keeper>>
  <2>1. ASSUME NEW d, Advances(t, d, "share") PROVE Goes(t, d)
    <3>1. OnCourse(d)
      BY <1>1, <2>1 DEF Goes, OnCourse, Advances, Statements, Ended
    <3>2. HitsHeld(t, d) /\ UsesHeld(t, d)
      BY <1>1, <2>1 DEF Goes, HitsHeld, UsesHeld, Asks, Advances, Ended
    <3>3. Deactivated(t, d) /\ Cleaned(t, d)
      BY <1>1, <2>1 DEF Deactivated, Cleaned, HasCleaned, Advances
    <3> QED BY <3>1, <3>2, <3>3 DEF Goes
  <2>2. locked' \in [Objects -> Tx \cup {None}]
    BY <1>4 DEF IInv, TypeOK
  <2> QED BY <1>2, <1>4, <2>1, <2>2, AdvanceKeepsInv DEF LockSponsor, IInv, TypeOK
<1> QED BY <1>3, <1>4 DEF LockSponsor

LEMMA FindNothingKeepsInv ==
    ASSUME IInv, NEW t \in Tx, FindNothing(t)
    PROVE  IInv'
<1>1. /\ tx[t].stage = "share" /\ tx[t] \in Transaction /\ tx[t].open = FALSE /\ tx[t].hits = {}
      /\ Goes(t, tx[t])
  BY Standing, BetweenStatements DEF FindNothing
<1>2. "ask" \in Stage /\ "ask" \notin Ended \cup {"idle"} /\ Running(t)
  BY <1>1 DEF Stage, Ended, Running
<1>3. CASE End(t, "refused", rows)
  BY <1>2, <1>3, LeaveKeepsInv DEF FindNothing
<1>4. CASE /\ tx[t].left # tx[t].call.contacts
           /\ tx' = [tx EXCEPT ![t].stage = "ask"] /\ UNCHANGED <<tables, locks>>
  <2>1. tx[t].call.kind = "transfer"
    BY <1>1, <1>4 DEF Goes, OnCourse
  <2>2. ASSUME NEW d, Advances(t, d, "ask") PROVE Goes(t, d)
    <3>1. OnCourse(d)
      BY <1>1, <2>1, <2>2 DEF Goes, OnCourse, Advances, Statements, Ended
    <3>2. HitsHeld(t, d) /\ UsesHeld(t, d)
      BY <1>1, <2>2 DEF Goes, HitsHeld, UsesHeld, Asks, Advances, Ended
    <3>3. Deactivated(t, d) /\ Cleaned(t, d)
      BY <1>1, <2>2 DEF Deactivated, Cleaned, HasCleaned, Advances
    <3> QED BY <3>1, <3>2, <3>3 DEF Goes
  <2> QED BY <1>2, <1>4, <2>2, AdvanceKeepsInv DEF FindNothing, locks, IInv, TypeOK
<1> QED BY <1>3, <1>4 DEF FindNothing

LEMMA AuthorizeKeepsInv ==
    ASSUME IInv, NEW t \in Tx, Authorize(t)
    PROVE  IInv'
<1> DEFINE stage == IF tx[t].own THEN "write" ELSE "clean"
<1>1. /\ tx[t].stage = "ask" /\ tx[t] \in Transaction /\ tx[t].open = FALSE /\ tx[t].hits = {}
      /\ tx[t].call.kind = "transfer" /\ Goes(t, tx[t])
  BY Standing, BetweenStatements DEF Authorize, Goes, OnCourse
<1>2. stage \in Stage /\ stage \notin Ended \cup {"idle"} /\ Running(t)
  BY <1>1 DEF Stage, Statements, Ended, Running
<1>3. CASE End(t, "refused", rows)
  BY <1>2, <1>3, LeaveKeepsInv DEF Authorize
<1>4. CASE tx' = [tx EXCEPT ![t].stage = stage] /\ UNCHANGED <<tables, locks>>
  <2>1. ASSUME NEW d, Advances(t, d, stage) PROVE Goes(t, d)
    <3>1. OnCourse(d)
      BY <1>1, <2>1 DEF Goes, OnCourse, Advances, Statements, Ended
    <3>2. HitsHeld(t, d) /\ UsesHeld(t, d)
      BY <1>1, <2>1 DEF Goes, HitsHeld, UsesHeld, Asks, Advances, Ended
    <3>3. Deactivated(t, d) /\ Cleaned(t, d)
      BY <1>1, <2>1 DEF Deactivated, Cleaned, HasCleaned, Advances
    <3> QED BY <3>1, <3>2, <3>3 DEF Goes
  <2> QED BY <1>2, <1>4, <2>1, AdvanceKeepsInv DEF Authorize, locks, IInv, TypeOK
<1> QED BY <1>3, <1>4 DEF Authorize

-----------------------------------------------------------------------------
(* Statements that change rows                                             *)

(* t takes rows and makes of them something that is no more active, and    *)
(* that has been used once more if it says so.                             *)
Takes(t) ==
    /\ rows' = rows /\ Running(t) /\ \A u \in Tx \ {t} : tx'[u] = tx[u]
    /\ tx'[t].stage \notin Ended \cup {"idle"}
    /\ tx'[t].call = tx[t].call /\ tx'[t].before = tx[t].before
    /\ tx[t].uses \subseteq tx'[t].uses
    /\ \A i \in DOMAIN rows :
          \/ /\ writer'[i] = writer[i] /\ draft'[i] = draft[i]
             /\ i \in tx'[t].uses => i \in tx[t].uses
          \/ /\ writer[i] \in {None, t} /\ writer'[i] = t
             /\ SameStored(draft'[i], View(t, i))
             /\ Active(draft'[i]) => Active(View(t, i))
             /\ draft'[i].used = View(t, i).used + (IF i \in tx'[t].uses \ tx[t].uses THEN 1 ELSE 0)

LEMMA TakesTouches ==
    ASSUME IInv, NEW t \in Tx, Takes(t)
    PROVE  Touches(t)
  BY DEF Takes, Touches, Running

LEMMA TakesKeepsTables ==
    ASSUME IInv, NEW t \in Tx, Takes(t)
    PROVE  Tables'
<1>1. \A i \in DOMAIN rows : writer[i] \in Tx \cup {None} /\ rows[i].by \in Tx \cup {None}
  BY RowTyped DEF IInv, Row
<1>2. Goes(t, tx[t])
  BY DEF IInv
<1>3. WritersRun'
  BY <1>1 DEF IInv, Tables, WritersRun, Takes, Running
<1>4. DraftsFollow'
  <2>1. \A i \in DOMAIN rows : SameStored(View(t, i), rows[i])
    BY DEF IInv, Tables, DraftsFollow, View, SameStored, SameOwner
  <2>2. \A i \in DOMAIN rows : Active(View(t, i)) => Active(rows[i]) \/ rows[i].by = t
    BY NoneIsNoTx DEF IInv, Tables, DraftsFollow, View
  <2> QED BY <2>1, <2>2 DEF IInv, Tables, DraftsFollow, Takes, SameStored, SameOwner
<1>5. RowsBelong'
  BY <1>1 DEF IInv, Tables, RowsBelong, Takes
<1>6. BeforeEnded'
  <2>1. \A u \in Tx : tx[u].before \subseteq Tx
    BY DEF IInv, TypeOK, Transaction
  <2> QED BY <2>1 DEF IInv, Tables, BeforeEnded, Takes, Running
<1>7. Counted'
  <2> SUFFICES ASSUME NEW i \in DOMAIN rows
               PROVE  /\ IsFiniteSet(Users(i)') /\ rows[i].used = Cardinality(Users(i)')
                      /\ writer'[i] # None =>
                            draft'[i].used = rows[i].used + (IF i \in tx'[writer'[i]].uses THEN 1 ELSE 0)
    BY DEF Counted, Takes
  <2>1. Users(i)' = Users(i)
    BY DEF Users, Takes, Running, Ended
  <2>2. /\ IsFiniteSet(Users(i)) /\ rows[i].used = Cardinality(Users(i))
        /\ writer[i] # None =>
              draft[i].used = rows[i].used + (IF i \in tx[writer[i]].uses THEN 1 ELSE 0)
    BY DEF IInv, Tables, Counted
  <2>3. rows[i].used \in Nat /\ (i \in tx[t].uses => writer[i] = t)
    BY <1>2, RowTyped DEF IInv, Row, Takes, Running, Goes, UsesHeld
  <2>4. View(t, i).used = rows[i].used + (IF i \in tx[t].uses THEN 1 ELSE 0)
    BY <2>2, <2>3, NoneIsNoTx DEF View
  <2>5. CASE writer'[i] = writer[i] /\ draft'[i] = draft[i] /\ (i \in tx'[t].uses => i \in tx[t].uses)
    BY <1>1, <2>1, <2>2, <2>5 DEF Takes
  <2>6. CASE /\ writer'[i] = t
             /\ draft'[i].used = View(t, i).used + (IF i \in tx'[t].uses \ tx[t].uses THEN 1 ELSE 0)
    BY <2>1, <2>2, <2>3, <2>4, <2>6 DEF Takes
  <2> QED BY <2>5, <2>6 DEF Takes
<1>8. TwoActiveWereConcurrent'
  BY <1>1 DEF IInv, Tables, TwoActiveWereConcurrent, Takes
<1> QED BY <1>3, <1>4, <1>5, <1>6, <1>7, <1>8 DEF Tables

LEMMA ChangedRow ==
    ASSUME NEW row \in Row, NEW stage \in Statements
    PROVE  LET new == Changed(stage, row) IN
           /\ new \in Row /\ SameStored(new, row) /\ new.used = row.used
           /\ Active(new) => stage = "match"
           /\ stage = "match" => new = row
<1>1. CASE stage = "deactivate"
  BY <1>1, PasswordsAreOthers DEF Changed, Row, SameStored, SameOwner, Active
<1>2. CASE stage \in {"clean", "expire"}
  BY <1>2 DEF Changed, Row, SameStored, SameOwner, Active
<1>3. CASE stage = "match"
  BY <1>3 DEF Changed, SameStored, SameOwner
<1> QED BY <1>1, <1>2, <1>3 DEF Statements

LEMMA TakeRowKeepsInv ==
    ASSUME IInv, NEW t \in Tx, TakeRow(t)
    PROVE  IInv'
<1>1. /\ tx[t] \in Transaction /\ tx[t].stage \in Statements /\ tx[t].open /\ Goes(t, tx[t])
      /\ rows' = rows /\ tx[t].todo \cup tx[t].hits \subseteq DOMAIN rows
  BY DEF TakeRow, IInv, TypeOK
<1>2. PICK i \in tx[t].todo :
         /\ writer[i] \in {None, t}
         /\ IF Selects(t, View(t, i))
            THEN /\ writer' = [writer EXCEPT ![i] = t]
                 /\ draft' = [draft EXCEPT ![i] = Changed(tx[t].stage, View(t, i))]
                 /\ tx' = [tx EXCEPT ![t].todo = @ \ {i},
                                     ![t].hits = IF Matches(t, i) THEN @ \cup {i} ELSE @]
            ELSE tx' = [tx EXCEPT ![t].todo = @ \ {i}] /\ UNCHANGED <<writer, draft>>
  BY DEF TakeRow
<1>3. CASE ~Selects(t, View(t, i))
  BY <1>1, <1>2, <1>3, PassKeepsInv DEF tables
<1>4. CASE Selects(t, View(t, i))
  <2> DEFINE row == View(t, i)
             new == Changed(tx[t].stage, row)
             hits == IF Matches(t, i) THEN tx[t].hits \cup {i} ELSE tx[t].hits
             e == [tx[t] EXCEPT !.todo = @ \ {i}, !.hits = hits]
  <2>1. i \in DOMAIN rows /\ row \in Row /\ i \in DOMAIN draft /\ i \in DOMAIN writer /\ i \in Nat
    BY <1>1, RowTyped DEF IInv, View
  <2>2. /\ new \in Row /\ SameStored(new, row) /\ new.used = row.used
        /\ Active(new) => tx[t].stage = "match"
        /\ tx[t].stage = "match" => new = row
    BY <1>1, <2>1, ChangedRow
  <2>3. hits \in SUBSET Nat
    BY <1>1, <2>1 DEF Transaction
  <2>4. /\ e \in Transaction
        /\ e.open = tx[t].open /\ e.todo = tx[t].todo \ {i} /\ e.stage = tx[t].stage
        /\ e.now = tx[t].now /\ e.left = tx[t].left /\ e.before = tx[t].before
        /\ e.call = tx[t].call /\ e.at = tx[t].at /\ e.hits = hits /\ e.uses = tx[t].uses
        /\ e.own = tx[t].own
    BY <1>1, <2>3 DEF Transaction
  <2>5. tx' = [tx EXCEPT ![t] = e]
    BY <1>2, <1>4 DEF IInv, TypeOK
  <2> HIDE DEF e, new, hits
  <2>6. tx'[t] = e /\ \A u \in Tx \ {t} : tx'[u] = tx[u]
    BY <2>5 DEF IInv, TypeOK
  <2>7. \A k \in DOMAIN rows : /\ writer'[k] = IF k = i THEN t ELSE writer[k]
                               /\ draft'[k] = IF k = i THEN new ELSE draft[k]
    BY <1>2, <1>4, RowTyped DEF new, IInv, TypeOK
  <2>8. TypeOK'
    <3>1. writer' \in Seq(Tx \cup {None}) /\ Len(writer') = Len(rows)
      <4>1. /\ writer \in Seq(Tx \cup {None}) /\ Len(writer) = Len(rows)
            /\ t \in Tx \cup {None} /\ i \in 1..Len(writer)
        BY <2>1 DEF IInv, TypeOK
      <4>2. writer' = [writer EXCEPT ![i] = t]
        BY <1>2, <1>4
      <4> QED BY <4>1, <4>2
    <3>2. draft' \in Seq(Row) /\ Len(draft') = Len(rows)
      BY <1>2, <1>4, <2>1, <2>2 DEF IInv, TypeOK, new
    <3>3. tx' \in [Tx -> Transaction]
      BY <2>4, <2>5 DEF IInv, TypeOK
    <3>4. hits \subseteq DOMAIN rows
      BY <1>1, <2>1 DEF hits
    <3>5. \A u \in Tx : tx'[u].todo \cup tx'[u].hits \cup tx'[u].uses \subseteq DOMAIN rows'
      BY <1>1, <2>4, <2>6, <3>4 DEF IInv, TypeOK
    <3> QED BY <1>1, <3>1, <3>2, <3>3, <3>5 DEF TakeRow, locks, IInv, TypeOK
  <2>9. Takes(t)
    <3>1. Running(t) /\ tx'[t].stage \notin Ended \cup {"idle"}
      BY <1>1, <2>4, <2>6 DEF Running, Statements, Ended
    <3>2. Active(new) => Active(row)
      BY <2>2
    <3>3. row.used \in Nat
      BY <2>1 DEF Row
    <3> HIDE DEF row
    <3>4. \A k \in DOMAIN rows :
             \/ /\ writer'[k] = writer[k] /\ draft'[k] = draft[k]
                /\ k \in tx'[t].uses => k \in tx[t].uses
             \/ /\ writer[k] \in {None, t} /\ writer'[k] = t
                /\ SameStored(draft'[k], View(t, k))
                /\ Active(draft'[k]) => Active(View(t, k))
                /\ draft'[k].used = View(t, k).used + (IF k \in tx'[t].uses \ tx[t].uses THEN 1 ELSE 0)
      BY <1>2, <2>2, <2>4, <2>6, <2>7, <3>2, <3>3 DEF row
    <3> QED BY <1>1, <2>4, <2>6, <3>1, <3>4 DEF Takes
  <2>10. \A k \in DOMAIN rows : View(t, k)' = IF k = i THEN new ELSE View(t, k)
    BY <1>1, <2>7 DEF View
  <2>11. Goes(t, tx[t])'
    <3>1. OnCourse(tx[t])'
      BY <1>1, <2>4, <2>6 DEF Goes, OnCourse, hits, Statements
    <3>2. HitsHeld(t, tx[t])'
      <4>1. CASE tx[t].stage = "match"
        <5>1. new = row /\ Usable(row, tx[t].now) /\ row.object = tx[t].at
          BY <1>4, <2>2, <4>1 DEF Selects, ToVisit
        <5>2. \A k \in hits : k \in DOMAIN rows /\ (k \in tx[t].hits \/ k = i)
          BY <1>1, <2>1 DEF hits
        <5>3. \A k \in hits : writer'[k] = t /\ Usable(draft'[k], tx[t].now) /\ draft'[k].object = tx[t].at
          BY <1>1, <2>7, <4>1, <5>1, <5>2 DEF Goes, HitsHeld
        <5> QED BY <2>4, <2>6, <4>1, <5>3 DEF HitsHeld
      <4>2. CASE tx[t].stage # "match"
        <5>1. hits = tx[t].hits
          BY <4>2 DEF hits, Matches
        <5> QED BY <1>1, <2>4, <2>6, <4>2, <5>1 DEF Goes, HitsHeld, Statements, Ended
      <4> QED BY <4>1, <4>2
    <3>3. UsesHeld(t, tx[t])'
      <4>1. \A k \in tx[t].uses : k \in DOMAIN rows /\ writer[k] = t
        BY <1>1 DEF IInv, TypeOK, Goes, UsesHeld, Statements, Ended
      <4>2. \A k \in tx[t].uses : writer'[k] = t /\ draft'[k].object = draft[k].object
        BY <2>2, <2>7, <4>1 DEF View, SameStored, SameOwner
      <4> QED BY <1>1, <2>4, <2>6, <4>2 DEF Goes, UsesHeld, Asks, Statements, Ended
    <3>4. Deactivated(t, tx[t])'
      <4>1. tx[t].call.kind = "store" => tx[t].stage = "deactivate"
        BY <1>1 DEF Goes, OnCourse, Statements, Ended
      <4>2. tx[t].call.kind = "store" => ~Active(new)
        BY <2>2, <4>1
      <4>3. ASSUME tx[t].call.kind = "store", NEW k \in DOMAIN rows, k \notin e.todo,
                   ToDeactivate(tx[t].call, View(t, k)')
            PROVE  Younger(tx[t], View(t, k)')
        <5>1. k # i
          BY <2>10, <4>2, <4>3 DEF ToDeactivate
        <5> QED BY <1>1, <2>4, <2>10, <4>3, <5>1 DEF Goes, Deactivated
      <4> QED BY <1>1, <2>4, <2>6, <4>3 DEF Deactivated, Younger
    <3>5. Cleaned(t, tx[t])'
      <4>1. ASSUME tx[t].stage = "clean", tx[t].call.kind = "transfer", ~tx[t].own,
                   NEW k \in DOMAIN rows, k \notin e.todo,
                   ToClean(tx[t].call, tx[t].now, View(t, k)')
            PROVE  Younger(tx[t], View(t, k)')
        <5>1. k # i
          BY <2>2, <2>10, <4>1 DEF ToClean, Usable
        <5> QED BY <1>1, <2>4, <2>10, <4>1, <5>1 DEF Goes, Cleaned, HasCleaned
      <4> QED BY <1>1, <2>4, <2>6, <4>1 DEF Cleaned, HasCleaned, Younger, Statements
    <3> QED BY <3>1, <3>2, <3>3, <3>4, <3>5 DEF Goes
  <2> QED BY <2>8, <2>9, <2>11, TakesTouches, TakesKeepsTables, OthersGo DEF IInv
<1> QED BY <1>3, <1>4

(* A new password is its own transaction's until that commits.             *)
LEMMA InsertKeepsInv ==
    ASSUME IInv, NEW t \in Tx, Insert(t)
    PROVE  IInv'
<1> DEFINE c == tx[t].call
           n == Len(rows)
           new == [object |-> c.object, registrar |-> c.registrar, password |-> c.password,
                   expires |-> tx[t].now + c.ttl, canceled |-> FALSE, used |-> 0, by |-> t]
           none == [new EXCEPT !.password = "absent"]
           e == [tx[t] EXCEPT !.stage = "done"]
<1>1. /\ tx[t] \in Transaction /\ tx[t].stage = "insert" /\ tx[t].open = FALSE
      /\ tx[t].hits = {} /\ Goes(t, tx[t]) /\ c \in Call /\ c.kind = "store"
      /\ tx[t].uses \subseteq DOMAIN rows
  <2>1. tx[t].stage = "insert"
    BY DEF Insert
  <2>2. c.kind = "store"
    BY <2>1, Standing DEF Goes, OnCourse
  <2> QED BY <2>1, <2>2, Standing, BetweenStatements DEF IInv, TypeOK
<1>2. new \in Row /\ none \in Row /\ ~Active(none) /\ SameStored(new, none)
  <2>1. /\ c.object \in Objects /\ c.registrar \in Registrars /\ c.password \in Passwords
        /\ c.ttl \in Nat /\ tx[t].now \in Nat
    BY <1>1 DEF Call, Transaction
  <2>2. tx[t].now + c.ttl \in Nat
    BY <2>1
  <2>3. new \in Row
    BY <2>1, <2>2 DEF Row
  <2>4. none \in Row
    BY <2>3 DEF Row
  <2> QED BY <2>3, <2>4, PasswordsAreOthers DEF Active, SameStored, SameOwner
<1>3. new.used = 0 /\ none.used = 0 /\ new.by = t /\ none.by = t /\ SameOwner(none, c)
  BY DEF SameOwner
<1>4. /\ rows' = Append(rows, none) /\ draft' = Append(draft, new) /\ writer' = Append(writer, t)
      /\ tx' = [tx EXCEPT ![t] = e]
  BY DEF Insert, IInv, TypeOK
<1>5. /\ e \in Transaction
      /\ e.open = FALSE /\ e.todo = tx[t].todo /\ e.stage = "done" /\ e.now = tx[t].now
      /\ e.left = tx[t].left /\ e.before = tx[t].before /\ e.call = c /\ e.at = tx[t].at
      /\ e.hits = tx[t].hits /\ e.uses = tx[t].uses /\ e.own = tx[t].own
  BY <1>1 DEF Transaction, Stage
<1> HIDE DEF new, none, e, c
<1>6. /\ n \in Nat /\ DOMAIN rows = 1..n /\ DOMAIN rows' = 1..(n + 1)
      /\ rows' \in Seq(Row) /\ draft' \in Seq(Row) /\ writer' \in Seq(Tx \cup {None})
      /\ Len(draft') = Len(rows') /\ Len(writer') = Len(rows')
  BY <1>2, <1>4 DEF IInv, TypeOK
<1>7. /\ \A i \in 1..n : rows'[i] = rows[i] /\ draft'[i] = draft[i] /\ writer'[i] = writer[i]
      /\ rows'[n + 1] = none /\ draft'[n + 1] = new /\ writer'[n + 1] = t
  BY <1>2, <1>4, <1>6 DEF IInv, TypeOK
<1>8. /\ \A i \in DOMAIN rows' : i \in DOMAIN rows \/ i = n + 1
      /\ n + 1 \notin DOMAIN rows /\ DOMAIN rows \subseteq DOMAIN rows'
  BY <1>6
<1> HIDE DEF n
<1>9. tx'[t] = e /\ \A u \in Tx \ {t} : tx'[u] = tx[u]
  BY <1>4 DEF IInv, TypeOK
<1>10. TypeOK'
  <2>1. tx' \in [Tx -> Transaction]
    BY <1>4, <1>5 DEF IInv, TypeOK
  <2>2. \A u \in Tx : tx'[u].todo \cup tx'[u].hits \cup tx'[u].uses \subseteq DOMAIN rows'
    BY <1>5, <1>8, <1>9 DEF IInv, TypeOK
  <2> QED BY <1>6, <2>1, <2>2 DEF Insert, locks, IInv, TypeOK
<1>11. /\ Running(t)' /\ \A u \in Tx : Running(u) => Running(u)'
       /\ \A u \in Tx : (tx'[u].stage \in Ended <=> tx[u].stage \in Ended)
       /\ \A u \in Tx : (tx'[u].stage = "committed" <=> tx[u].stage = "committed")
       /\ \A u \in Tx : tx'[u].before = tx[u].before /\ tx'[u].uses = tx[u].uses
       /\ \A u \in Tx : tx'[u].call = tx[u].call /\ (tx[u].stage # "idle" => tx'[u].stage # "idle")
  BY <1>1, <1>5, <1>9 DEF Running, Ended, c
<1>12. \A i \in DOMAIN rows : writer[i] \in Tx \cup {None} /\ rows[i].by \in Tx \cup {None}
  BY RowTyped DEF IInv, Row
<1>13. WritersRun'
  BY <1>6, <1>7, <1>8, <1>11, <1>12 DEF IInv, Tables, WritersRun
<1>14. DraftsFollow'
  BY <1>2, <1>3, <1>6, <1>7, <1>8 DEF IInv, Tables, DraftsFollow
<1>15. RowsBelong'
  BY <1>1, <1>3, <1>5, <1>6, <1>7, <1>8, <1>9, <1>11, <1>12 DEF IInv, Tables, RowsBelong, c
<1>16. BeforeEnded'
  <2>1. \A u \in Tx : tx[u].before \subseteq Tx
    BY DEF IInv, TypeOK, Transaction
  <2> QED BY <1>11, <2>1 DEF IInv, Tables, BeforeEnded
<1>17. Counted'
  <2> SUFFICES ASSUME NEW i \in DOMAIN rows'
               PROVE  /\ IsFiniteSet(Users(i)') /\ rows'[i].used = Cardinality(Users(i)')
                      /\ writer'[i] # None =>
                            draft'[i].used = rows'[i].used + (IF i \in tx'[writer'[i]].uses THEN 1 ELSE 0)
    BY DEF Counted
  <2>1. CASE i \in DOMAIN rows
    <3>1. Users(i)' = Users(i)
      BY <1>11 DEF Users
    <3> QED BY <1>6, <1>7, <1>11, <1>12, <2>1, <3>1 DEF IInv, Tables, Counted
  <2>2. CASE i = n + 1
    <3>1. \A u \in Tx : i \notin tx'[u].uses
      BY <1>8, <1>11, <2>2 DEF IInv, TypeOK
    <3>2. Users(i)' = {}
      BY <3>1 DEF Users
    <3> QED BY <1>3, <1>7, <2>2, <3>1, <3>2, FS_EmptySet
  <2> QED BY <1>8, <2>1, <2>2
<1>18. TwoActiveWereConcurrent'
  BY <1>2, <1>6, <1>7, <1>8, <1>11, <1>12 DEF IInv, Tables, TwoActiveWereConcurrent
<1>19. Touches(t)
  <2>1. t # None /\ tx[t].stage \notin Ended
    BY <1>1, NoneIsNoTx DEF Ended
  <2> QED BY <1>3, <1>6, <1>7, <1>8, <1>9, <2>1 DEF Touches
<1>20. Goes(t, tx[t])'
  <2>1. OnCourse(tx[t])'
    BY <1>1, <1>5, <1>9 DEF Goes, OnCourse, Statements, Ended, c
  <2>2. HitsHeld(t, tx[t])'
    BY <1>1, <1>5, <1>9 DEF HitsHeld
  <2>3. UsesHeld(t, tx[t])'
    <3>1. ~Asks(e) /\ Asks(tx[t])' = Asks(e)
      BY <1>5, <1>9 DEF Asks
    <3>2. ASSUME NEW i \in tx[t].uses
          PROVE  writer'[i] = t /\ draft'[i].object \notin tx[t].left
      <4>1. i \in DOMAIN rows /\ writer[i] = t /\ draft[i].object \notin tx[t].left
        BY <1>1, <3>2 DEF Goes, UsesHeld, Ended, IInv, TypeOK
      <4> QED BY <1>6, <1>7, <4>1
    <3>3. tx'[t].uses = tx[t].uses /\ tx'[t].left = tx[t].left
      BY <1>5, <1>9
    <3> QED BY <3>1, <3>2, <3>3 DEF UsesHeld
  <2>4. Deactivated(t, tx[t])'
    <3> PICK k \in Nat : k = n + 1
      BY <1>6 DEF n
    <3>1. View(t, k)' = new /\ Younger(tx[t], new)
      <4>1. View(t, k)' = new
        BY <1>7 DEF View
      <4>2. Younger(tx[t], new)
        BY <1>3, NoneIsNoTx DEF Younger, IInv, Tables, BeforeEnded
      <4> QED BY <4>1, <4>2
    <3>2. \A i \in DOMAIN rows : View(t, i)' = View(t, i)
      BY <1>6, <1>7 DEF View
    <3>3. \A i \in DOMAIN rows : ToDeactivate(c, View(t, i)) => Younger(tx[t], View(t, i))
      BY <1>1 DEF Goes, Deactivated, c
    <3>4. tx'[t].call = c /\ tx'[t].before = tx[t].before /\ tx'[t].open = FALSE
      BY <1>5, <1>9
    <3>5. \A i \in DOMAIN rows' : ToDeactivate(c, View(t, i)') => Younger(tx[t], View(t, i)')
      BY <1>8, <3>1, <3>2, <3>3
    <3> QED BY <3>4, <3>5 DEF Deactivated, Younger
  <2>5. Cleaned(t, tx[t])'
    BY <1>1, <1>5, <1>9 DEF Cleaned
  <2> QED BY <2>1, <2>2, <2>3, <2>4, <2>5 DEF Goes
<1> QED BY <1>10, <1>13, <1>14, <1>15, <1>16, <1>17, <1>18, <1>19, <1>20, OthersGo DEF IInv, Tables

(* What has matched is still held and usable: the check does not fail.     *)
LEMMA VisitKeepsInv ==
    ASSUME IInv, NEW t \in Tx, Visit(t)
    PROVE  IInv'
<1> DEFINE m == tx[t].hits
           stage == IF tx[t].call.kind = "transfer" THEN "ask" ELSE "done"
           own == tx[t].own \/ (AsksObject(t) /\ m # {})
           friends == tx[t].friends \/ (~AsksObject(t) /\ m # {})
           e == [tx[t] EXCEPT !.stage = stage, !.hits = {}, !.uses = @ \cup m,
                              !.own = own, !.friends = friends]
<1>1. /\ tx[t] \in Transaction /\ tx[t].stage = "visit" /\ tx[t].open = FALSE /\ Goes(t, tx[t])
      /\ m \subseteq DOMAIN rows /\ tx[t].uses \subseteq DOMAIN rows
      /\ tx[t].call.kind # "store" /\ Asks(tx[t])
  BY DEF Visit, IInv, TypeOK, Goes, OnCourse, Statements, Transaction, Asks, Ended
<1>2. \A i \in m : /\ writer[i] = t /\ View(t, i) = draft[i]
                   /\ Usable(draft[i], tx[t].now) /\ draft[i].object = tx[t].at
  BY <1>1 DEF Goes, HitsHeld, View
<1>3. {i \in m : Usable(View(t, i), tx[t].now)} = m
  BY <1>2
<1>4. /\ draft' = [i \in DOMAIN draft |-> IF i \in m THEN Used(View(t, i), Cancels(t)) ELSE draft[i]]
      /\ writer' = [i \in DOMAIN writer |-> IF i \in m THEN t ELSE writer[i]]
      /\ UNCHANGED <<rows, locks, sponsor, clock>>
  BY <1>3 DEF Visit
<1>5. tx' = [tx EXCEPT ![t] = e]
  <2>1. tx' = [tx EXCEPT ![t].stage = stage, ![t].hits = {}, ![t].uses = @ \cup m,
                         ![t].own = @ \/ (AsksObject(t) /\ m # {}),
                         ![t].friends = @ \/ (~AsksObject(t) /\ m # {})]
    BY <1>3 DEF Visit
  <2> QED BY <2>1 DEF IInv, TypeOK
<1>6. stage \in Stage /\ stage \notin Ended /\ stage \in {"ask", "done"}
  BY DEF Stage, Ended
<1>7. own \in BOOLEAN /\ friends \in BOOLEAN
  BY <1>1 DEF Transaction
<1> HIDE DEF stage, own, friends
<1>8. /\ e \in Transaction
      /\ e.open = FALSE /\ e.todo = tx[t].todo /\ e.stage = stage /\ e.now = tx[t].now
      /\ e.left = tx[t].left /\ e.before = tx[t].before /\ e.call = tx[t].call
      /\ e.at = tx[t].at /\ e.hits = {} /\ e.uses = tx[t].uses \cup m
  BY <1>1, <1>6, <1>7 DEF Transaction
<1> HIDE DEF e
<1>9. tx'[t] = e /\ \A u \in Tx \ {t} : tx'[u] = tx[u]
  BY <1>5 DEF IInv, TypeOK
<1>10. /\ DOMAIN rows = 1..Len(rows) /\ DOMAIN draft = DOMAIN rows /\ DOMAIN writer = DOMAIN rows
       /\ Len(rows) \in Nat
  BY DEF IInv, TypeOK
<1>11. \A i \in m : Used(View(t, i), Cancels(t)) \in Row
  <2> SUFFICES ASSUME NEW i \in m PROVE Used(View(t, i), Cancels(t)) \in Row
    OBVIOUS
  <2>1. PICK row \in Row : row = View(t, i)
    BY <1>1, <1>2, RowTyped DEF IInv
  <2>2. [row EXCEPT !.used = row.used + 1] \in Row
    BY DEF Row
  <2>3. [row EXCEPT !.password = "null", !.canceled = TRUE, !.used = row.used + 1] \in Row
    <3>1. PICK n \in Nat : n = row.used + 1
      BY DEF Row
    <3>2. [row EXCEPT !.password = "null", !.canceled = TRUE, !.used = n] \in Row
      BY DEF Row
    <3> QED BY <3>1, <3>2
  <2> QED BY <2>1, <2>2, <2>3 DEF Used
<1>12. TypeOK'
  <2>1. draft' \in [1..Len(rows) -> Row] /\ writer' \in [1..Len(rows) -> Tx \cup {None}]
    BY <1>4, <1>10, <1>11, RowTyped DEF IInv
  <2>2. /\ draft' \in Seq(Row) /\ Len(draft') = Len(rows)
        /\ writer' \in Seq(Tx \cup {None}) /\ Len(writer') = Len(rows)
    BY <1>10, <2>1, FunctionIsSeq
  <2>3. tx' \in [Tx -> Transaction]
    BY <1>5, <1>8 DEF IInv, TypeOK
  <2>4. \A u \in Tx : tx'[u].todo \cup tx'[u].hits \cup tx'[u].uses \subseteq DOMAIN rows'
    BY <1>1, <1>4, <1>8, <1>9 DEF IInv, TypeOK
  <2> QED BY <1>4, <2>2, <2>3, <2>4 DEF locks, IInv, TypeOK
<1>13. \A i \in DOMAIN rows :
          /\ writer'[i] = writer[i]
          /\ i \notin m => draft'[i] = draft[i]
          /\ i \in m => /\ SameStored(draft'[i], draft[i])
                        /\ Active(draft'[i]) => Active(draft[i])
                        /\ draft'[i].used = draft[i].used + 1
  <2> SUFFICES ASSUME NEW i \in DOMAIN rows
               PROVE  /\ writer'[i] = writer[i]
                      /\ i \notin m => draft'[i] = draft[i]
                      /\ i \in m => /\ SameStored(draft'[i], draft[i])
                                    /\ Active(draft'[i]) => Active(draft[i])
                                    /\ draft'[i].used = draft[i].used + 1
    OBVIOUS
  <2>1. writer'[i] = writer[i] /\ (i \notin m => draft'[i] = draft[i])
    BY <1>2, <1>4, <1>10
  <2>2. ASSUME i \in m
        PROVE  /\ SameStored(draft'[i], draft[i])
               /\ Active(draft'[i]) => Active(draft[i])
               /\ draft'[i].used = draft[i].used + 1
    <3>1. draft[i] \in Row /\ draft'[i] = Used(draft[i], Cancels(t))
      BY <1>2, <1>4, <1>10, <2>2, RowTyped DEF IInv
    <3> QED BY <3>1 DEF Used, Row, SameStored, SameOwner, Active
  <2> QED BY <2>1, <2>2
<1>14. \A i \in m : i \notin tx[t].uses
  BY <1>1, <1>2 DEF Goes, UsesHeld, Ended
<1>15. Takes(t)
  <2>1. \A i \in DOMAIN rows :
           \/ /\ writer'[i] = writer[i] /\ draft'[i] = draft[i]
              /\ i \in tx'[t].uses => i \in tx[t].uses
           \/ /\ writer[i] \in {None, t} /\ writer'[i] = t
              /\ SameStored(draft'[i], View(t, i))
              /\ Active(draft'[i]) => Active(View(t, i))
              /\ draft'[i].used = View(t, i).used + (IF i \in tx'[t].uses \ tx[t].uses THEN 1 ELSE 0)
    BY <1>2, <1>8, <1>9, <1>13, <1>14
  <2>2. Running(t) /\ tx'[t].stage \notin Ended \cup {"idle"}
    BY <1>1, <1>6, <1>8, <1>9 DEF Running, Ended
  <2> QED BY <1>4, <1>8, <1>9, <2>1, <2>2 DEF Takes
<1>16. Goes(t, tx[t])'
  <2>1. OnCourse(tx[t])'
    BY <1>1, <1>6, <1>8, <1>9 DEF Goes, OnCourse, Statements, Ended, stage
  <2>2. HitsHeld(t, tx[t])'
    BY <1>6, <1>8, <1>9 DEF HitsHeld
  <2>3. UsesHeld(t, tx[t])'
    <3>1. \A i \in tx[t].uses \cup m : writer'[i] = t /\ draft'[i].object \notin tx[t].left
      BY <1>1, <1>2, <1>13 DEF Goes, UsesHeld, Ended, SameStored, SameOwner
    <3> QED BY <1>6, <1>8, <1>9, <3>1 DEF UsesHeld, Asks
  <2>4. Deactivated(t, tx[t])' /\ Cleaned(t, tx[t])'
    BY <1>1, <1>6, <1>8, <1>9 DEF Deactivated, Cleaned, HasCleaned, stage
  <2> QED BY <2>1, <2>2, <2>3, <2>4 DEF Goes
<1> QED BY <1>12, <1>15, <1>16, TakesTouches, TakesKeepsTables, OthersGo DEF IInv

-----------------------------------------------------------------------------
(* The invariant and what follows from it                                  *)

LEMMA StaysInv ==
    ASSUME IInv, UNCHANGED <<tables, sponsor, locks, tx>>, clock' \in Nat
    PROVE  IInv'
<1>1. \A t \in Tx : \A i : View(t, i)' = View(t, i)
  BY DEF View, tables
<1>2. TypeOK'
  BY DEF IInv, TypeOK, tables, locks
<1>3. Tables'
  BY DEF IInv, Tables, WritersRun, DraftsFollow, RowsBelong, BeforeEnded, Counted, Users,
         TwoActiveWereConcurrent, Running, tables
<1>4. ASSUME NEW t \in Tx PROVE Goes(t, tx[t])'
  <2>1. Goes(t, tx[t])
    BY DEF IInv
  <2>2. OnCourse(tx[t])' /\ HitsHeld(t, tx[t])' /\ UsesHeld(t, tx[t])'
    BY <2>1 DEF Goes, OnCourse, HitsHeld, UsesHeld, Asks, tables
  <2>3. Deactivated(t, tx[t])' /\ Cleaned(t, tx[t])'
    BY <1>1, <2>1 DEF Goes, Deactivated, Cleaned, HasCleaned, Younger, tables
  <2> QED BY <2>2, <2>3 DEF Goes
<1> QED BY <1>2, <1>3, <1>4 DEF IInv

LEMMA InvInit == Init => IInv
<1> SUFFICES ASSUME Init PROVE IInv
  OBVIOUS
<1>1. TypeOK
  BY InitTyped
<1>2. /\ DOMAIN rows = DOMAIN InitialRows /\ rows = InitialRows /\ draft = rows
      /\ \A i \in DOMAIN rows : writer[i] = None /\ rows[i].by = None /\ rows[i].used = 0
  BY RowsStored DEF Init
<1>3. \A t \in Tx : /\ tx[t].stage = "idle" /\ tx[t].open = FALSE /\ tx[t].hits = {}
                    /\ tx[t].uses = {} /\ tx[t].before = {} /\ tx[t].at = tx[t].call.object
  BY DEF Init, Nothing
<1>4. WritersRun /\ DraftsFollow /\ RowsBelong /\ BeforeEnded
  BY <1>2, <1>3 DEF WritersRun, DraftsFollow, RowsBelong, BeforeEnded, SameStored, SameOwner
<1>5. Counted
  <2>1. \A i \in DOMAIN rows : Users(i) = {}
    BY <1>3 DEF Users
  <2> QED BY <1>2, <2>1, FS_EmptySet DEF Counted
<1>6. TwoActiveWereConcurrent
  BY <1>2, RowsStored DEF TwoActiveWereConcurrent
<1>7. ASSUME NEW t \in Tx PROVE Goes(t, tx[t])
  <2>1. tx[t].call.kind \in {"store", "check", "clean", "expire", "transfer"}
    BY <1>1, CallsKnown DEF TypeOK, Transaction, Call
  <2> QED BY <1>3, <2>1
      DEF Goes, OnCourse, HitsHeld, UsesHeld, Asks, Deactivated, Cleaned, HasCleaned, Ended
<1> QED BY <1>1, <1>4, <1>5, <1>6, <1>7 DEF IInv, Tables

LEMMA InvNext == IInv /\ [Next]_vars => IInv'
<1> SUFFICES ASSUME IInv, [Next]_vars PROVE IInv'
  OBVIOUS
<1>1. CASE Tick
  BY <1>1, StaysInv DEF Tick, IInv, TypeOK
<1>2. CASE UNCHANGED vars
  BY <1>2, StaysInv DEF vars, IInv, TypeOK
<1>3. ASSUME NEW t \in Tx, Begin(t) \/ Proceed(t) \/ Rollback(t) PROVE IInv'
  <2>1. CASE Begin(t) \/ Rollback(t)
    BY <2>1, BeginKeepsInv, RollbackKeepsInv
  <2>2. CASE LockSponsor(t) \/ LockForShare(t) \/ FindNothing(t) \/ SetHistoryId(t)
    BY <2>2, LockSponsorKeepsInv, LockForShareKeepsInv, FindNothingKeepsInv, SetHistoryIdKeepsInv
  <2>3. CASE Snapshot(t) \/ TakeRow(t) \/ AfterStatement(t)
    BY <2>3, SnapshotKeepsInv, TakeRowKeepsInv, AfterStatementKeepsInv
  <2>4. CASE Insert(t) \/ Visit(t) \/ AskContact(t) \/ Authorize(t)
    BY <2>4, InsertKeepsInv, VisitKeepsInv, AskContactKeepsInv, AuthorizeKeepsInv
  <2>5. CASE Commit(t) \/ BreakDeadlock(t)
    BY <2>5, CommitKeepsInv, BreakDeadlockKeepsInv
  <2> QED BY <1>3, <2>1, <2>2, <2>3, <2>4, <2>5 DEF Proceed
<1> QED BY <1>1, <1>2, <1>3 DEF Next

LEMMA Invariance == Spec => []IInv
<1> QED BY InvInit, InvNext, PTL DEF Spec

(* Rows, drafts and writers stay in step, and a statement is about rows    *)
(* that there are.                                                         *)
THEOREM TypeCorrect == Spec => []TypeOK
<1>1. IInv => TypeOK
  BY DEF IInv
<1> QED BY <1>1, Invariance, PTL

(* use_count counts each committed check that a password has satisfied,    *)
(* once, whatever runs at the same time: increment_usage and               *)
(* increment_usage_and_cancel update a row locked FOR UPDATE by the check. *)
THEOREM UsesCounted == Spec => []UsesAreCounted
<1>1. IInv => UsesAreCounted
  BY DEF IInv, Tables, Counted, Users, UsesAreCounted
<1> QED BY <1>1, Invariance, PTL

(* increment_usage_and_cancel never misses the row that CheckAuthinfo has  *)
(* selected for it.                                                        *)
THEOREM VisitorFinds == Spec => []VisitorFindsRow
<1>1. IInv => VisitorFindsRow
  BY DEF IInv, Goes, OnCourse, VisitorFindsRow
<1> QED BY <1>1, Invariance, PTL

(* Two active passwords of a registrar for an object were stored by        *)
(* transactions of StoreAuthinfo neither of which began after the other    *)
(* had ended.                                                              *)
THEOREM ActiveWereConcurrent == Spec => []TwoActiveWereConcurrent
<1>1. IInv => TwoActiveWereConcurrent
  BY DEF IInv, Tables
<1> QED BY <1>1, Invariance, PTL

-----------------------------------------------------------------------------
(* The password that authorises a transfer                                 *)

(* A draft that is active has the password of its row.                     *)
WordsKept ==
    \A i \in DOMAIN rows : Active(draft[i]) /\ Active(rows[i]) => draft[i].password = rows[i].password

Word(d, row) ==
    row.object = d.call.object /\ Usable(row, d.now) /\ row.password = d.call.password

AsksOwn(d) == d.left = d.call.contacts

(* Of the rows of the object with the password of the call, those that     *)
(* have been seen have matched, or are younger; after a match only younger *)
(* ones are usable.                                                        *)
Spent(t, d) ==
    d.call.kind = "transfer" =>
        /\ d.left \subseteq d.call.contacts
        /\ d.stage = "idle" => ~d.own
        /\ Asks(d) /\ AsksOwn(d) => d.at = d.call.object
        /\ (d.stage = "visit" \/ (d.stage = "match" /\ d.open)) /\ AsksOwn(d) =>
              \A i \in DOMAIN rows :
                  (d.open => i \notin d.todo) /\ Word(d, View(t, i)) =>
                      i \in d.hits \/ Younger(d, View(t, i))
        /\ d.own /\ d.stage \notin Ended \ {"committed"} =>
              \A i \in DOMAIN rows : Word(d, View(t, i)) => Younger(d, View(t, i))

Spending == WordsKept /\ \A t \in Tx : Spent(t, tx[t])

LEMMA OthersWord ==
    ASSUME IInv, WordsKept, NEW t \in Tx, NEW u \in Tx \ {t}, Touches(t), NEW i \in DOMAIN rows',
           NEW d, Word(d, View(u, i)')
    PROVE  \/ View(u, i)'.by = t
           \/ i \in DOMAIN rows /\ Word(d, View(u, i)) /\ View(u, i)'.by = View(u, i).by
<1>1. CASE i \in DOMAIN rows /\ SameStored(View(u, i)', View(u, i)) /\ Active(View(u, i))
  <2>1. View(u, i)'.password = View(u, i).password
    <3>1. CASE writer[i] = u
      BY <1>1, <3>1, NoneIsNoTx DEF Touches, View
    <3>2. CASE writer[i] # u
      <4>1. View(u, i) = rows[i] /\ View(u, i)' = rows'[i]
        BY <1>1, <3>2, NoneIsNoTx DEF Touches, View
      <4> QED BY <1>1, <4>1 DEF Touches, WordsKept, Word, Usable
    <3> QED BY <3>1, <3>2
  <2> QED BY <1>1, <2>1 DEF Word, Usable, SameStored, SameOwner
<1> QED BY <1>1, OthersView DEF Word, Usable

LEMMA OthersSpend ==
    ASSUME IInv, Spending, NEW t \in Tx, NEW u \in Tx \ {t}, Touches(t)
    PROVE  Spent(u, tx[u])'
<1>1. Spent(u, tx[u]) /\ tx'[u] = tx[u]
  BY DEF Spending, Touches
<1>2. t \notin tx[u].before
  BY DEF IInv, Tables, BeforeEnded, Touches
<1>3. ASSUME NEW i \in DOMAIN rows', Word(tx[u], View(u, i)')
      PROVE  \/ Younger(tx[u], View(u, i)')
             \/ /\ i \in DOMAIN rows /\ Word(tx[u], View(u, i))
                /\ Younger(tx[u], View(u, i)) => Younger(tx[u], View(u, i)')
  BY <1>2, <1>3, OthersWord, NoneIsNoTx DEF Spending, Younger
<1> QED BY <1>1, <1>3 DEF Spent, Asks, AsksOwn, Word, Younger

LEMMA StepSpends ==
    ASSUME IInv, Spending, NEW t \in Tx, Touches(t), WordsKept', Spent(t, tx[t])'
    PROVE  Spending'
<1>1. \A u \in Tx \ {t} : Spent(u, tx[u])'
  BY OthersSpend
<1> QED BY <1>1 DEF Spending

LEMMA QuietSpends ==
    ASSUME IInv, Spending, NEW t \in Tx, UNCHANGED tables, tx[t].stage \notin Ended,
           NEW d, tx' = [tx EXCEPT ![t] = d], Spent(t, d)
    PROVE  Spending'
<1>1. tx'[t] = d /\ \A u \in Tx \ {t} : tx'[u] = tx[u]
  BY DEF IInv, TypeOK
<1>2. WordsKept' /\ Touches(t)
  BY <1>1 DEF Spending, WordsKept, Touches, tables
<1>3. \A i : View(t, i)' = View(t, i)
  BY DEF View, tables
<1>4. Spent(t, d)'
  BY <1>3 DEF Spent, Asks, AsksOwn, Word, Younger, tables
<1>5. Spent(t, tx[t])'
  BY <1>1, <1>4 DEF Spent, Asks, AsksOwn, Word, Younger
<1> QED BY <1>2, <1>5, StepSpends

(* Between statements                                                      *)
LEMMA AdvanceSpends ==
    ASSUME IInv, Spending, NEW t \in Tx, NEW stage \in Stage, UNCHANGED tables,
           tx' = [tx EXCEPT ![t].stage = stage], tx[t].stage \notin Ended \cup {"idle"},
           tx[t].open = FALSE, stage \notin Ended \cup {"idle", "visit"},
           stage \in {"share", "match", "sponsor"} => Asks(tx[t])
    PROVE  Spending'
<1> DEFINE e == [tx[t] EXCEPT !.stage = stage]
<1>1. tx[t] \in Transaction /\ Spent(t, tx[t])
  BY DEF IInv, TypeOK, Spending
<1>2. Advances(t, e, stage)
  BY <1>1 DEF Transaction, Advances
<1>3. tx' = [tx EXCEPT ![t] = e]
  BY DEF IInv, TypeOK
<1> HIDE DEF e
<1>4. Spent(t, e)
  BY <1>1, <1>2 DEF Spent, Advances, Asks, AsksOwn, Word, Younger
<1> QED BY <1>3, <1>4, QuietSpends

LEMMA BeginSpends ==
    ASSUME IInv, Spending, NEW t \in Tx, Begin(t)
    PROVE  Spending'
<1> DEFINE c == tx[t].call
           stage == IF c.kind = "store" /\ c.ttl = 0 THEN "refused" ELSE FirstStage(c)
           ended == {u \in Tx : tx[u].stage \in Ended}
           e == [tx[t] EXCEPT !.stage = stage, !.now = clock, !.left = c.contacts, !.before = ended]
<1>1. tx[t] \in Transaction /\ tx[t].stage = "idle" /\ tx[t].at = c.object /\ Spent(t, tx[t])
  BY DEF Begin, IInv, TypeOK, Goes, OnCourse, Spending
<1>2. e.stage = stage /\ e.call = c /\ e.at = tx[t].at /\ e.left = c.contacts /\ e.own = tx[t].own
  BY <1>1 DEF Transaction
<1>3. tx' = [tx EXCEPT ![t] = e]
  BY DEF Begin, IInv, TypeOK
<1>4. c.kind = "transfer" => stage = "sponsor" /\ ~tx[t].own
  BY <1>1 DEF FirstStage, Spent
<1> HIDE DEF e, stage
<1>5. Spent(t, e)
  BY <1>1, <1>2, <1>4 DEF Spent
<1> QED BY <1>1, <1>3, <1>5, QuietSpends DEF Begin, Ended

LEMMA SnapshotSpends ==
    ASSUME IInv, Spending, NEW t \in Tx, Snapshot(t)
    PROVE  Spending'
<1> DEFINE todo == {i \in DOMAIN rows : Selects(t, View(t, i))}
           e == [tx[t] EXCEPT !.open = TRUE, !.todo = todo]
<1>1. tx[t] \in Transaction /\ tx[t].stage \in Statements /\ Spent(t, tx[t])
  BY DEF Snapshot, IInv, TypeOK, Spending
<1>2. /\ e.open = TRUE /\ e.todo = todo /\ e.stage = tx[t].stage /\ e.now = tx[t].now
      /\ e.left = tx[t].left /\ e.before = tx[t].before /\ e.call = tx[t].call /\ e.at = tx[t].at
      /\ e.hits = tx[t].hits /\ e.own = tx[t].own
  BY <1>1 DEF Transaction
<1>3. tx' = [tx EXCEPT ![t] = e]
  BY DEF Snapshot, IInv, TypeOK
<1>4. \A i \in DOMAIN rows :
         tx[t].stage = "match" /\ ToVisit(tx[t].at, tx[t].now, View(t, i)) => i \in todo
  BY DEF Selects
<1> HIDE DEF e, todo
<1>5. Spent(t, e)
  BY <1>1, <1>2, <1>4 DEF Spent, Asks, AsksOwn, Word, ToVisit, Younger, Statements
<1> QED BY <1>1, <1>3, <1>5, QuietSpends DEF Snapshot, Statements, Ended

LEMMA AfterStatementSpends ==
    ASSUME IInv, Spending, NEW t \in Tx, AfterStatement(t)
    PROVE  Spending'
<1> DEFINE stage == Continuation(t)
           e == [tx[t] EXCEPT !.open = FALSE, !.stage = stage]
<1>1. /\ tx[t] \in Transaction /\ tx[t].stage \in Statements /\ tx[t].open /\ tx[t].todo = {}
      /\ Spent(t, tx[t])
  BY DEF AfterStatement, IInv, TypeOK, Spending
<1>2. /\ stage \in {"insert", "visit", "write", "done"}
      /\ stage = "visit" => tx[t].stage = "match"
  BY <1>1 DEF Continuation, Statements
<1> HIDE DEF stage
<1>3. /\ e.open = FALSE /\ e.todo = {} /\ e.stage = stage /\ e.now = tx[t].now
      /\ e.left = tx[t].left /\ e.before = tx[t].before /\ e.call = tx[t].call /\ e.at = tx[t].at
      /\ e.hits = tx[t].hits /\ e.own = tx[t].own
  BY <1>1 DEF Transaction
<1>4. tx' = [tx EXCEPT ![t] = e]
  BY DEF AfterStatement, IInv, TypeOK, stage
<1> HIDE DEF e
<1>5. Spent(t, e)
  BY <1>1, <1>2, <1>3 DEF Spent, Asks, AsksOwn, Word, Younger, Statements, Ended
<1> QED BY <1>1, <1>4, <1>5, QuietSpends DEF AfterStatement, Statements, Ended

LEMMA AskContactSpends ==
    ASSUME IInv, Spending, NEW t \in Tx, AskContact(t)
    PROVE  Spending'
<1>1. tx[t] \in Transaction /\ tx[t].stage = "ask" /\ tx[t].call.kind = "transfer" /\ Spent(t, tx[t])
  BY Standing DEF AskContact, Goes, OnCourse, Spending
<1>2. PICK c \in tx[t].left :
         tx' = [tx EXCEPT ![t].stage = "share", ![t].at = c, ![t].left = @ \ {c}]
  BY DEF AskContact
<1> DEFINE e == [tx[t] EXCEPT !.stage = "share", !.at = c, !.left = @ \ {c}]
<1>3. /\ e.stage = "share" /\ e.now = tx[t].now /\ e.left = tx[t].left \ {c}
      /\ e.before = tx[t].before /\ e.call = tx[t].call /\ e.own = tx[t].own
  BY <1>1 DEF Transaction
<1>4. tx' = [tx EXCEPT ![t] = e]
  BY <1>2 DEF IInv, TypeOK
<1> HIDE DEF e
<1>5. ~AsksOwn(e)
  BY <1>1, <1>3 DEF AsksOwn, Spent
<1>6. Spent(t, e)
  BY <1>1, <1>3, <1>5 DEF Spent, Word, Younger, Ended
<1> QED BY <1>1, <1>4, <1>6, QuietSpends DEF AskContact, Ended

(* The end of a transaction                                                *)
LEMMA EndSpends ==
    ASSUME IInv, Spending, NEW t \in Tx, NEW outcome \in Ended, End(t, outcome, Left(t, outcome)),
           tx[t].stage \notin Ended \cup {"idle"}
    PROVE  Spending'
<1>1. /\ DOMAIN draft = DOMAIN rows /\ DOMAIN writer = DOMAIN rows
      /\ tx[t] \in Transaction /\ Spent(t, tx[t])
  BY DEF IInv, TypeOK, Spending
<1>2. /\ DOMAIN rows' = DOMAIN rows
      /\ \A i \in DOMAIN rows :
            /\ rows'[i] = IF outcome = "committed" /\ writer[i] = t THEN draft[i] ELSE rows[i]
            /\ draft'[i] = IF writer[i] = t THEN rows'[i] ELSE draft[i]
            /\ writer'[i] = IF writer[i] = t THEN None ELSE writer[i]
  BY <1>1 DEF End, Left
<1> DEFINE e == [tx[t] EXCEPT !.stage = outcome, !.open = FALSE, !.todo = {}]
<1>3. /\ e.open = FALSE /\ e.stage = outcome /\ e.now = tx[t].now /\ e.left = tx[t].left
      /\ e.before = tx[t].before /\ e.call = tx[t].call /\ e.own = tx[t].own
  BY <1>1 DEF Transaction
<1>4. tx'[t] = e /\ \A u \in Tx \ {t} : tx'[u] = tx[u]
  BY DEF End, IInv, TypeOK
<1> HIDE DEF e
<1>5. Touches(t)
  BY <1>2, <1>4, NoneIsNoTx DEF Touches
<1>6. WordsKept'
  BY <1>2, NoneIsNoTx DEF Spending, WordsKept
<1>7. outcome = "committed" => \A i \in DOMAIN rows : View(t, i)' = View(t, i)
  BY <1>2, NoneIsNoTx DEF View
<1>8. PICK d : d = e
  OBVIOUS
<1>9. Spent(t, d)'
  BY <1>1, <1>2, <1>3, <1>7, <1>8 DEF Spent, Asks, Word, Younger, Ended
<1>10. Spent(t, tx[t])'
  BY <1>4, <1>8, <1>9 DEF Spent, Asks, AsksOwn, Word, Younger
<1> QED BY <1>5, <1>6, <1>10, StepSpends

LEMMA LeaveSpends ==
    ASSUME IInv, Spending, NEW t \in Tx, NEW outcome \in Ended \ {"committed"}, End(t, outcome, rows),
           tx[t].stage \notin Ended \cup {"idle"}
    PROVE  Spending'
<1>1. Left(t, outcome) = rows
  BY DEF Left, IInv, TypeOK
<1> QED BY <1>1, EndSpends

(* A statement changes rows                                                *)
LEMMA TakeRowSpends ==
    ASSUME IInv, Spending, NEW t \in Tx, TakeRow(t)
    PROVE  Spending'
<1>1. /\ tx[t] \in Transaction /\ tx[t].stage \in Statements /\ tx[t].open /\ Spent(t, tx[t])
      /\ rows' = rows /\ tx[t].todo \cup tx[t].hits \subseteq DOMAIN rows
  BY DEF TakeRow, IInv, TypeOK, Spending
<1>2. PICK i \in tx[t].todo :
         /\ writer[i] \in {None, t}
         /\ IF Selects(t, View(t, i))
            THEN /\ writer' = [writer EXCEPT ![i] = t]
                 /\ draft' = [draft EXCEPT ![i] = Changed(tx[t].stage, View(t, i))]
                 /\ tx' = [tx EXCEPT ![t].todo = @ \ {i},
                                     ![t].hits = IF Matches(t, i) THEN @ \cup {i} ELSE @]
            ELSE tx' = [tx EXCEPT ![t].todo = @ \ {i}] /\ UNCHANGED <<writer, draft>>
  BY DEF TakeRow
<1>3. \A k \in DOMAIN rows :
         AsksOwn(tx[t]) /\ tx[t].call.kind = "transfer" /\ tx[t].stage = "match" /\ Word(tx[t], View(t, k))
         => ToVisit(tx[t].at, tx[t].now, View(t, k)) /\ Matches(t, k)
  BY <1>1 DEF Spent, Asks, Word, ToVisit, Matches
<1>4. CASE ~Selects(t, View(t, i))
  <2> DEFINE e == [tx[t] EXCEPT !.todo = @ \ {i}]
  <2>1. /\ e.open = tx[t].open /\ e.todo = tx[t].todo \ {i} /\ e.stage = tx[t].stage
        /\ e.now = tx[t].now /\ e.left = tx[t].left /\ e.before = tx[t].before
        /\ e.call = tx[t].call /\ e.at = tx[t].at /\ e.hits = tx[t].hits /\ e.own = tx[t].own
    BY <1>1 DEF Transaction
  <2>2. tx' = [tx EXCEPT ![t] = e]
    BY <1>2, <1>4 DEF IInv, TypeOK
  <2>3. tx[t].stage = "match" => ~ToVisit(tx[t].at, tx[t].now, View(t, i))
    BY <1>4 DEF Selects
  <2> HIDE DEF e
  <2>4. Spent(t, e)
    BY <1>1, <1>3, <2>1, <2>3 DEF Spent, Asks, AsksOwn, Word, Younger, Statements
  <2> QED BY <1>1, <1>2, <1>4, <2>2, <2>4, QuietSpends DEF tables, Statements, Ended
<1>5. CASE Selects(t, View(t, i))
  <2> DEFINE row == View(t, i)
             new == Changed(tx[t].stage, row)
             hits == IF Matches(t, i) THEN tx[t].hits \cup {i} ELSE tx[t].hits
             e == [tx[t] EXCEPT !.todo = @ \ {i}, !.hits = hits]
  <2>1. i \in DOMAIN rows /\ row \in Row
    BY <1>1, RowTyped DEF IInv, View
  <2>2. /\ SameStored(new, row) /\ (Active(new) => tx[t].stage = "match")
        /\ tx[t].stage = "match" => new = row
    BY <1>1, <2>1, ChangedRow
  <2>3. /\ e.open = tx[t].open /\ e.todo = tx[t].todo \ {i} /\ e.stage = tx[t].stage
        /\ e.now = tx[t].now /\ e.left = tx[t].left /\ e.before = tx[t].before
        /\ e.call = tx[t].call /\ e.at = tx[t].at /\ e.hits = hits /\ e.own = tx[t].own
    BY <1>1 DEF Transaction
  <2>4. tx' = [tx EXCEPT ![t] = e]
    BY <1>2, <1>5 DEF IInv, TypeOK
  <2>5. tx[t].hits \subseteq hits /\ (Matches(t, i) => i \in hits)
    OBVIOUS
  <2> HIDE DEF e, new, hits
  <2>6. tx'[t] = e /\ \A u \in Tx \ {t} : tx'[u] = tx[u]
    BY <2>4 DEF IInv, TypeOK
  <2>7. \A k \in DOMAIN rows : /\ writer'[k] = IF k = i THEN t ELSE writer[k]
                               /\ draft'[k] = IF k = i THEN new ELSE draft[k]
    BY <1>2, <1>5, RowTyped DEF new, IInv, TypeOK
  <2>8. \A k \in DOMAIN rows : View(t, k)' = IF k = i THEN new ELSE View(t, k)
    BY <1>1, <2>7 DEF View
  <2>9. Touches(t)
    BY <1>1, <1>2, <2>6, <2>7 DEF Touches, Statements, Ended
  <2>10. WordsKept'
    BY <1>1, <2>2, <2>7 DEF Spending, WordsKept, View
  <2>11. PICK d : d = e
    OBVIOUS
  <2>12. Spent(t, d)'
    <3>1. \A k \in DOMAIN rows : Word(tx[t], View(t, k)') =>
             View(t, k)' = View(t, k) /\ (k = i => tx[t].stage = "match")
      BY <2>2, <2>8 DEF Word, Usable
    <3>2. \A k \in DOMAIN rows : Word(d, View(t, k)') <=> Word(tx[t], View(t, k)')
      BY <2>3, <2>11 DEF Word
    <3>3. ASSUME tx[t].call.kind = "transfer", tx[t].stage = "match", AsksOwn(tx[t]),
                 NEW k \in DOMAIN rows, k \notin d.todo, Word(tx[t], View(t, k)')
          PROVE  k \in hits \/ Younger(tx[t], View(t, k)')
      <4>1. CASE k = i
        BY <1>3, <2>5, <3>1, <3>3, <4>1
      <4>2. CASE k # i
        BY <1>1, <2>3, <2>5, <2>11, <3>1, <3>3, <4>2 DEF Spent
      <4> QED BY <4>1, <4>2
    <3>4. ASSUME tx[t].call.kind = "transfer", tx[t].own, NEW k \in DOMAIN rows, Word(tx[t], View(t, k)')
          PROVE  Younger(tx[t], View(t, k)')
      BY <1>1, <3>1, <3>4 DEF Spent, Statements, Ended
    <3> QED BY <1>1, <2>3, <2>11, <3>2, <3>3, <3>4 DEF Spent, Asks, AsksOwn, Younger, Statements
  <2>13. Spent(t, tx[t])'
    BY <2>6, <2>11, <2>12 DEF Spent, Asks, AsksOwn, Word, Younger
  <2> QED BY <2>9, <2>10, <2>13, StepSpends
<1> QED BY <1>4, <1>5

LEMMA InsertSpends ==
    ASSUME IInv, Spending, NEW t \in Tx, Insert(t)
    PROVE  Spending'
<1> DEFINE c == tx[t].call
           n == Len(rows)
           new == [object |-> c.object, registrar |-> c.registrar, password |-> c.password,
                   expires |-> tx[t].now + c.ttl, canceled |-> FALSE, used |-> 0, by |-> t]
           none == [new EXCEPT !.password = "absent"]
<1>1. tx[t] \in Transaction /\ tx[t].stage = "insert" /\ c.kind = "store"
  BY Standing, CallsKnown DEF Insert, Goes, OnCourse, Call, Transaction
<1>2. none.by = t /\ ~Active(none)
  BY PasswordsAreOthers DEF Active
<1>3. rows' = Append(rows, none) /\ draft' = Append(draft, new) /\ writer' = Append(writer, t)
  BY DEF Insert
<1> HIDE DEF new, none, c
<1>4. /\ n \in Nat /\ DOMAIN rows = 1..n /\ DOMAIN rows' = 1..(n + 1)
      /\ rows'[n + 1] = none /\ writer'[n + 1] = t
      /\ \A i \in 1..n : rows'[i] = rows[i] /\ draft'[i] = draft[i] /\ writer'[i] = writer[i]
  BY <1>3 DEF IInv, TypeOK
<1>5. tx'[t].call = tx[t].call /\ \A u \in Tx \ {t} : tx'[u] = tx[u]
  BY <1>1 DEF Insert, IInv, TypeOK, Transaction
<1>6. \A i \in DOMAIN rows' \ DOMAIN rows : i = n + 1
  BY <1>4
<1>7. Touches(t)
  BY <1>1, <1>2, <1>4, <1>5, <1>6 DEF Touches, Ended
<1>8. WordsKept'
  BY <1>2, <1>4, <1>6 DEF Spending, WordsKept
<1>9. Spent(t, tx[t])'
  BY <1>1, <1>5 DEF Spent, c
<1> QED BY <1>7, <1>8, <1>9, StepSpends

LEMMA VisitSpends ==
    ASSUME IInv, Spending, NEW t \in Tx, Visit(t)
    PROVE  Spending'
<1> DEFINE m == tx[t].hits
           stage == IF tx[t].call.kind = "transfer" THEN "ask" ELSE "done"
           own == tx[t].own \/ (AsksObject(t) /\ m # {})
           friends == tx[t].friends \/ (~AsksObject(t) /\ m # {})
           e == [tx[t] EXCEPT !.stage = stage, !.hits = {}, !.uses = @ \cup m,
                              !.own = own, !.friends = friends]
<1>1. /\ tx[t] \in Transaction /\ tx[t].stage = "visit" /\ tx[t].open = FALSE /\ Goes(t, tx[t])
      /\ m \subseteq DOMAIN rows /\ Spent(t, tx[t])
  BY DEF Visit, IInv, TypeOK, Goes, OnCourse, Statements, Transaction, Spending
<1>2. \A i \in m : writer[i] = t /\ View(t, i) = draft[i] /\ Usable(draft[i], tx[t].now)
  BY <1>1 DEF Goes, HitsHeld, View
<1>3. {i \in m : Usable(View(t, i), tx[t].now)} = m
  BY <1>2
<1>4. /\ draft' = [i \in DOMAIN draft |-> IF i \in m THEN Used(View(t, i), Cancels(t)) ELSE draft[i]]
      /\ writer' = [i \in DOMAIN writer |-> IF i \in m THEN t ELSE writer[i]]
      /\ rows' = rows
  BY <1>3 DEF Visit
<1>5. tx' = [tx EXCEPT ![t] = e]
  <2>1. tx' = [tx EXCEPT ![t].stage = stage, ![t].hits = {}, ![t].uses = @ \cup m,
                         ![t].own = @ \/ (AsksObject(t) /\ m # {}),
                         ![t].friends = @ \/ (~AsksObject(t) /\ m # {})]
    BY <1>3 DEF Visit
  <2> QED BY <2>1 DEF IInv, TypeOK
<1>6. /\ e.stage = stage /\ e.now = tx[t].now /\ e.left = tx[t].left /\ e.before = tx[t].before
      /\ e.call = tx[t].call /\ e.own = own
  BY <1>1 DEF Transaction
<1> HIDE DEF e, friends
<1>7. tx'[t] = e /\ \A u \in Tx \ {t} : tx'[u] = tx[u]
  BY <1>5 DEF IInv, TypeOK
<1>8. DOMAIN draft = DOMAIN rows /\ DOMAIN writer = DOMAIN rows
  BY DEF IInv, TypeOK
<1>9. \A i \in DOMAIN rows :
         /\ writer'[i] = writer[i]
         /\ draft'[i] = IF i \in m THEN Used(draft[i], Cancels(t)) ELSE draft[i]
  BY <1>2, <1>4, <1>8
<1>10. \A i \in m : /\ ~Cancels(t) => /\ draft'[i].password = draft[i].password
                                      /\ draft'[i].object = draft[i].object
                                      /\ draft'[i].expires = draft[i].expires
                                      /\ draft'[i].canceled = draft[i].canceled
                                      /\ draft'[i].by = draft[i].by
                    /\ Active(draft'[i]) => ~Cancels(t)
  <2> SUFFICES ASSUME NEW i \in m
               PROVE  /\ ~Cancels(t) => /\ draft'[i].password = draft[i].password
                                        /\ draft'[i].object = draft[i].object
                                        /\ draft'[i].expires = draft[i].expires
                                        /\ draft'[i].canceled = draft[i].canceled
                                        /\ draft'[i].by = draft[i].by
                      /\ Active(draft'[i]) => ~Cancels(t)
    OBVIOUS
  <2>1. draft[i] \in Row /\ draft'[i] = Used(draft[i], Cancels(t))
    BY <1>1, <1>9, RowTyped DEF IInv
  <2> QED BY <2>1 DEF Used, Row, Active
<1>11. Touches(t)
  <2>1. \A i \in DOMAIN rows : writer[i] # t => draft'[i] = draft[i]
    BY <1>2, <1>9
  <2> QED BY <1>1, <1>4, <1>7, <1>9, <2>1 DEF Touches, Ended
<1>12. WordsKept'
  <2>1. \A i \in DOMAIN rows : Active(draft'[i]) =>
           draft'[i].password = draft[i].password /\ draft'[i].canceled = draft[i].canceled
    BY <1>9, <1>10
  <2> QED BY <1>4, <2>1 DEF Spending, WordsKept, Active
<1>13. PICK d : d = e
  OBVIOUS
<1>14. Spent(t, d)'
  <2>1. ASSUME NEW i \in DOMAIN rows, Word(tx[t], View(t, i)')
        PROVE  /\ Word(tx[t], View(t, i)) /\ (Younger(tx[t], View(t, i)) => Younger(tx[t], View(t, i)'))
               /\ Cancels(t) => i \notin m
    <3>1. CASE i \in m
      BY <1>2, <1>9, <1>10, <2>1, <3>1 DEF View, Word, Usable, Active, Younger
    <3>2. CASE i \notin m
      BY <1>4, <1>9, <2>1, <3>2 DEF View
    <3> QED BY <3>1, <3>2
  <2>2. ASSUME tx[t].call.kind = "transfer", own, NEW i \in DOMAIN rows, Word(tx[t], View(t, i)')
        PROVE  Younger(tx[t], View(t, i)')
    <3>1. CASE tx[t].own
      BY <1>1, <2>1, <2>2, <3>1 DEF Spent, Ended
    <3>2. CASE ~tx[t].own
      <4>1. AsksObject(t) /\ Cancels(t) /\ AsksOwn(tx[t])
        BY <2>2, <3>2 DEF AsksObject, Cancels, AsksOwn
      <4> QED BY <1>1, <2>1, <2>2, <4>1 DEF Spent
    <3> QED BY <3>1, <3>2
  <2>3. tx[t].call.kind = "transfer" => stage = "ask" /\ tx[t].left \subseteq tx[t].call.contacts
    BY <1>1 DEF Spent
  <2> HIDE DEF own, stage
  <2> QED BY <1>4, <1>6, <1>13, <2>2, <2>3 DEF Spent, Asks, Word, Younger
<1>15. Spent(t, tx[t])'
  BY <1>7, <1>13, <1>14 DEF Spent, Asks, AsksOwn, Word, Younger
<1> QED BY <1>11, <1>12, <1>15, StepSpends

LEMMA SpendingNext == IInv /\ Spending /\ [Next]_vars => Spending'
<1> SUFFICES ASSUME IInv, Spending, [Next]_vars PROVE Spending'
  OBVIOUS
<1>1. CASE UNCHANGED <<tables, tx>>
  <2>1. \A t \in Tx : \A i : View(t, i)' = View(t, i)
    BY <1>1 DEF View, tables
  <2>2. WordsKept'
    BY <1>1 DEF Spending, WordsKept, tables
  <2>3. ASSUME NEW t \in Tx PROVE Spent(t, tx[t])'
    BY <1>1, <2>1 DEF Spending, Spent, Asks, AsksOwn, Word, Younger, tables
  <2> QED BY <2>2, <2>3 DEF Spending
<1>2. ASSUME NEW t \in Tx, Begin(t) \/ Proceed(t) \/ Rollback(t) PROVE Spending'
  <2>1. CASE Begin(t)
    BY <2>1, BeginSpends
  <2>2. CASE Rollback(t)
    BY <2>2, LeaveSpends DEF Rollback, Running, Ended
  <2>3. CASE BreakDeadlock(t)
    <3>1. PICK ts \in SUBSET Tx : t \in ts /\ Ring(ts)
      BY <2>3 DEF BreakDeadlock
    <3>2. PICK u \in ts : WaitsFor(t, u)
      BY <3>1 DEF Ring
    <3>3. tx[t].stage \notin Ended \cup {"idle"}
      <4>1. tx[t].open => tx[t].stage \in Statements
        BY DEF IInv, Goes, OnCourse
      <4> QED BY <3>2, <4>1 DEF WaitsFor, Ended, Statements
    <3> QED BY <2>3, <3>3, LeaveSpends DEF BreakDeadlock, Ended
  <2>4. CASE Commit(t)
    <3>1. End(t, "committed", Left(t, "committed"))
      BY <2>4 DEF Commit, Left
    <3> QED BY <2>4, <3>1, EndSpends DEF Commit, Ended
  <2>5. ASSUME tx[t].stage \in {"sponsor", "share", "ask", "write"} PROVE tx[t].open = FALSE
    BY <2>5, BetweenStatements
  <2>6. CASE LockSponsor(t)
    BY <2>5, <2>6, AdvanceSpends, LeaveSpends DEF LockSponsor, Asks, Stage, Ended
  <2>7. CASE LockForShare(t)
    BY <2>5, <2>7, AdvanceSpends DEF LockForShare, Asks, Stage, Statements, Ended
  <2>8. CASE FindNothing(t)
    BY <2>5, <2>8, AdvanceSpends, LeaveSpends DEF FindNothing, Stage, Ended
  <2>9. CASE Authorize(t)
    BY <2>5, <2>9, AdvanceSpends, LeaveSpends DEF Authorize, Stage, Statements, Ended
  <2>10. CASE SetHistoryId(t)
    BY <2>5, <2>10, AdvanceSpends DEF SetHistoryId, Stage, Ended
  <2> QED BY <1>2, <2>1, <2>2, <2>3, <2>4, <2>6, <2>7, <2>8, <2>9, <2>10, SnapshotSpends,
             TakeRowSpends, AfterStatementSpends, InsertSpends, VisitSpends, AskContactSpends DEF Proceed
<1> QED BY <1>1, <1>2 DEF Next, Tick, vars

LEMMA SpendingInvariance == Spec => []Spending
<1>1. Init => Spending
  <2> SUFFICES ASSUME Init PROVE Spending
    OBVIOUS
  <2>1. WordsKept
    BY DEF Init, WordsKept
  <2>2. \A t \in Tx : tx[t].stage = "idle" /\ tx[t].left = {} /\ tx[t].own = FALSE
    BY DEF Init, Nothing
  <2> QED BY <2>1, <2>2 DEF Spending, Spent, Asks
<1> QED BY <1>1, SpendingNext, Invariance, PTL DEF Spec

(* After a transfer only passwords stored while it ran are usable of those *)
(* that transfer_object makes unusable: the one that authorised it, which  *)
(* the visitor cancels, and all of the object, which it cleans, when only  *)
(* a contact's password did.                                               *)
THEOREM TransferCleansObject == Spec => []TransferCleans
<1>1. ASSUME IInv, Spending PROVE TransferCleans
  <2> SUFFICES ASSUME NEW t \in Tx, NEW i \in DOMAIN rows,
                      tx[t].stage = "committed", tx[t].call.kind = "transfer",
                      rows[i].object = tx[t].call.object, Usable(rows[i], tx[t].now),
                      tx[t].own => rows[i].password = tx[t].call.password
               PROVE  rows[i].by # None /\ rows[i].by \notin tx[t].before
    BY DEF TransferCleans
  <2>1. View(t, i) = rows[i]
    BY <1>1, NoneIsNoTx DEF IInv, Tables, WritersRun, Running, Ended, View
  <2>2. CASE tx[t].own
    BY <1>1, <2>1, <2>2 DEF Spending, Spent, Word, Younger
  <2>3. CASE ~tx[t].own
    <3>1. Cleaned(t, tx[t]) /\ OnCourse(tx[t])
      BY <1>1 DEF IInv, Goes
    <3> QED BY <2>1, <2>3, <3>1 DEF Cleaned, OnCourse, HasCleaned, ToClean, Younger, Statements
  <2> QED BY <2>2, <2>3
<1> QED BY <1>1, Invariance, SpendingInvariance, PTL
=============================================================================
