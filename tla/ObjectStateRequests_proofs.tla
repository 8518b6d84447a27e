---------------------- MODULE ObjectStateRequests_proofs ----------------------
(***************************************************************************)
(* Theorems about ObjectStateRequests and ObjectStateHistory: requests     *)
(* never end before they begin, and of two that overlap the later one      *)
(* begins earlier; the timeline of states shows what was in effect at each *)
(* instant; whatever the states, the callers, their calls and the times of *)
(* their transactions.                                                     *)
(***************************************************************************)
EXTENDS ObjectStateHistory, SequenceTheorems, WellFoundedInduction, TLAPS

(* The rows of one state are as RequestsAreInOrder and OverlapBeginsEarlier*)
(* ask.                                                                    *)
Ordered(row) == ~Less(EndOf(row), row.from)

InGoodOrder(rows) ==
    /\ \A i \in DOMAIN rows : Ordered(rows[i])
    /\ \A i, j \in DOMAIN rows :
          i < j /\ Share(rows[i], rows[j]) => rows[j].from < rows[i].from

AllInGoodOrder(reqs) == \A s \in States : InGoodOrder(reqs[s])

-----------------------------------------------------------------------------
(* Single rows                                                             *)

(* Cancelling a row ends it no earlier than it begins and no later than    *)
(* before (CancelObjectStateRequestId takes rows that are valid now).      *)
Shortened(new, row) ==
    /\ new \in Request
    /\ new.from = row.from
    /\ Ordered(new)
    /\ EndOf(new) = None => EndOf(row) = None
    /\ EndOf(new) # None /\ EndOf(row) # None => EndOf(new) <= EndOf(row)

(* A row ends at a time or never.                                          *)
LEMMA EndTyped == ASSUME NEW row \in Request PROVE EndOf(row) \in Time
  BY NoneIsNoTime DEF Request, Time, EndOf, LessOrEq

CanceledRow(row, t) == IF IsActive(row, t) THEN [row EXCEPT !.canceled = t] ELSE row

(* What Canceled makes of one row.                                         *)
LEMMA CancelShortens ==
    ASSUME NEW row \in Request, NEW t \in Nat, Ordered(row)
    PROVE  Shortened(CanceledRow(row, t), row)
<1>1. CASE IsActive(row, t)
  <2> DEFINE new == [row EXCEPT !.canceled = t]
  <2>1. new \in Request /\ new.from = row.from /\ new.to = row.to /\ new.canceled = t
    BY DEF Request, Time
  <2>2. row.canceled = None /\ row.from <= t /\ (row.to # None => t < row.to)
    BY <1>1 DEF IsActive
  <2>3. EndOf(new) = t
    BY <2>1, <2>2, NoneIsNoTime DEF EndOf, LessOrEq, Request, Time
  <2>4. EndOf(row) = row.to
    BY <2>2, NoneIsNoTime DEF EndOf, LessOrEq, Request, Time
  <2>5. Shortened(new, row)
    BY <2>1, <2>2, <2>3, <2>4, NoneIsNoTime DEF Shortened, Ordered, Less, Request, Time
  <2> QED BY <1>1, <2>5 DEF CanceledRow
<1>2. CASE ~IsActive(row, t)
  <2>1. EndOf(row) # None => EndOf(row) \in Nat
    BY EndTyped DEF Time
  <2> QED BY <1>2, <2>1 DEF CanceledRow, Shortened
<1> QED BY <1>1, <1>2

(* Rows that are valid together after some were shortened were before.     *)
LEMMA ShorterShareLess ==
    ASSUME NEW row1 \in Request, NEW row2 \in Request, NEW new1, NEW new2,
           Shortened(new1, row1), Shortened(new2, row2), Share(new1, new2)
    PROVE  Share(row1, row2)
<1>1. /\ EndOf(row1) \in Time /\ EndOf(row2) \in Time
      /\ EndOf(new1) \in Time /\ EndOf(new2) \in Time
  BY EndTyped DEF Shortened
<1>2. row1.from \in Nat /\ row2.from \in Nat
  BY DEF Request
<1> QED BY <1>1, <1>2, NoneIsNoTime DEF Share, Shortened, Ordered, Less, Time

(* A row that the check of CreateObjectStateRequestId lets pass shares a   *)
(* time only with rows that begin after it.                                *)
LEMMA NewRowBeginsEarlier ==
    ASSUME NEW row \in Request, NEW new \in Request, Ordered(row),
           ~Overlays(row, new.from, new.to), Share(row, new)
    PROVE  new.from < row.from
<1>1. EndOf(row) \in Time /\ row.from \in Nat /\ new.from \in Nat
  BY EndTyped DEF Request
<1> QED BY <1>1, NoneIsNoTime DEF Overlays, Share, Ordered, Less, LessOrEq, Time

-----------------------------------------------------------------------------
(* The rows of one state                                                   *)

(* A sequence in which every row was shortened or left alone.              *)
LEMMA ShortenedInOrder ==
    ASSUME NEW rows \in Seq(Request), InGoodOrder(rows), NEW news,
           DOMAIN news = DOMAIN rows,
           \A i \in DOMAIN rows : Shortened(news[i], rows[i])
    PROVE  InGoodOrder(news)
<1>1. \A i \in DOMAIN rows : rows[i] \in Request /\ Ordered(news[i]) /\ news[i].from = rows[i].from
  BY ElementOfSeq, LenProperties DEF Shortened
<1>2. ASSUME NEW i \in DOMAIN rows, NEW j \in DOMAIN rows, i < j, Share(news[i], news[j])
      PROVE  news[j].from < news[i].from
  <2>1. Share(rows[i], rows[j])
    BY <1>1, <1>2, ShorterShareLess
  <2> QED BY <1>1, <1>2, <2>1 DEF InGoodOrder
<1> QED BY <1>1, <1>2 DEF InGoodOrder

(* A row appended after the check.                                         *)
LEMMA AppendedInOrder ==
    ASSUME NEW rows \in Seq(Request), InGoodOrder(rows), NEW new \in Request, Ordered(new),
           \A row \in Rows(rows) : ~Overlays(row, new.from, new.to)
    PROVE  InGoodOrder(Append(rows, new))
<1> DEFINE longer == Append(rows, new)
<1>1. DOMAIN rows = 1..Len(rows) /\ DOMAIN longer = 1..(Len(rows) + 1) /\ Len(rows) \in Nat
  BY AppendProperties, LenProperties
<1>2. /\ \A i \in 1..Len(rows) : longer[i] = rows[i]
      /\ longer[Len(rows) + 1] = new
  BY AppendProperties
<1>3. \A i \in 1..Len(rows) : rows[i] \in Request /\ Ordered(rows[i]) /\ rows[i] \in Rows(rows)
  BY <1>1, ElementOfSeq DEF InGoodOrder, Rows
<1>4. \A i \in DOMAIN longer : Ordered(longer[i])
  BY <1>1, <1>2, <1>3
<1>5. ASSUME NEW i \in DOMAIN longer, NEW j \in DOMAIN longer, i < j, Share(longer[i], longer[j])
      PROVE  longer[j].from < longer[i].from
  <2>1. CASE j \in 1..Len(rows)
    BY <1>1, <1>2, <1>5, <2>1 DEF InGoodOrder
  <2>2. CASE j = Len(rows) + 1
    <3>1. i \in 1..Len(rows)
      BY <1>1, <1>5, <2>2
    <3> QED BY <1>2, <1>3, <1>5, <2>2, <3>1, NewRowBeginsEarlier
  <2> QED BY <1>1, <2>1, <2>2
<1> QED BY <1>4, <1>5 DEF InGoodOrder

-----------------------------------------------------------------------------
(* All requests of the object                                              *)

(* A function on the indices of a sequence is a sequence.                  *)
LEMMA SameLengthTyped ==
    ASSUME NEW S, NEW T, NEW rows \in Seq(S), NEW news,
           news \in [DOMAIN rows -> T]
    PROVE  news \in Seq(T)
  BY LenProperties, SeqDef

(* What cancelling leaves is in good order when it was before.             *)
LEMMA CanceledInOrder ==
    ASSUME NEW reqs \in [States -> Seq(Request)], AllInGoodOrder(reqs),
           NEW states, NEW t \in Nat
    PROVE  /\ Canceled(reqs, states, t) \in [States -> Seq(Request)]
           /\ AllInGoodOrder(Canceled(reqs, states, t))
<1> DEFINE news(s) == [i \in DOMAIN reqs[s] |-> CanceledRow(reqs[s][i], t)]
<1>1. ASSUME NEW s \in States
      PROVE  news(s) \in Seq(Request) /\ InGoodOrder(news(s))
  <2>1. reqs[s] \in Seq(Request) /\ InGoodOrder(reqs[s])
    BY DEF AllInGoodOrder
  <2>2. \A i \in DOMAIN reqs[s] : reqs[s][i] \in Request /\ Ordered(reqs[s][i])
    BY <2>1, ElementOfSeq, LenProperties DEF InGoodOrder
  <2>3. \A i \in DOMAIN reqs[s] : Shortened(news(s)[i], reqs[s][i])
    BY <2>2, CancelShortens
  <2>4. news(s) \in [DOMAIN reqs[s] -> Request]
    BY <2>3 DEF Shortened
  <2>5. news(s) \in Seq(Request)
    BY <2>1, <2>4, SameLengthTyped
  <2>6. DOMAIN news(s) = DOMAIN reqs[s]
    OBVIOUS
  <2> HIDE DEF news
  <2>7. InGoodOrder(news(s))
    BY <2>1, <2>3, <2>6, ShortenedInOrder
  <2> QED BY <2>5, <2>7
<1>2. Canceled(reqs, states, t) = [s \in States |-> IF s \in states THEN news(s) ELSE reqs[s]]
  BY DEF Canceled, CanceledRow
<1> HIDE DEF news
<1>3. Canceled(reqs, states, t) \in [States -> Seq(Request)]
  BY <1>1, <1>2
<1>4. ASSUME NEW s \in States PROVE InGoodOrder(Canceled(reqs, states, t)[s])
  BY <1>1, <1>2, <1>4 DEF AllInGoodOrder
<1> QED BY <1>3, <1>4 DEF AllInGoodOrder

(* What is inserted after the check of its interval keeps the order.       *)
LEMMA InsertedInOrder ==
    ASSUME NEW reqs \in [States -> Seq(Request)], AllInGoodOrder(reqs),
           NEW states, NEW from \in Nat, NEW to \in Time,
           states \subseteq States, ~Less(to, from), Fits(reqs, states, from, to)
    PROVE  /\ Inserted(reqs, states, from, to) \in [States -> Seq(Request)]
           /\ AllInGoodOrder(Inserted(reqs, states, from, to))
<1> DEFINE new == [from |-> from, to |-> to, canceled |-> None]
<1>1. new \in Request /\ new.from = from /\ new.to = to
  BY DEF Request, Time
<1>2. Ordered(new)
  BY DEF Ordered, EndOf, LessOrEq
<1>3. Inserted(reqs, states, from, to)
        = [s \in States |-> IF s \in states THEN Append(reqs[s], new) ELSE reqs[s]]
  BY DEF Inserted
<1> HIDE DEF new
<1>4. ASSUME NEW s \in States
      PROVE  reqs[s] \in Seq(Request) /\ InGoodOrder(reqs[s])
  BY DEF AllInGoodOrder
<1>5. ASSUME NEW s \in states
      PROVE  Append(reqs[s], new) \in Seq(Request) /\ InGoodOrder(Append(reqs[s], new))
  <2>1. s \in States /\ \A row \in Rows(reqs[s]) : ~Overlays(row, new.from, new.to)
    BY <1>1 DEF Fits
  <2> QED BY <1>1, <1>2, <1>4, <2>1, AppendedInOrder, AppendProperties
<1>6. Inserted(reqs, states, from, to) \in [States -> Seq(Request)]
  BY <1>3, <1>4, <1>5
<1>7. ASSUME NEW s \in States PROVE InGoodOrder(Inserted(reqs, states, from, to)[s])
  BY <1>3, <1>4, <1>5, <1>7
<1> QED BY <1>6, <1>7 DEF AllInGoodOrder

(* update_object_states keeps the type of the states in effect.            *)
LEMMA PerformedTyped ==
    ASSUME NEW reqs, NEW effect \in [States -> Seq(Interval)], NEW t \in Nat
    PROVE  Performed(reqs, effect, t) \in [States -> Seq(Interval)]
<1> DEFINE open(s) == {i \in DOMAIN effect[s] : effect[s][i].to = None}
           ended(s) == [i \in DOMAIN effect[s] |->
                          IF i \in open(s) THEN [effect[s][i] EXCEPT !.to = t] ELSE effect[s][i]]
           begun(s) == Append(effect[s], [from |-> t, to |-> None])
<1>1. Performed(reqs, effect, t)
        = [s \in States |-> IF IsRequested(reqs, s, t)
                            THEN IF open(s) = {} THEN begun(s) ELSE effect[s] ELSE ended(s)]
  BY DEF Performed
<1>2. ASSUME NEW s \in States PROVE ended(s) \in Seq(Interval)
  <2>1. \A i \in DOMAIN effect[s] : effect[s][i] \in Interval
    BY ElementOfSeq, LenProperties
  <2>2. ASSUME NEW row \in Interval PROVE [row EXCEPT !.to = t] \in Interval
    BY DEF Interval, Time
  <2>3. ended(s) \in [DOMAIN effect[s] -> Interval]
    BY <2>1, <2>2
  <2> QED BY <2>3, SameLengthTyped
<1>3. ASSUME NEW s \in States PROVE begun(s) \in Seq(Interval)
  <2>1. [from |-> t, to |-> None] \in Interval
    BY DEF Interval, Time
  <2> QED BY <2>1, AppendProperties
<1> HIDE DEF open, ended, begun
<1> QED BY <1>1, <1>2, <1>3

(* The request a reason is attached to is one of the rows.                 *)
LEMMA ReasonedTyped ==
    ASSUME NEW reqs \in [States -> Seq(Request)], NEW t
    PROVE  Reasoned(reqs, t) \subseteq Nat
<1>1. reqs[serverBlocked] \in Seq(Request)
  BY StatesKnown
<1>2. DOMAIN reqs[serverBlocked] \subseteq Nat
  BY <1>1, LenProperties
<1> QED BY <1>2 DEF Reasoned

-----------------------------------------------------------------------------
(* The invariant                                                           *)

(* What an operation has checked under the lock is still so as it writes.  *)
CheckedStands(p) ==
    /\ call[p].kind = "create" =>
          ~OutOfTurn(p) /\ Fits(requests, call[p].states, From(p), call[p].to)
    /\ call[p].kind = "block" =>
          /\ ~OutOfTurn(p)
          /\ Fits(Cleared(requests, stamp[p]), call[p].states \cup {serverBlocked},
                  From(p), call[p].to)
    /\ call[p].kind = "restore" =>
          Fits(Cleared(requests, stamp[p]), previous[p], stamp[p], None)

CheckedAll == \A p \in Process : stage[p] = "checked" => CheckedStands(p)

OneHolder == \A p, q \in lock : p = q

Called == \A p \in lock : call[p] \in Calls

IInv == TypeOK /\ OneHolder /\ Called /\ AllInGoodOrder(requests) /\ CheckedAll

(* The empty table is in good order, nobody is in a call.                  *)
THEOREM InvInit == Init => IInv
<1> SUFFICES ASSUME Init PROVE IInv
  OBVIOUS
<1>1. TypeOK
  BY EmptySeq DEF Init, TypeOK
<1>2. OneHolder /\ Called /\ CheckedAll
  BY DEF Init, OneHolder, Called, CheckedAll
<1>3. AllInGoodOrder(requests)
  <2>1. \A s \in States : requests[s] = <<>>
    BY DEF Init
  <2>2. DOMAIN <<>> = {}
    OBVIOUS
  <2>3. InGoodOrder(<<>>)
    BY <2>2 DEF InGoodOrder
  <2> QED BY <2>1, <2>3 DEF AllInGoodOrder
<1> QED BY <1>1, <1>2, <1>3 DEF IInv

-----------------------------------------------------------------------------
(* Actions that write no requests                                          *)

(* A process whose call, stamp and stage stay as they are keeps what it    *)
(* has checked while the requests stay.                                    *)
LEMMA CheckedUndisturbed ==
    ASSUME NEW p \in Process, UNCHANGED requests, call'[p] = call[p], stamp'[p] = stamp[p],
           previous'[p] = previous[p], CheckedStands(p)
    PROVE  CheckedStands(p)'
  BY DEF CheckedStands, OutOfTurn, From

(* Process p releases the lock, what the table holds is in good order.     *)
LEMMA EndKeepsInv ==
    ASSUME NEW p \in Process, IInv, End(p), stage[p] # "idle",
           requests' \in [States -> Seq(Request)], AllInGoodOrder(requests'),
           inEffect' \in [States -> Seq(Interval)], reasons' \subseteq Nat,
           UNCHANGED requests \/ p \in lock
    PROVE  IInv'
<1>1. TypeOK'
  BY DEF IInv, TypeOK, End
<1>2. OneHolder' /\ Called'
  BY DEF IInv, TypeOK, OneHolder, Called, End
<1>3. ASSUME NEW q \in Process, stage'[q] = "checked" PROVE CheckedStands(q)'
  <2>1. q # p /\ stage[q] = "checked"
    BY <1>3 DEF IInv, TypeOK, End
  <2>2. UNCHANGED requests
    BY <2>1 DEF IInv, TypeOK, OneHolder
  <2>3. call'[q] = call[q] /\ stamp'[q] = stamp[q] /\ previous'[q] = previous[q]
    BY <2>1 DEF IInv, TypeOK, End
  <2> QED BY <2>1, <2>2, <2>3, CheckedUndisturbed DEF IInv, CheckedAll
<1>4. AllInGoodOrder(requests)'
  OBVIOUS
<1> QED BY <1>1, <1>2, <1>3, <1>4 DEF IInv, CheckedAll

(* COMMIT of requests in good order by the holder of the lock.             *)
LEMMA CommitKeepsInv ==
    ASSUME NEW p \in Process, NEW reqs \in [States -> Seq(Request)], IInv, Commit(p, reqs),
           p \in lock, AllInGoodOrder(reqs), reasons' \subseteq Nat
    PROVE  IInv'
<1>1. stage[p] # "idle" /\ stamp[p] \in Nat /\ inEffect \in [States -> Seq(Interval)]
  BY DEF IInv, TypeOK
<1>2. inEffect' \in [States -> Seq(Interval)]
  BY <1>1, PerformedTyped DEF Commit
<1> QED BY <1>1, <1>2, EndKeepsInv DEF Commit

LEMMA RollbackKeepsInv ==
    ASSUME NEW p \in Process, IInv, Rollback(p) PROVE IInv'
<1>1. AllInGoodOrder(requests') /\ UNCHANGED data
  BY DEF IInv, Rollback, data
<1> QED BY <1>1, EndKeepsInv DEF IInv, TypeOK, Rollback, data

LEMMA TickKeepsInv ==
    ASSUME IInv, Tick PROVE IInv'
<1>1. TypeOK' /\ OneHolder' /\ Called' /\ AllInGoodOrder(requests)'
  BY DEF IInv, TypeOK, OneHolder, Called, Tick, data
<1>2. CheckedAll'
  BY CheckedUndisturbed DEF IInv, CheckedAll, Tick, data
<1> QED BY <1>1, <1>2 DEF IInv

(* Only a process without a call takes a new time.                         *)
LEMMA BeginKeepsInv ==
    ASSUME NEW p \in Process, IInv, Begin(p) PROVE IInv'
<1>1. TypeOK'
  BY DEF IInv, TypeOK, Begin, data
<1>2. OneHolder' /\ Called' /\ AllInGoodOrder(requests)'
  BY DEF IInv, OneHolder, Called, Begin, data
<1>3. ASSUME NEW q \in Process, stage'[q] = "checked" PROVE CheckedStands(q)'
  <2>1. q # p /\ stage[q] = "checked"
    BY <1>3 DEF IInv, TypeOK, Begin
  <2>2. stamp'[q] = stamp[q] /\ UNCHANGED <<requests, call, previous>>
    BY <2>1 DEF IInv, TypeOK, Begin, data
  <2> QED BY <2>1, <2>2, CheckedUndisturbed DEF IInv, CheckedAll
<1> QED BY <1>1, <1>2, <1>3 DEF IInv, CheckedAll

(* The lock is taken only when nobody holds it.                            *)
LEMMA LockKeepsInv ==
    ASSUME NEW p \in Process, IInv, Lock(p) PROVE IInv'
<1>1. PICK c \in Calls : call' = [call EXCEPT ![p] = c]
  BY DEF Lock
<1>2. TypeOK'
  BY <1>1 DEF IInv, TypeOK, Lock, data
<1>3. OneHolder' /\ Called' /\ AllInGoodOrder(requests)'
  BY <1>1 DEF IInv, TypeOK, OneHolder, Called, Lock, data
<1>4. \A q \in Process : stage'[q] # "checked"
  BY DEF IInv, TypeOK, Lock
<1> QED BY <1>2, <1>3, <1>4 DEF IInv, CheckedAll

-----------------------------------------------------------------------------
(* Actions that check                                                      *)

LEMMA CheckKeepsInv ==
    ASSUME NEW p \in Process, NEW restored \in SUBSET States, IInv, stage[p] = "locked",
           Checked(p, restored), CheckedStands(p)'
    PROVE  IInv'
<1>1. TypeOK'
  BY DEF IInv, TypeOK, Checked, data
<1>2. OneHolder' /\ Called' /\ AllInGoodOrder(requests)'
  BY DEF IInv, OneHolder, Called, Checked, data
<1>3. ASSUME NEW q \in Process, stage'[q] = "checked", q # p PROVE CheckedStands(q)'
  <2>1. stage[q] = "checked"
    BY <1>3 DEF IInv, TypeOK, Checked
  <2>2. previous'[q] = previous[q] /\ UNCHANGED <<requests, call, stamp>>
    BY <1>3 DEF IInv, TypeOK, Checked, data
  <2> QED BY <2>1, <2>2, CheckedUndisturbed DEF IInv, CheckedAll
<1> QED BY <1>1, <1>2, <1>3 DEF IInv, CheckedAll

LEMMA CheckCreateKeepsInv ==
    ASSUME NEW p \in Process, IInv, CheckCreate(p) PROVE IInv'
<1>1. CheckedStands(p)'
  BY DEF CheckCreate, Calling, Checked, CheckedStands, data, OutOfTurn, From
<1> QED BY <1>1, CheckKeepsInv DEF CheckCreate, Calling

LEMMA CheckBlockKeepsInv ==
    ASSUME NEW p \in Process, IInv, CheckBlock(p) PROVE IInv'
<1>1. CheckedStands(p)'
  BY DEF CheckBlock, Calling, Checked, CheckedStands, data, OutOfTurn, From
<1> QED BY <1>1, CheckKeepsInv DEF CheckBlock, Calling

LEMMA CheckRestoreKeepsInv ==
    ASSUME NEW p \in Process, IInv, CheckRestore(p) PROVE IInv'
<1>1. \A start : Before(start) \subseteq States
  BY StatesKnown DEF Before
<1>2. PICK restored \in SUBSET States :
         Fits(Cleared(requests, stamp[p]), restored, stamp[p], None) /\ Checked(p, restored)
  BY <1>1 DEF CheckRestore
<1>3. CheckedStands(p)'
  <2>1. previous'[p] = restored
    BY <1>2 DEF Checked, IInv, TypeOK
  <2> QED BY <1>2, <2>1 DEF CheckRestore, Calling, Checked, CheckedStands, data
<1> QED BY <1>2, <1>3, CheckKeepsInv DEF CheckRestore, Calling

-----------------------------------------------------------------------------
(* Actions that write                                                      *)

(* The holder of the lock, its time and its call                           *)
LEMMA CallTyped ==
    ASSUME NEW p \in Process, IInv, stage[p] \in {"locked", "checked"}
    PROVE  /\ p \in lock
           /\ call[p] \in Call /\ call[p] \in Calls
           /\ call[p].states \subseteq States /\ call[p].to \in Time
           /\ From(p) \in Nat /\ stamp[p] \in Nat /\ previous[p] \subseteq States
<1>1. p \in lock /\ stamp[p] \in Nat /\ previous[p] \subseteq States
  BY DEF IInv, TypeOK
<1>2. call[p] \in Calls /\ call[p] \in Call
  BY <1>1, CallsTyped DEF IInv, Called
<1> QED BY <1>1, <1>2 DEF Call, From, Time

(* ClearObjectStateRequestId cancels.                                      *)
LEMMA ClearedInOrder ==
    ASSUME IInv, NEW t \in Nat
    PROVE  Cleared(requests, t) \in [States -> Seq(Request)] /\ AllInGoodOrder(Cleared(requests, t))
  BY CanceledInOrder DEF IInv, TypeOK, Cleared

LEMMA CreateKeepsInv ==
    ASSUME NEW p \in Process, IInv, CreateObjectStateRequestId(p) PROVE IInv'
<1> DEFINE reqs == Inserted(requests, call[p].states, From(p), call[p].to)
<1>1. stage[p] = "checked" /\ Commit(p, reqs) /\ reasons' \subseteq Nat
  BY DEF CreateObjectStateRequestId, Calling, IInv, TypeOK
<1>2. ~Less(call[p].to, From(p)) /\ Fits(requests, call[p].states, From(p), call[p].to)
  BY DEF IInv, CheckedAll, CheckedStands, CreateObjectStateRequestId, Calling, OutOfTurn
<1>3. reqs \in [States -> Seq(Request)] /\ AllInGoodOrder(reqs)
  BY <1>1, <1>2, CallTyped, InsertedInOrder DEF IInv, TypeOK
<1> QED BY <1>1, <1>3, CallTyped, CommitKeepsInv

LEMMA CancelKeepsInv ==
    ASSUME NEW p \in Process, IInv, CancelObjectStateRequestId(p) PROVE IInv'
<1> DEFINE reqs == Canceled(requests, call[p].states, stamp[p])
<1>1. stage[p] = "locked" /\ Commit(p, reqs) /\ reasons' \subseteq Nat
  BY DEF CancelObjectStateRequestId, Calling, IInv, TypeOK
<1>2. reqs \in [States -> Seq(Request)] /\ AllInGoodOrder(reqs)
  BY <1>1, CallTyped, CanceledInOrder DEF IInv, TypeOK
<1> QED BY <1>1, <1>2, CallTyped, CommitKeepsInv

(* ClearObjectStateRequestId, and the same at the end of a block           *)
LEMMA ClearKeepsInv ==
    ASSUME NEW p \in Process, IInv,
           ClearObjectStateRequestId(p) \/ ClearAdminObjectStateRequestId(p)
    PROVE  IInv'
<1> DEFINE reqs == Cleared(requests, stamp[p])
<1>1. stage[p] = "locked" /\ Commit(p, reqs) /\ reasons' \subseteq Nat
  BY DEF ClearObjectStateRequestId, ClearAdminObjectStateRequestId, Calling, IInv, TypeOK
<1>2. reqs \in [States -> Seq(Request)] /\ AllInGoodOrder(reqs)
  BY <1>1, CallTyped, ClearedInOrder
<1> QED BY <1>1, <1>2, CallTyped, CommitKeepsInv

LEMMA BlockKeepsInv ==
    ASSUME NEW p \in Process, IInv, CreateAdminObjectBlockRequestId(p) PROVE IInv'
<1> DEFINE cleared == Cleared(requests, stamp[p])
           states == call[p].states \cup {serverBlocked}
           reqs == Inserted(cleared, states, From(p), call[p].to)
<1>1. stage[p] = "checked" /\ Commit(p, reqs) /\ reasons' = reasons \cup Reasoned(reqs, stamp[p])
  BY DEF CreateAdminObjectBlockRequestId, Calling
<1>2. ~Less(call[p].to, From(p)) /\ Fits(cleared, states, From(p), call[p].to)
  BY DEF IInv, CheckedAll, CheckedStands, CreateAdminObjectBlockRequestId, Calling, OutOfTurn
<1>3. states \subseteq States
  BY <1>1, CallTyped, StatesKnown
<1>4. cleared \in [States -> Seq(Request)] /\ AllInGoodOrder(cleared)
  BY <1>1, CallTyped, ClearedInOrder
<1> HIDE DEF cleared, states
<1>5. reqs \in [States -> Seq(Request)] /\ AllInGoodOrder(reqs)
  BY <1>1, <1>2, <1>3, <1>4, CallTyped, InsertedInOrder
<1> HIDE DEF reqs
<1>6. reasons' \subseteq Nat
  BY <1>1, <1>5, ReasonedTyped DEF IInv, TypeOK
<1> QED BY <1>1, <1>5, <1>6, CallTyped, CommitKeepsInv

LEMMA RestoreKeepsInv ==
    ASSUME NEW p \in Process, IInv, CreateAdminObjectStateRestoreRequestId(p) PROVE IInv'
<1> DEFINE cleared == Cleared(requests, stamp[p])
           reqs == Inserted(cleared, previous[p], stamp[p], None)
<1>1. stage[p] = "checked" /\ Commit(p, reqs) /\ reasons' \subseteq Nat
  BY DEF CreateAdminObjectStateRestoreRequestId, Calling, IInv, TypeOK
<1>2. Fits(cleared, previous[p], stamp[p], None)
  BY DEF IInv, CheckedAll, CheckedStands, CreateAdminObjectStateRestoreRequestId, Calling
<1>3. ~Less(None, stamp[p]) /\ None \in Time
  BY DEF Less, Time
<1>4. cleared \in [States -> Seq(Request)] /\ AllInGoodOrder(cleared)
  BY <1>1, CallTyped, ClearedInOrder
<1> HIDE DEF cleared
<1>5. reqs \in [States -> Seq(Request)] /\ AllInGoodOrder(reqs)
  BY <1>1, <1>2, <1>3, <1>4, CallTyped, InsertedInOrder
<1> QED BY <1>1, <1>5, CallTyped, CommitKeepsInv

LEMMA PerformKeepsInv ==
    ASSUME NEW p \in Process, IInv, PerformObjectStateRequest(p) PROVE IInv'
<1>1. stage[p] = "locked" /\ Commit(p, requests) /\ reasons' \subseteq Nat
  BY DEF PerformObjectStateRequest, Calling, IInv, TypeOK
<1>2. requests \in [States -> Seq(Request)] /\ AllInGoodOrder(requests)
  BY DEF IInv, TypeOK
<1> QED BY <1>1, <1>2, CallTyped, CommitKeepsInv

-----------------------------------------------------------------------------
(* Every step keeps the invariant.                                         *)
THEOREM InvNext == IInv /\ [Next]_vars => IInv'
<1> SUFFICES ASSUME IInv, [Next]_vars PROVE IInv'
  OBVIOUS
<1>1. CASE Tick
  BY <1>1, TickKeepsInv
<1>2. ASSUME NEW p \in Process, Begin(p) PROVE IInv'
  BY <1>2, BeginKeepsInv
<1>3. ASSUME NEW p \in Process, Operate(p) PROVE IInv'
  BY <1>3, LockKeepsInv, CheckCreateKeepsInv, CreateKeepsInv, CancelKeepsInv, ClearKeepsInv,
     CheckBlockKeepsInv, BlockKeepsInv, CheckRestoreKeepsInv, RestoreKeepsInv, PerformKeepsInv
     DEF Operate
<1>4. ASSUME NEW p \in Process, Rollback(p) PROVE IInv'
  BY <1>4, RollbackKeepsInv
<1>5. CASE UNCHANGED vars
  <2>1. TypeOK' /\ OneHolder' /\ Called' /\ AllInGoodOrder(requests)'
    BY <1>5 DEF vars, IInv, TypeOK, OneHolder, Called
  <2>2. CheckedAll'
    BY <1>5, CheckedUndisturbed DEF vars, IInv, CheckedAll
  <2> QED BY <2>1, <2>2 DEF IInv
<1> QED BY <1>1, <1>2, <1>3, <1>4, <1>5 DEF Next

THEOREM Invariance == Spec => []IInv
  BY InvInit, InvNext, PTL DEF Spec

(* Every variable keeps its type; the lock is held by the processes that   *)
(* are past LockObjectStateRequestLock and by no other.                    *)
THEOREM TypeCorrect == Spec => []TypeOK
<1>1. IInv => TypeOK
  BY DEF IInv
<1> QED BY <1>1, Invariance, PTL

(* No request ends before it begins, whatever transactions cancel and      *)
(* clear, and however old their CURRENT_TIMESTAMP is.                      *)
THEOREM RequestsStayInOrder == Spec => []RequestsAreInOrder
<1>1. IInv => RequestsAreInOrder
  BY DEF IInv, AllInGoodOrder, InGoodOrder, Ordered, RequestsAreInOrder, Rows
<1> QED BY <1>1, Invariance, PTL

(* All that the condition of CreateObjectStateRequestId lets overlap is a  *)
(* new request that begins before an existing one.                         *)
THEOREM OverlapsBeginEarlier == Spec => []OverlapBeginsEarlier
<1>1. IInv => OverlapBeginsEarlier
  BY DEF IInv, AllInGoodOrder, InGoodOrder, OverlapBeginsEarlier
<1> QED BY <1>1, Invariance, PTL

-----------------------------------------------------------------------------
(* Blocks                                                                  *)

(* A request that stands after its state was cleared begins only later.    *)
LEMMA ClearedStandLater ==
    ASSUME NEW reqs \in [States -> Seq(Request)], NEW s \in ServerStates, NEW t \in Nat,
           NEW i \in DOMAIN reqs[s], Stands(Cleared(reqs, t)[s][i], t)
    PROVE  Cleared(reqs, t)[s][i] = reqs[s][i] /\ t < reqs[s][i].from
<1>1. s \in States
  BY StatesKnown
<1>2. Cleared(reqs, t)[s][i] = CanceledRow(reqs[s][i], t)
  BY <1>1 DEF Cleared, Canceled, CanceledRow
<1>3. PICK row \in Request : row = reqs[s][i]
  BY <1>1, ElementOfSeq, LenProperties
<1>4. [row EXCEPT !.canceled = t].canceled = t
  BY DEF Request
<1>5. CanceledRow(row, t) = row /\ ~IsActive(row, t)
  BY <1>2, <1>3, <1>4, NoneIsNoTime DEF CanceledRow, Stands
<1>6. t < row.from
  <2>1. row.canceled = None /\ (row.to # None => t < row.to) /\ row.from \in Nat
    BY <1>2, <1>3, <1>5 DEF Stands, Request
  <2> QED BY <1>5, <2>1 DEF IsActive
<1> QED BY <1>2, <1>3, <1>5, <1>6

(* CreateAdminObjectBlockRequestId clears all server states of the object  *)
(* first; besides those it asks for, it leaves only requests that begin    *)
(* after the time at which its transaction began, and these unchanged.     *)
THEOREM BlocksReplaceServerStates == Spec => BlockReplacesServerStates
<1> DEFINE Replaces ==
        \A p \in Process : CreateAdminObjectBlockRequestId(p) =>
          \A s \in ServerStates : \A i \in DOMAIN requests'[s] :
              LET row == requests'[s][i] IN
              Stands(row, stamp[p]) =>
                  IF i \in DOMAIN requests[s]
                  THEN row = requests[s][i] /\ stamp[p] < row.from
                  ELSE s \in call[p].states \cup {serverBlocked}
<1>1. ASSUME IInv PROVE Replaces
  <2> SUFFICES ASSUME NEW p \in Process, CreateAdminObjectBlockRequestId(p),
                      NEW s \in ServerStates, NEW i \in DOMAIN requests'[s],
                      Stands(requests'[s][i], stamp[p])
               PROVE  IF i \in DOMAIN requests[s]
                      THEN requests'[s][i] = requests[s][i] /\ stamp[p] < requests'[s][i].from
                      ELSE s \in call[p].states \cup {serverBlocked}
    OBVIOUS
  <2> DEFINE cleared == Cleared(requests, stamp[p])
             own == call[p].states \cup {serverBlocked}
  <2>1. s \in States /\ stamp[p] \in Nat /\ requests \in [States -> Seq(Request)]
    BY <1>1, StatesKnown DEF IInv, TypeOK
  <2>2. cleared[s] \in Seq(Request) /\ DOMAIN cleared[s] = DOMAIN requests[s]
    BY <1>1, <2>1, ClearedInOrder DEF Cleared, Canceled
  <2>3. PICK new : requests'[s] = IF s \in own THEN Append(cleared[s], new) ELSE cleared[s]
    BY <2>1 DEF CreateAdminObjectBlockRequestId, Commit, Inserted
  <2>4. CASE i \in DOMAIN requests[s]
    <3>1. requests'[s][i] = cleared[s][i]
      BY <2>2, <2>3, <2>4
    <3>2. Stands(cleared[s][i], stamp[p])
      BY <3>1
    <3>3. cleared[s][i] = requests[s][i] /\ stamp[p] < requests[s][i].from
      BY <2>1, <2>4, <3>2, ClearedStandLater
    <3> QED BY <2>4, <3>1, <3>3
  <2>5. CASE i \notin DOMAIN requests[s]
    BY <2>2, <2>3, <2>5
  <2> QED BY <2>4, <2>5
<1>2. IInv => [Replaces]_vars
  BY <1>1
<1> QED BY <1>2, Invariance, PTL DEF BlockReplacesServerStates

-----------------------------------------------------------------------------
(* Restores                                                                *)

(* What CheckRestore may find                                              *)
Restored(t) ==
    {Before(start) : start \in BlockStarts(t)} \cup (IF BlockStarts(t) = {} THEN {{}} ELSE {})

(* What a restore has found stays so under the lock, until it writes.      *)
FoundStands ==
    \A p \in Process :
        stage[p] = "checked" /\ call[p].kind = "restore" => previous[p] \in Restored(stamp[p])

(* A process gets to have checked by its own check, and while it has, the  *)
(* others leave the states in effect.                                      *)
LEMMA CheckedBySelf ==
    ASSUME IInv, [Next]_vars, NEW q \in Process, stage'[q] = "checked"
    PROVE  \/ CheckCreate(q) \/ CheckBlock(q) \/ CheckRestore(q)
           \/ /\ stage[q] = "checked" /\ inEffect' = inEffect /\ call'[q] = call[q]
              /\ stamp'[q] = stamp[q] /\ previous'[q] = previous[q]
<1> DEFINE Stays == /\ stage[q] = "checked" /\ inEffect' = inEffect /\ call'[q] = call[q]
                    /\ stamp'[q] = stamp[q] /\ previous'[q] = previous[q]
<1>1. CASE Tick \/ UNCHANGED vars
  BY <1>1 DEF Tick, vars, data
<1>2. ASSUME NEW p \in Process, Begin(p) PROVE Stays
  BY <1>2 DEF Begin, data, IInv, TypeOK
<1>3. ASSUME NEW p \in Process, Rollback(p) PROVE Stays
  BY <1>3 DEF Rollback, End, data, IInv, TypeOK
<1>4. ASSUME NEW p \in Process, Lock(p) PROVE Stays
  BY <1>4 DEF Lock, IInv, TypeOK
<1>5. ASSUME NEW p \in Process, NEW restored, stage[p] = "locked", Checked(p, restored), q # p
      PROVE  Stays
  BY <1>5 DEF Checked, data, IInv, TypeOK
<1>6. ASSUME NEW p \in Process, NEW reqs, stage[p] \in {"locked", "checked"}, Commit(p, reqs)
      PROVE  FALSE
  <2>1. q # p /\ stage[q] = "checked"
    BY <1>6 DEF Commit, End, IInv, TypeOK
  <2> QED BY <1>6, <2>1 DEF IInv, TypeOK, OneHolder
<1>7. ASSUME NEW p \in Process, CheckCreate(p) \/ CheckBlock(p) \/ CheckRestore(p), q # p
      PROVE  Stays
  BY <1>5, <1>7 DEF CheckCreate, CheckBlock, CheckRestore, Calling
<1>8. ASSUME NEW p \in Process,
             \/ CreateObjectStateRequestId(p) \/ CancelObjectStateRequestId(p)
             \/ ClearObjectStateRequestId(p) \/ CreateAdminObjectBlockRequestId(p)
             \/ ClearAdminObjectStateRequestId(p) \/ CreateAdminObjectStateRestoreRequestId(p)
             \/ PerformObjectStateRequest(p)
      PROVE  FALSE
  BY <1>6, <1>8
     DEF CreateObjectStateRequestId, CancelObjectStateRequestId, ClearObjectStateRequestId,
         CreateAdminObjectBlockRequestId, ClearAdminObjectStateRequestId,
         CreateAdminObjectStateRestoreRequestId, PerformObjectStateRequest, Calling
<1> QED BY <1>1, <1>2, <1>3, <1>4, <1>7, <1>8 DEF Next, Operate

LEMMA FoundStandsInit == Init => FoundStands
  BY DEF Init, FoundStands

LEMMA FoundStandsNext == IInv /\ FoundStands /\ [Next]_vars => FoundStands'
<1> SUFFICES ASSUME IInv, FoundStands, [Next]_vars, NEW q \in Process,
                    stage'[q] = "checked", call'[q].kind = "restore"
             PROVE  previous'[q] \in Restored(stamp[q])'
  BY DEF FoundStands
<1>1. CASE CheckCreate(q) \/ CheckBlock(q)
  BY <1>1 DEF CheckCreate, CheckBlock, Calling, Checked
<1>2. CASE CheckRestore(q)
  <2>1. PICK restored \in Restored(stamp[q]) : Checked(q, restored)
    BY <1>2 DEF CheckRestore, Restored
  <2>2. previous'[q] = restored /\ inEffect' = inEffect /\ stamp' = stamp
    BY <2>1 DEF Checked, data, IInv, TypeOK
  <2>3. Restored(stamp[q])' = Restored(stamp[q])
    BY <2>2 DEF Restored, Before, BlockStarts, Blocks, FollowsUp
  <2> QED BY <2>1, <2>2, <2>3
<1>3. CASE /\ stage[q] = "checked" /\ inEffect' = inEffect /\ call'[q] = call[q]
           /\ stamp'[q] = stamp[q] /\ previous'[q] = previous[q]
  <2>1. Restored(stamp[q])' = Restored(stamp[q])
    BY <1>3 DEF Restored, Before, BlockStarts, Blocks, FollowsUp
  <2> QED BY <1>3, <2>1 DEF FoundStands
<1> QED BY <1>1, <1>2, <1>3, CheckedBySelf

LEMMA BlocksTyped == ASSUME TypeOK PROVE \A r \in Blocks : r.from \in Nat
<1> DEFINE rows == inEffect[serverBlocked]
<1>1. rows \in Seq(Interval)
  BY StatesKnown DEF TypeOK
<1> HIDE DEF rows
<1>2. \A i \in DOMAIN rows : rows[i] \in Interval
  BY <1>1, ElementOfSeq, LenProperties
<1>3. \A r \in Interval : r.from \in Nat
  BY DEF Interval
<1> QED BY <1>2, <1>3 DEF Blocks, Rows, rows

(* Starts of blocks are at one time, and so are the states before them.    *)
LEMMA SameBefore ==
    ASSUME TypeOK, NEW t \in Nat, NEW start1 \in BlockStarts(t), NEW start2 \in BlockStarts(t)
    PROVE  Before(start1) = Before(start2)
<1>1. \A r \in Blocks : r.from \in Nat
  BY BlocksTyped
<1>2. start1 \in Blocks /\ start2 \in Blocks
  BY DEF BlockStarts, Latest
<1>3. start1.from = start2.from
  <2>1. start1.from <= start2.from /\ start2.from <= start1.from
    BY DEF BlockStarts, Latest
  <2> QED BY <1>1, <1>2, <2>1
<1> QED BY <1>3 DEF Before

(* CreateAdminObjectStateRestoreRequestId brings back every server state   *)
(* that was in effect until the first block of the sequence began.         *)
THEOREM RestoresLoseNothing == Spec => RestoreLosesNothing
<1> DEFINE LosesNothing ==
        \A p \in Process : CreateAdminObjectStateRestoreRequestId(p) =>
          \A start \in BlockStarts(stamp[p]), s \in ServerStates :
              /\ \E row \in Rows(requests[s]) : row.canceled = start.from
              /\ \E r \in Rows(inEffect[s]) : r.from < start.from /\ r.to = start.from
              => IsRequested(requests', s, stamp[p])
<1>1. ASSUME IInv, FoundStands PROVE LosesNothing
  <2> SUFFICES ASSUME NEW p \in Process, CreateAdminObjectStateRestoreRequestId(p),
                      NEW start \in BlockStarts(stamp[p]), NEW s \in ServerStates,
                      NEW r \in Rows(inEffect[s]), r.from < start.from, r.to = start.from
               PROVE  IsRequested(requests', s, stamp[p])
    OBVIOUS
  <2> DEFINE cleared == Cleared(requests, stamp[p])
             new == [from |-> stamp[p], to |-> None, canceled |-> None]
  <2>1. stage[p] = "checked" /\ call[p].kind = "restore" /\ stamp[p] \in Nat /\ s \in States
    BY <1>1, StatesKnown DEF CreateAdminObjectStateRestoreRequestId, Calling, IInv, TypeOK
  <2>2. s \in Before(start)
    <3>1. start.from \in Nat
      BY <1>1, BlocksTyped DEF IInv, BlockStarts, Latest
    <3> QED BY <3>1 DEF Before
  <2>3. previous[p] = Before(start)
    <3>1. PICK other \in BlockStarts(stamp[p]) : previous[p] = Before(other)
      BY <1>1, <2>1 DEF FoundStands, Restored
    <3> QED BY <1>1, <2>1, <3>1, SameBefore DEF IInv
  <2>4. requests'[s] = Append(cleared[s], new)
    BY <2>1, <2>2, <2>3 DEF CreateAdminObjectStateRestoreRequestId, Commit, Inserted
  <2>5. cleared[s] \in Seq(Request) /\ new \in Request
    BY <1>1, <2>1, ClearedInOrder DEF Request, Time
  <2>6. new \in Rows(requests'[s])
    <3> HIDE DEF cleared, new
    <3>1. /\ Len(cleared[s]) + 1 \in DOMAIN Append(cleared[s], new)
          /\ Append(cleared[s], new)[Len(cleared[s]) + 1] = new
      BY <2>5, AppendProperties, LenProperties
    <3> QED BY <2>4, <3>1 DEF Rows
  <2>7. IsActive(new, stamp[p])
    BY <2>1 DEF IsActive
  <2> QED BY <2>6, <2>7 DEF IsRequested
<1>2. IInv /\ FoundStands => [LosesNothing]_vars
  BY <1>1
<1>3. Spec => []FoundStands
  BY FoundStandsInit, FoundStandsNext, Invariance, PTL DEF Spec
<1> QED BY <1>2, <1>3, Invariance, PTL DEF RestoreLosesNothing


-----------------------------------------------------------------------------
(* When rows of object_state begin and end                                 *)

(* They have begun and ended by t, and only the last may be open.          *)
Recorded(effect, t) ==
    \A s \in States : \A i \in DOMAIN effect[s] :
        /\ effect[s][i].from <= t
        /\ effect[s][i].to # None => effect[s][i].to <= t
        /\ \A j \in DOMAIN effect[s] : i < j => effect[s][i].to # None

RecordedByNow ==
    Recorded(inEffect, now) /\ now <= MaxTime /\ \A p \in Process : stamp[p] <= now

LEMMA PerformedRecorded ==
    ASSUME NEW reqs, NEW effect \in [States -> Seq(Interval)], NEW t \in Nat, NEW n \in Nat,
           t <= n, Recorded(effect, n)
    PROVE  Recorded(Performed(reqs, effect, t), n)
<1> DEFINE open(s) == {i \in DOMAIN effect[s] : effect[s][i].to = None}
           ended(s) == [i \in DOMAIN effect[s] |->
                          IF i \in open(s) THEN [effect[s][i] EXCEPT !.to = t] ELSE effect[s][i]]
           begun(s) == Append(effect[s], [from |-> t, to |-> None])
           RowsRecorded(rows) == \A i \in DOMAIN rows :
               /\ rows[i].from <= n
               /\ rows[i].to # None => rows[i].to <= n
               /\ \A j \in DOMAIN rows : i < j => rows[i].to # None
<1>1. Performed(reqs, effect, t)
        = [s \in States |-> IF IsRequested(reqs, s, t)
                            THEN IF open(s) = {} THEN begun(s) ELSE effect[s] ELSE ended(s)]
  BY DEF Performed
<1>2. ASSUME NEW s \in States PROVE RowsRecorded(effect[s]) /\ RowsRecorded(ended(s))
                                    /\ (open(s) = {} => RowsRecorded(begun(s)))
  <2>1. /\ DOMAIN effect[s] = 1..Len(effect[s]) /\ Len(effect[s]) \in Nat
        /\ \A i \in DOMAIN effect[s] : effect[s][i] \in Interval
    BY ElementOfSeq, LenProperties
  <2>2. RowsRecorded(effect[s])
    BY DEF Recorded
  <2>3. ASSUME NEW i \in DOMAIN effect[s]
        PROVE  /\ ended(s)[i].from = effect[s][i].from
               /\ ended(s)[i].to = IF i \in open(s) THEN t ELSE effect[s][i].to
    BY <2>1 DEF Interval
  <2>4. t # None
    BY NoneIsNoTime
  <2>5. DOMAIN ended(s) = DOMAIN effect[s]
    OBVIOUS
  <2>6. RowsRecorded(ended(s))
    BY <2>2, <2>3, <2>4, <2>5
  <2>7. ASSUME open(s) = {} PROVE RowsRecorded(begun(s))
    <3>1. /\ DOMAIN begun(s) = 1..(Len(effect[s]) + 1)
          /\ \A i \in DOMAIN effect[s] : begun(s)[i] = effect[s][i]
          /\ begun(s)[Len(effect[s]) + 1].from = t /\ begun(s)[Len(effect[s]) + 1].to = None
      <4>1. [from |-> t, to |-> None] \in Interval
        BY DEF Interval, Time
      <4> QED BY <2>1, <4>1, AppendProperties
    <3> HIDE DEF begun
    <3>2. \A i \in DOMAIN effect[s] : effect[s][i].to # None
      BY <2>7
    <3> QED BY <2>1, <2>2, <3>1, <3>2
  <2> QED BY <2>2, <2>6, <2>7
<1>3. \A s \in States : RowsRecorded(Performed(reqs, effect, t)[s])
  <2> HIDE DEF open, ended, begun, RowsRecorded
  <2> QED BY <1>1, <1>2
<1> QED BY <1>3 DEF Recorded

(* What a transaction writes is stamped with the time at which it began.   *)
LEMMA RecordedInvariance == Spec => [](IInv /\ RecordedByNow)
<1>1. Init => RecordedByNow
  <2> SUFFICES ASSUME Init PROVE RecordedByNow
    OBVIOUS
  <2>1. \A s \in States : inEffect[s] = <<>>
    BY DEF Init
  <2>2. DOMAIN <<>> = {}
    OBVIOUS
  <2>3. \A s \in States : DOMAIN inEffect[s] = {}
    BY <2>1, <2>2
  <2> QED BY <2>3, BoundsAreNumbers DEF Init, RecordedByNow, Recorded
<1>2. IInv /\ RecordedByNow /\ [Next]_vars => RecordedByNow'
  <2> SUFFICES ASSUME IInv, RecordedByNow, [Next]_vars PROVE RecordedByNow'
    OBVIOUS
  <2>1. /\ now \in Nat /\ stamp \in [Process -> Nat] /\ inEffect \in [States -> Seq(Interval)]
        /\ MaxTime \in Nat
    BY BoundsAreNumbers DEF IInv, TypeOK
  <2>2. CASE Tick
    <3>1. \A s \in States : \A i \in DOMAIN inEffect[s] : inEffect[s][i].from \in Nat
                                                       /\ inEffect[s][i].to \in Nat \cup {None}
      <4>1. ASSUME NEW s \in States, NEW i \in DOMAIN inEffect[s] PROVE inEffect[s][i] \in Interval
        BY <2>1, ElementOfSeq, LenProperties
      <4> QED BY <4>1 DEF Interval, Time
    <3>2. Recorded(inEffect, now + 1)
      BY <2>1, <3>1 DEF RecordedByNow, Recorded
    <3> QED BY <2>1, <2>2, <3>2 DEF Tick, RecordedByNow, data
  <2>3. ASSUME NEW p \in Process, End(p), UNCHANGED inEffect PROVE RecordedByNow'
    BY <2>1, <2>3 DEF RecordedByNow, End
  <2>4. ASSUME NEW p \in Process, NEW reqs, Commit(p, reqs) PROVE RecordedByNow'
    <3>1. inEffect' = Performed(reqs, inEffect, stamp[p]) /\ End(p)
      BY <2>4 DEF Commit
    <3>2. Recorded(inEffect', now)
      BY <2>1, <3>1, PerformedRecorded DEF RecordedByNow
    <3> QED BY <2>1, <3>1, <3>2 DEF RecordedByNow, End
  <2>5. ASSUME NEW p \in Process, Begin(p) PROVE RecordedByNow'
    BY <2>1, <2>5 DEF RecordedByNow, Begin, data
  <2>6. ASSUME NEW p \in Process, Rollback(p) PROVE RecordedByNow'
    BY <2>3, <2>6 DEF Rollback, data
  <2>7. ASSUME UNCHANGED <<now, inEffect, stamp>> PROVE RecordedByNow'
    BY <2>7 DEF RecordedByNow
  <2>8. ASSUME NEW p \in Process, Operate(p) PROVE RecordedByNow'
    <3>1. CASE Lock(p) \/ CheckCreate(p) \/ CheckBlock(p) \/ CheckRestore(p)
      BY <3>1, <2>7 DEF Lock, CheckCreate, CheckBlock, CheckRestore, Checked, data
    <3>2. CASE \E reqs : Commit(p, reqs)
      BY <2>4, <3>2
    <3> QED
      BY <2>8, <3>1, <3>2 DEF Operate, CreateObjectStateRequestId, CancelObjectStateRequestId,
         ClearObjectStateRequestId, CreateAdminObjectBlockRequestId, ClearAdminObjectStateRequestId,
         CreateAdminObjectStateRestoreRequestId, PerformObjectStateRequest
  <2>9. CASE UNCHANGED vars
    BY <2>7, <2>9 DEF vars
  <2> QED BY <2>2, <2>5, <2>6, <2>8, <2>9 DEF Next
<1> QED BY <1>1, <1>2, Invariance, PTL DEF Spec

-----------------------------------------------------------------------------
(* Rows of one state that are apart                                        *)

Separate(rows) ==
    \A r \in rows :
        /\ r.to # None => r.from < r.to
        /\ \A q \in rows : r = q \/ (r.to # None /\ r.to < q.from) \/ (q.to # None /\ q.to < r.from)

IsOn(rows, t) == \E r \in rows : Covers(r, t)

LEMMA ApartIsSeparate ==
    ASSUME TypeOK, RecordedByNow, NEW s \in States, Apart(s)
    PROVE  Separate(Rows(inEffect[s])) /\ Rows(inEffect[s]) \subseteq Interval
<1>1. /\ DOMAIN inEffect[s] \subseteq Nat
      /\ \A i \in DOMAIN inEffect[s] : inEffect[s][i] \in Interval
  BY ElementOfSeq, LenProperties DEF TypeOK
<1>2. ASSUME NEW i \in DOMAIN inEffect[s], NEW j \in DOMAIN inEffect[s], i < j
      PROVE  inEffect[s][i].to # None /\ inEffect[s][i].to < inEffect[s][j].from
  BY <1>2 DEF RecordedByNow, Recorded, Apart
<1>3. ASSUME NEW i \in DOMAIN inEffect[s], NEW j \in DOMAIN inEffect[s]
      PROVE  i = j \/ i < j \/ j < i
  BY <1>1
<1>4. \A i \in DOMAIN inEffect[s] : inEffect[s][i].to # None => inEffect[s][i].from < inEffect[s][i].to
  BY DEF Apart
<1> QED BY <1>1, <1>2, <1>3, <1>4 DEF Separate, Rows

LEMMA NothingChanges ==
    ASSUME NEW rows, rows \subseteq Interval, NEW n \in Nat, n > 0,
           \A r \in rows : r.from # n /\ r.to # n
    PROVE  IsOn(rows, n - 1) <=> IsOn(rows, n)
<1>1. \A r \in rows : r.from \in Nat /\ r.to \in Nat \cup {None} /\ r.from # n /\ r.to # n
  BY DEF Interval, Time
<1>2. \A r \in rows : Covers(r, n - 1) <=> Covers(r, n)
  BY <1>1, NoneIsNoTime DEF Covers
<1> QED BY <1>2 DEF IsOn

LEMMA BeginsOn ==
    ASSUME NEW rows, rows \subseteq Interval, Separate(rows), NEW r \in rows
    PROVE  IsOn(rows, r.from) /\ \A q \in rows : q.to # r.from
<1>1. \A q \in rows : q.from \in Nat /\ q.to \in Nat \cup {None}
  BY DEF Interval, Time
<1>2. Covers(r, r.from)
  BY <1>1 DEF Separate, Covers
<1>3. ASSUME NEW q \in rows, q.to = r.from PROVE FALSE
  <2>1. q.to \in Nat /\ q.to # None /\ q.from < q.to
    BY <1>1, <1>3, NoneIsNoTime DEF Separate
  <2>2. q # r
    BY <2>1, <1>3, <1>1
  <2>3. r.to # None /\ r.to < q.from /\ r.to \in Nat /\ r.from < r.to
    BY <1>1, <1>3, <2>1, <2>2 DEF Separate
  <2> QED BY <1>1, <1>3, <2>1, <2>3
<1> QED BY <1>2, <1>3 DEF IsOn

LEMMA EndsOff ==
    ASSUME NEW rows, rows \subseteq Interval, Separate(rows), NEW n \in Nat, NEW q \in rows, q.to = n
    PROVE  ~IsOn(rows, n)
<1>1. \A r \in rows : r.from \in Nat /\ r.to \in Nat \cup {None}
  BY DEF Interval, Time
<1>2. ASSUME NEW r \in rows, Covers(r, n) PROVE FALSE
  <2>1. r.from <= n /\ (r.to # None => n < r.to) /\ q.from < n /\ q.to # None
    BY <1>1, <1>2, NoneIsNoTime DEF Covers, Separate
  <2>2. r # q
    BY <1>1, <2>1
  <2>3. r.to # None /\ r.to < q.from
    BY <1>1, <2>1, <2>2 DEF Separate
  <2> QED BY <1>1, <2>1, <2>3
<1> QED BY <1>2 DEF IsOn
LEMMA SmallestNumber ==
    ASSUME NEW T, T \subseteq Nat, T # {}
    PROVE  \E n \in T : \A m \in T : n <= m
<1>1. \E n \in T : \A m \in T : ~(<<m, n>> \in OpToRel(<, Nat))
  BY NatLessThanWellFounded, WFMin
<1>2. PICK n \in T : \A m \in T : ~(<<m, n>> \in OpToRel(<, Nat))
  BY <1>1
<1>3. \A m \in T : ~(m < n)
  BY <1>2 DEF OpToRel
<1>4. QED
  BY <1>3


-----------------------------------------------------------------------------
(* The timeline of states                                                  *)

EndOfLook(upper) == IF upper = None THEN now ELSE upper

(* What the limits may be, for the states of the object                    *)
Looks(lower, upper) ==
    /\ TypeOK /\ RecordedByNow
    /\ lower \in {None} \cup 1..now /\ upper \in {None} \cup 0..now
    /\ LookingStart(lower) <= EndOfLook(upper)

LEMMA LookFacts ==
    ASSUME NEW lower, NEW upper, Looks(lower, upper)
    PROVE  /\ now \in Nat /\ MaxTime \in Nat /\ now <= MaxTime
           /\ LookingStart(lower) \in Nat /\ EndOfLook(upper) \in Nat
           /\ LookingStart(lower) <= EndOfLook(upper) /\ EndOfLook(upper) <= now
           /\ upper # None => upper = EndOfLook(upper)
           /\ \A s \in States : /\ Rows(inEffect[s]) \subseteq Interval
                                /\ \A r \in Rows(inEffect[s]) :
                                      /\ r.from \in Nat /\ r.to \in Nat \cup {None}
                                      /\ r.from <= now /\ (r.to # None => r.to <= now)
<1>1. now \in Nat /\ MaxTime \in Nat /\ now <= MaxTime
  BY BoundsAreNumbers DEF Looks, TypeOK, RecordedByNow
<1>2. /\ LookingStart(lower) \in Nat /\ EndOfLook(upper) \in Nat
      /\ LookingStart(lower) <= EndOfLook(upper) /\ EndOfLook(upper) <= now
      /\ upper # None => upper = EndOfLook(upper)
  <2>1. LookingStart(lower) \in Nat
    BY <1>1 DEF Looks, LookingStart
  <2>2. EndOfLook(upper) \in Nat /\ EndOfLook(upper) <= now /\ (upper # None => upper = EndOfLook(upper))
    BY <1>1 DEF Looks, EndOfLook
  <2> QED BY <2>1, <2>2 DEF Looks
<1>3. ASSUME NEW s \in States, NEW r \in Rows(inEffect[s])
      PROVE  /\ r \in Interval /\ r.from \in Nat /\ r.to \in Nat \cup {None}
             /\ r.from <= now /\ (r.to # None => r.to <= now)
  <2>1. PICK i \in DOMAIN inEffect[s] : r = inEffect[s][i]
    BY <1>3 DEF Rows
  <2>2. r \in Interval
    BY <2>1, ElementOfSeq, LenProperties DEF Looks, TypeOK
  <2> QED BY <2>1, <2>2 DEF Interval, Time, Looks, RecordedByNow, Recorded
<1> QED BY <1>1, <1>2, <1>3

(* Changes lie between the limits.                                         *)
LEMMA ChangesBetween ==
    ASSUME NEW lower, NEW upper, Looks(lower, upper), NEW t \in StateChanges(States, lower, upper)
    PROVE  t \in Nat /\ LookingStart(lower) <= t /\ t <= EndOfLook(upper)
<1>1. PICK s \in States : t \in Begins(s, lower, upper) \cup Ends(s, lower, upper)
  BY DEF StateChanges
<1>2. PICK r \in Overlapping(s, lower, upper) :
         \/ t = r.from /\ ~(r.from <= LookingStart(lower))
         \/ t = r.to /\ r.to # None /\ (upper # None => r.to <= upper)
  BY <1>1 DEF Begins, Ends, PresentOnBegin
<1>3. r \in Rows(inEffect[s])
  BY DEF Overlapping
<1>4. /\ r.from \in Nat /\ r.to \in Nat \cup {None} /\ r.from <= now /\ (r.to # None => r.to <= now)
      /\ LookingStart(lower) \in Nat /\ EndOfLook(upper) \in Nat
      /\ (upper # None => upper = EndOfLook(upper)) /\ (upper = None => EndOfLook(upper) = now)
  BY <1>3, LookFacts DEF EndOfLook
<1> QED BY <1>2, <1>4, NoneIsNoTime DEF Overlapping

(* The changes of a state whose rows are apart                             *)
LEMMA ChangesOfApart ==
    ASSUME NEW lower, NEW upper, Looks(lower, upper), NEW s \in States, Separate(Rows(inEffect[s])),
           NEW n \in Nat, LookingStart(lower) <= n, n <= EndOfLook(upper)
    PROVE  /\ n \in Begins(s, lower, upper)
                <=> LookingStart(lower) < n /\ \E r \in Rows(inEffect[s]) : r.from = n
           /\ n \in Ends(s, lower, upper) <=> \E r \in Rows(inEffect[s]) : r.to = n
<1> DEFINE L == LookingStart(lower)
           U == EndOfLook(upper)
<1>1. /\ L \in Nat /\ U \in Nat /\ (upper # None => upper = U)
      /\ \A r \in Rows(inEffect[s]) :
            /\ r.from \in Nat /\ r.to \in Nat \cup {None}
            /\ r.to # None => r.from < r.to
  BY LookFacts DEF Separate
<1>2. ASSUME NEW r \in Rows(inEffect[s]), r.from = n, L < n PROVE n \in Begins(s, lower, upper)
  BY <1>1, <1>2 DEF Begins, Overlapping, PresentOnBegin
<1>3. ASSUME NEW r \in Rows(inEffect[s]), r.to = n PROVE n \in Ends(s, lower, upper)
  BY <1>1, <1>3, NoneIsNoTime DEF Ends, Overlapping
<1>4. ASSUME n \in Begins(s, lower, upper) PROVE L < n /\ \E r \in Rows(inEffect[s]) : r.from = n
  BY <1>1, <1>4 DEF Begins, Overlapping, PresentOnBegin
<1>5. ASSUME n \in Ends(s, lower, upper) PROVE \E r \in Rows(inEffect[s]) : r.to = n
  BY <1>5 DEF Ends, Overlapping
<1> QED BY <1>2, <1>3, <1>4, <1>5

LEMMA PresentIs ==
    ASSUME NEW lower, NEW upper, Looks(lower, upper), NEW s \in States
    PROVE  PresentOnBegin(s, lower, upper) # {}
              <=> \E r \in Rows(inEffect[s]) : /\ r.from <= LookingStart(lower)
                                               /\ r.to # None => LookingStart(lower) <= r.to
<1>1. /\ LookingStart(lower) \in Nat /\ EndOfLook(upper) \in Nat
      /\ LookingStart(lower) <= EndOfLook(upper) /\ (upper # None => upper = EndOfLook(upper))
      /\ \A r \in Rows(inEffect[s]) : r.from \in Nat
  BY LookFacts
<1>2. \A r \in Rows(inEffect[s]) : r.from <= LookingStart(lower) => (upper # None => r.from <= upper)
  BY <1>1
<1> QED BY <1>2 DEF PresentOnBegin, Overlapping

-----------------------------------------------------------------------------
(* The records, change by change                                           *)

(* A state as the records show it when the changes before n are done       *)
Shown(s, n, lower, upper) ==
    IF n <= LookingStart(lower) THEN PresentOnBegin(s, lower, upper) # {}
    ELSE IsOn(Rows(inEffect[s]), n - 1)

LastStates(timeline) == IF timeline = <<>> THEN {} ELSE timeline[Len(timeline)].states

AfterChange(before, s, n, lower, upper) ==
    (s \in before \/ n \in Begins(s, lower, upper)) /\ n \notin Ends(s, lower, upper)

LEMMA ChangeShows ==
    ASSUME NEW lower, NEW upper, Looks(lower, upper), NEW s \in States, Apart(s),
           NEW n \in Nat, n <= EndOfLook(upper), NEW before, s \in before <=> Shown(s, n, lower, upper)
    PROVE  AfterChange(before, s, n, lower, upper) <=> Shown(s, n + 1, lower, upper)
<1> DEFINE L == LookingStart(lower)
           R == Rows(inEffect[s])
<1>1. /\ L \in Nat /\ EndOfLook(upper) \in Nat /\ L <= EndOfLook(upper)
      /\ R \subseteq Interval /\ Separate(R)
      /\ \A r \in R : r.from \in Nat /\ r.to \in Nat \cup {None}
  BY LookFacts, ApartIsSeparate DEF Looks
<1>2. CASE n < L
  <2>1. n \notin StateChanges(States, lower, upper)
    BY <1>1, <1>2, ChangesBetween
  <2>2. n \notin Begins(s, lower, upper) /\ n \notin Ends(s, lower, upper)
    BY <2>1 DEF StateChanges
  <2> QED BY <1>1, <1>2, <2>2 DEF AfterChange, Shown
<1>3. CASE n >= L
  <2>1. /\ n \in Begins(s, lower, upper) <=> L < n /\ \E r \in R : r.from = n
        /\ n \in Ends(s, lower, upper) <=> \E r \in R : r.to = n
    BY <1>1, <1>3, ChangesOfApart
  <2>2. Shown(s, n + 1, lower, upper) <=> IsOn(R, n)
    BY <1>1, <1>3 DEF Shown
  <2> HIDE DEF R, L
  <2>3. CASE n \in Ends(s, lower, upper)
    <3>1. ~IsOn(R, n)
      BY <1>1, <2>1, <2>3, EndsOff
    <3> QED BY <2>2, <2>3, <3>1 DEF AfterChange
  <2>4. CASE n \notin Ends(s, lower, upper) /\ n \in Begins(s, lower, upper)
    <3>1. IsOn(R, n)
      BY <1>1, <2>1, <2>4, BeginsOn
    <3> QED BY <2>2, <2>4, <3>1 DEF AfterChange
  <2>5. CASE n \notin Ends(s, lower, upper) /\ n \notin Begins(s, lower, upper) /\ L < n
    <3>1. n > 0 /\ \A r \in R : r.from # n /\ r.to # n
      BY <1>1, <2>1, <2>5
    <3>2. IsOn(R, n - 1) <=> IsOn(R, n)
      BY <1>1, <3>1, NothingChanges
    <3>3. Shown(s, n, lower, upper) <=> IsOn(R, n - 1)
      BY <1>1, <2>5 DEF Shown, R, L
    <3> QED BY <2>2, <2>5, <3>2, <3>3 DEF AfterChange
  <2>6. CASE n \notin Ends(s, lower, upper) /\ n \notin Begins(s, lower, upper) /\ n = L
    <3>1. Shown(s, n, lower, upper) <=> \E r \in R : r.from <= n /\ (r.to # None => n <= r.to)
      BY <1>1, <2>6, PresentIs DEF Shown, R, L
    <3>2. \A r \in R : r.to # n
      BY <2>1, <2>6
    <3>3. \A r \in R : Covers(r, n) <=> r.from <= n /\ (r.to # None => n <= r.to)
      BY <1>1, <3>2, NoneIsNoTime DEF Covers
    <3> QED BY <2>2, <2>6, <3>1, <3>3 DEF AfterChange, IsOn
  <2> QED BY <1>1, <1>3, <2>3, <2>4, <2>5, <2>6 DEF L
<1> QED BY <1>1, <1>2, <1>3

RecordOf == [from : Nat, states : SUBSET States]

(* What is known of the records when the changes before n are done         *)
Told(timeline, n, lower, upper) ==
    /\ timeline \in Seq(RecordOf)
    /\ timeline = <<>> => n <= LookingStart(lower) /\ LookingStart(lower) \in StateChanges(States, lower, upper)
    /\ timeline # <<>> => timeline[1].from <= LookingStart(lower)
    /\ \A i \in DOMAIN timeline : timeline[i].from <= LookingStart(lower) \/ timeline[i].from < n
    /\ n <= EndOfLook(upper) + 1 =>
          \A s \in States : Apart(s) =>
              (s \in LastStates(timeline) <=> Shown(s, n, lower, upper))

LEMMA GreatestNumber ==
    ASSUME NEW m \in Nat, NEW T, T \subseteq 0..m, T # {}
    PROVE  Max(T) \in T /\ \A u \in T : u <= Max(T)
<1> DEFINE B == {n \in Nat : \A u \in T : u <= n}
<1>1. m \in B /\ B \subseteq Nat
  OBVIOUS
<1>2. PICK n \in B : \A k \in B : n <= k
  BY <1>1, SmallestNumber
<1>3. n \in T
  <2>1. SUFFICES ASSUME n \notin T PROVE FALSE
    OBVIOUS
  <2>2. \A u \in T : u \in Nat /\ u < n
    BY <1>2, <2>1
  <2>3. PICK u \in T : TRUE
    OBVIOUS
  <2>4. n - 1 \in Nat /\ \A v \in T : v <= n - 1
    BY <1>1, <1>2, <2>2, <2>3
  <2>5. n - 1 \in B
    BY <2>4
  <2> QED BY <1>1, <1>2, <2>5
<1>4. \E x \in T : \A y \in T : x >= y
  BY <1>2, <1>3
<1> QED BY <1>4 DEF Max

LEMMA FirstTold ==
    ASSUME NEW lower, NEW upper, Looks(lower, upper)
    PROVE  Told(FirstRecord(States, lower, upper), 0, lower, upper)
<1> DEFINE L == LookingStart(lower)
           onBegin == {s \in States : PresentOnBegin(s, lower, upper) # {}}
           froms == {r.from : r \in UNION {PresentOnBegin(s, lower, upper) : s \in States}}
           changes == StateChanges(States, lower, upper)
           F == FirstRecord(States, lower, upper)
<1>1. L \in Nat /\ EndOfLook(upper) \in Nat /\ \A t \in changes : t \in Nat /\ L <= t
  BY LookFacts, ChangesBetween
<1>2. \A s \in States : Shown(s, 0, lower, upper) <=> s \in onBegin
  BY <1>1 DEF Shown
<1>3. F = CASE onBegin # {} -> <<[from |-> Max(froms), states |-> onBegin]>>
            [] onBegin = {} /\ (\A t \in changes : L < t) -> <<[from |-> L, states |-> {}]>>
            [] OTHER -> <<>>
  BY DEF FirstRecord
<1>4. CASE onBegin # {}
  <2>1. froms # {} /\ froms \subseteq 0..L
    <3>1. \A s \in States : \A r \in PresentOnBegin(s, lower, upper) : r.from \in Nat /\ r.from <= L
      BY LookFacts DEF PresentOnBegin, Overlapping
    <3>2. PICK s \in States : PresentOnBegin(s, lower, upper) # {}
      BY <1>4
    <3>3. PICK r \in PresentOnBegin(s, lower, upper) : TRUE
      BY <3>2
    <3>4. r.from \in froms
      BY <3>2, <3>3
    <3>5. ASSUME NEW t \in froms PROVE t \in 0..L
      <4>1. PICK q \in UNION {PresentOnBegin(u, lower, upper) : u \in States} : t = q.from
        OBVIOUS
      <4>2. PICK u \in States : q \in PresentOnBegin(u, lower, upper)
        BY <4>1
      <4> QED BY <1>1, <3>1, <4>1, <4>2
    <3> QED BY <3>4, <3>5
  <2> HIDE DEF froms, L
  <2>2. Max(froms) \in 0..L
    BY <1>1, <2>1, GreatestNumber
  <2>3. PICK m \in 0..L : m = Max(froms)
    BY <2>2
  <2>4. F = <<[from |-> m, states |-> onBegin]>>
    BY <1>3, <1>4, <2>3
  <2>5. [from |-> m, states |-> onBegin] \in RecordOf
    BY <1>1, <2>3 DEF RecordOf
  <2> HIDE DEF F, onBegin
  <2>6. /\ F \in Seq(RecordOf) /\ F # <<>> /\ DOMAIN F = {1} /\ Len(F) = 1
        /\ F[1].from = m /\ F[1].states = onBegin
    BY <2>4, <2>5
  <2> QED BY <1>1, <1>2, <2>3, <2>6 DEF Told, LastStates, L, F
<1>5. CASE onBegin = {} /\ \A t \in changes : L < t
  <2>1. F = <<[from |-> L, states |-> {}]>>
    BY <1>3, <1>5
  <2>2. [from |-> L, states |-> {}] \in RecordOf
    BY <1>1 DEF RecordOf
  <2> HIDE DEF F
  <2>3. /\ F \in Seq(RecordOf) /\ F # <<>> /\ DOMAIN F = {1} /\ Len(F) = 1
        /\ F[1].from = L /\ F[1].states = {}
    BY <2>1, <2>2
  <2> QED BY <1>1, <1>2, <1>5, <2>3 DEF Told, LastStates, F
<1>6. CASE onBegin = {} /\ ~(\A t \in changes : L < t)
  <2>1. F = <<>>
    BY <1>3, <1>6
  <2>2. L \in changes
    BY <1>1, <1>6
  <2>3. DOMAIN <<>> = {} /\ <<>> \in Seq(RecordOf)
    OBVIOUS
  <2> HIDE DEF F
  <2> QED BY <1>1, <1>2, <1>6, <2>1, <2>2, <2>3 DEF Told, LastStates, F
<1> QED BY <1>4, <1>5, <1>6

(* What a change makes of the records                                      *)
Visit(timeline, n, lower, upper) ==
    IF n \in StateChanges(States, lower, upper)
    THEN AddRecord(timeline, n, States, lower, upper) ELSE timeline

LEMMA VisitTells ==
    ASSUME NEW lower, NEW upper, Looks(lower, upper), NEW n \in Nat, NEW old, Told(old, n, lower, upper)
    PROVE  /\ Told(Visit(old, n, lower, upper), n + 1, lower, upper)
           /\ Len(old) <= Len(Visit(old, n, lower, upper))
           /\ \A i \in DOMAIN old : Visit(old, n, lower, upper)[i] = old[i]
           /\ \A i \in DOMAIN Visit(old, n, lower, upper) \ DOMAIN old :
                  Visit(old, n, lower, upper)[i].from = n
<1> DEFINE L == LookingStart(lower)
           changes == StateChanges(States, lower, upper)
           new == Visit(old, n, lower, upper)
<1>1. /\ L \in Nat /\ EndOfLook(upper) \in Nat /\ L <= EndOfLook(upper)
      /\ \A t \in changes : t \in Nat /\ L <= t /\ t <= EndOfLook(upper)
  BY LookFacts, ChangesBetween
<1>2. /\ old \in Seq(RecordOf) /\ Len(old) \in Nat /\ DOMAIN old = 1..Len(old)
      /\ \A i \in DOMAIN old : old[i] \in RecordOf /\ old[i].from \in Nat
      /\ old # <<>> => 1 \in DOMAIN old /\ Len(old) \in DOMAIN old
      /\ old = <<>> => Len(old) = 0
  <2>1. old \in Seq(RecordOf)
    BY DEF Told
  <2>2. Len(old) \in Nat /\ DOMAIN old = 1..Len(old) /\ \A i \in DOMAIN old : old[i] \in RecordOf
    BY <2>1, ElementOfSeq, LenProperties
  <2>3. old = <<>> <=> Len(old) = 0
    BY <2>1, EmptySeq
  <2> QED BY <2>1, <2>2, <2>3 DEF RecordOf
<1>3. CASE n \in changes
  <2> DEFINE begin == {s \in States : n \in Begins(s, lower, upper)}
             end == {s \in States : n \in Ends(s, lower, upper)}
             record == [from |-> n, states |-> (LastStates(old) \cup begin) \ end]
  <2>1. new = Append(old, record)
    BY <1>3 DEF Visit, AddRecord, LastStates
  <2>2. LastStates(old) \subseteq States
    BY <1>2 DEF LastStates, RecordOf
  <2>3. record \in RecordOf
    BY <2>2 DEF RecordOf
  <2>4. /\ new \in Seq(RecordOf) /\ Len(new) = Len(old) + 1 /\ DOMAIN new = 1..(Len(old) + 1)
        /\ \A i \in DOMAIN old : new[i] = old[i]
        /\ new[Len(old) + 1] = record /\ new # <<>>
    BY <1>2, <2>1, <2>3, AppendProperties
  <2>5. LastStates(new) = (LastStates(old) \cup begin) \ end /\ new[Len(old) + 1].from = n
    BY <2>4 DEF LastStates
  <2>6. ASSUME NEW s \in States, Apart(s), n + 1 <= EndOfLook(upper) + 1
        PROVE  s \in LastStates(new) <=> Shown(s, n + 1, lower, upper)
    <3>1. n <= EndOfLook(upper) /\ n <= EndOfLook(upper) + 1
      BY <1>1, <2>6
    <3>2. s \in LastStates(old) <=> Shown(s, n, lower, upper)
      BY <2>6, <3>1 DEF Told
    <3>3. AfterChange(LastStates(old), s, n, lower, upper) <=> Shown(s, n + 1, lower, upper)
      BY <2>6, <3>1, <3>2, ChangeShows
    <3> QED BY <2>5, <3>3 DEF AfterChange
  <2>7. new[1].from <= L
    <3>1. CASE old = <<>>
      BY <1>1, <1>2, <1>3, <2>4, <2>5, <3>1 DEF Told
    <3>2. CASE old # <<>>
      BY <1>2, <2>4, <3>2 DEF Told
    <3> QED BY <3>1, <3>2
  <2>8. \A i \in DOMAIN new : new[i].from <= L \/ new[i].from < n + 1
    <3>1. \A i \in DOMAIN old : old[i].from <= L \/ old[i].from < n
      BY DEF Told
    <3> QED BY <1>2, <2>4, <2>5, <3>1
  <2> HIDE DEF new, record, begin, end
  <2>9. Told(new, n + 1, lower, upper)
    BY <2>4, <2>6, <2>7, <2>8 DEF Told
  <2>10. \A i \in DOMAIN new \ DOMAIN old : new[i].from = n
    BY <1>2, <2>4, <2>5
  <2> QED BY <1>2, <2>4, <2>9, <2>10 DEF new
<1>4. CASE n \notin changes
  <2>1. new = old
    BY <1>4 DEF Visit
  <2>2. ASSUME NEW s \in States, Apart(s), n + 1 <= EndOfLook(upper) + 1
        PROVE  s \in LastStates(old) <=> Shown(s, n + 1, lower, upper)
    <3>1. n <= EndOfLook(upper) /\ n <= EndOfLook(upper) + 1
      BY <1>1, <2>2
    <3>2. s \in LastStates(old) <=> Shown(s, n, lower, upper)
      BY <2>2, <3>1 DEF Told
    <3>3. AfterChange(LastStates(old), s, n, lower, upper) <=> Shown(s, n + 1, lower, upper)
      BY <2>2, <3>1, <3>2, ChangeShows
    <3>4. n \notin Begins(s, lower, upper) /\ n \notin Ends(s, lower, upper)
      BY <1>4 DEF StateChanges
    <3> QED BY <3>3, <3>4 DEF AfterChange
  <2>3. old = <<>> => n + 1 <= L /\ L \in changes
    BY <1>1, <1>4 DEF Told
  <2>4. \A i \in DOMAIN old : old[i].from <= L \/ old[i].from < n + 1
    BY <1>2 DEF Told
  <2> HIDE DEF new
  <2>5. Told(old, n + 1, lower, upper)
    BY <2>2, <2>3, <2>4 DEF Told
  <2> QED BY <1>2, <2>1, <2>5 DEF new
<1> QED BY <1>3, <1>4

-----------------------------------------------------------------------------
(* The whole timeline                                                      *)

(* The records before each of the instants up to m, if f has those         *)
Visited(f, m, lower, upper) ==
    [n \in 0..m |->
        IF n = 0 THEN FirstRecord(States, lower, upper)
        ELSE IF n - 1 \in StateChanges(States, lower, upper)
             THEN AddRecord(f[n - 1], n - 1, States, lower, upper) ELSE f[n - 1]]

LEMMA VisitedExists ==
    ASSUME NEW lower, NEW upper, NEW m \in Nat
    PROVE  \E f : f = Visited(f, m, lower, upper)
<1> DEFINE F == {k \in Nat : ~\E f : f = Visited(f, k, lower, upper)}
<1>1. SUFFICES ASSUME F # {} PROVE FALSE
  OBVIOUS
<1>2. PICK k \in F : \A j \in F : k <= j
  BY <1>1, SmallestNumber
<1>3. CASE k = 0
  <2>1. PICK f : f = [n \in 0..0 |-> FirstRecord(States, lower, upper)]
    OBVIOUS
  <2>2. f = Visited(f, 0, lower, upper)
    BY <2>1 DEF Visited
  <2> QED BY <1>2, <1>3, <2>2
<1>4. CASE k # 0
  <2>1. k - 1 \in Nat /\ k - 1 \notin F
    BY <1>2, <1>4
  <2>2. PICK f : f = Visited(f, k - 1, lower, upper)
    BY <2>1
  <2>3. PICK g : g = Visited(f, k, lower, upper)
    OBVIOUS
  <2>4. ASSUME NEW n \in 0..(k - 1) PROVE g[n] = f[n]
    <3>1. n \in 0..k
      BY <1>2
    <3>2. g[n] = IF n = 0 THEN FirstRecord(States, lower, upper)
                 ELSE IF n - 1 \in StateChanges(States, lower, upper)
                      THEN AddRecord(f[n - 1], n - 1, States, lower, upper) ELSE f[n - 1]
      BY <2>3, <3>1 DEF Visited
    <3>3. f[n] = IF n = 0 THEN FirstRecord(States, lower, upper)
                 ELSE IF n - 1 \in StateChanges(States, lower, upper)
                      THEN AddRecord(f[n - 1], n - 1, States, lower, upper) ELSE f[n - 1]
      BY <2>2 DEF Visited
    <3> QED BY <3>2, <3>3
  <2>5. \A n \in 0..k : n # 0 => g[n - 1] = f[n - 1]
    BY <1>2, <2>4
  <2>6. g = Visited(g, k, lower, upper)
    BY <2>3, <2>5 DEF Visited
  <2> QED BY <1>2, <2>6
<1> QED BY <1>3, <1>4

(* The records before each instant                                         *)
Progress(f, lower, upper) ==
    /\ f[0] = FirstRecord(States, lower, upper)
    /\ \A n \in 0..MaxTime : f[n + 1] = Visit(f[n], n, lower, upper)

LEMMA HistoryProgresses ==
    ASSUME NEW lower, NEW upper
    PROVE  \E f : Progress(f, lower, upper) /\ StateHistory(States, lower, upper) = f[MaxTime + 1]
<1> DEFINE f == CHOOSE g : g = Visited(g, MaxTime + 1, lower, upper)
<1>1. MaxTime + 1 \in Nat
  BY BoundsAreNumbers
<1>2. \E g : g = Visited(g, MaxTime + 1, lower, upper)
  BY <1>1, VisitedExists
<1>3. f = Visited(f, MaxTime + 1, lower, upper)
  BY <1>2
<1>4. StateHistory(States, lower, upper) = f[MaxTime + 1]
  BY DEF StateHistory, Visited
<1> HIDE DEF f
<1>5. f[0] = FirstRecord(States, lower, upper)
  BY <1>1, <1>3 DEF Visited
<1>6. ASSUME NEW n \in 0..MaxTime PROVE f[n + 1] = Visit(f[n], n, lower, upper)
  <2>1. n + 1 \in 0..(MaxTime + 1) /\ n + 1 # 0 /\ (n + 1) - 1 = n
    BY BoundsAreNumbers
  <2> QED BY <1>3, <2>1 DEF Visited, Visit
<1> QED BY <1>4, <1>5, <1>6 DEF Progress

LEMMA ProgressTells ==
    ASSUME NEW lower, NEW upper, Looks(lower, upper), NEW f, Progress(f, lower, upper),
           NEW n \in 0..(MaxTime + 1)
    PROVE  Told(f[n], n, lower, upper)
<1> DEFINE F == {k \in 0..(MaxTime + 1) : ~Told(f[k], k, lower, upper)}
<1>1. SUFFICES ASSUME F # {} PROVE FALSE
  OBVIOUS
<1>2. MaxTime \in Nat
  BY BoundsAreNumbers
<1>3. PICK k \in F : \A j \in F : k <= j
  <2>1. F \subseteq Nat
    BY <1>2
  <2> QED BY <1>1, <2>1, SmallestNumber
<1>4. k # 0
  BY <1>3, FirstTold DEF Progress
<1>5. k - 1 \in 0..MaxTime /\ k - 1 \in 0..(MaxTime + 1) /\ k - 1 \notin F /\ (k - 1) + 1 = k
  BY <1>2, <1>3, <1>4
<1>6. Told(f[k - 1], k - 1, lower, upper) /\ f[k] = Visit(f[k - 1], k - 1, lower, upper)
  BY <1>5 DEF Progress
<1>7. Told(f[k], k, lower, upper)
  BY <1>5, <1>6, VisitTells
<1> QED BY <1>3, <1>7

(* Records added at n or later begin then.                                 *)
Extends(new, old, n) ==
    /\ Len(old) <= Len(new)
    /\ \A i \in DOMAIN old : new[i] = old[i]
    /\ \A i \in DOMAIN new \ DOMAIN old : new[i].from >= n

LEMMA ProgressExtends ==
    ASSUME NEW lower, NEW upper, Looks(lower, upper), NEW f, Progress(f, lower, upper),
           NEW n \in 0..(MaxTime + 1)
    PROVE  Extends(f[MaxTime + 1], f[n], n)
<1> DEFINE F == {k \in n..(MaxTime + 1) : ~Extends(f[k], f[n], n)}
<1>1. SUFFICES F = {}
  BY BoundsAreNumbers
<1>2. SUFFICES ASSUME F # {} PROVE FALSE
  OBVIOUS
<1>3. MaxTime \in Nat /\ n \in Nat
  BY BoundsAreNumbers
<1>4. PICK k \in F : \A j \in F : k <= j
  <2>1. F \subseteq Nat
    BY <1>3
  <2> QED BY <1>2, <2>1, SmallestNumber
<1>5. k # n
  <2>1. f[n] \in Seq(RecordOf)
    BY ProgressTells DEF Told
  <2>2. Len(f[n]) \in Nat
    BY <2>1, LenProperties
  <2>3. Extends(f[n], f[n], n)
    BY <2>2 DEF Extends
  <2> QED BY <1>4, <2>3
<1>6. k - 1 \in n..(MaxTime + 1) /\ k - 1 \in 0..MaxTime /\ k - 1 \in 0..(MaxTime + 1)
      /\ k - 1 \notin F /\ (k - 1) + 1 = k
  BY <1>3, <1>4, <1>5
<1>7. PICK old, new : old = f[k - 1] /\ new = Visit(old, k - 1, lower, upper)
  OBVIOUS
<1>8. /\ Told(old, k - 1, lower, upper) /\ new = f[k]
      /\ Extends(old, f[n], n)
  BY <1>6, <1>7, ProgressTells DEF Progress
<1>9. /\ Told(new, k, lower, upper) /\ Len(old) <= Len(new)
      /\ \A i \in DOMAIN old : new[i] = old[i]
      /\ \A i \in DOMAIN new \ DOMAIN old : new[i].from = k - 1
  BY <1>6, <1>7, <1>8, VisitTells
<1>10. /\ DOMAIN old = 1..Len(old) /\ Len(old) \in Nat /\ Len(new) \in Nat
       /\ DOMAIN f[n] = 1..Len(f[n]) /\ Len(f[n]) \in Nat
  BY <1>8, <1>9, ProgressTells, LenProperties DEF Told
<1>11. DOMAIN f[n] \subseteq DOMAIN old
  BY <1>8, <1>10 DEF Extends
<1>12. Extends(new, f[n], n)
  BY <1>3, <1>6, <1>8, <1>9, <1>10, <1>11 DEF Extends
<1> QED BY <1>4, <1>8, <1>12

(* Read at a time between the limits, it shows what the rows say.          *)
LEMMA TimelineShows ==
    ASSUME NEW lower, NEW upper, Looks(lower, upper),
           NEW t \in LookingStart(lower)..EndOfLook(upper)
    PROVE  LET timeline == StateHistory(States, lower, upper) IN
           /\ timeline # <<>> /\ timeline[1].from <= t
           /\ \A s \in States : Apart(s) => (s \in ReadAt(timeline, t) <=> s \in GetObjectStates(t))
           /\ ReadAt(timeline, t) \subseteq States
<1> DEFINE timeline == StateHistory(States, lower, upper)
           L == LookingStart(lower)
<1>1. /\ L \in Nat /\ EndOfLook(upper) \in Nat /\ t \in Nat /\ L <= t /\ t <= EndOfLook(upper)
      /\ MaxTime \in Nat /\ t <= MaxTime
  BY LookFacts
<1>2. PICK f : Progress(f, lower, upper) /\ timeline = f[MaxTime + 1]
  BY HistoryProgresses
<1> HIDE DEF timeline
<1>3. PICK old : old = f[t + 1]
  OBVIOUS
<1>4. t + 1 \in 0..(MaxTime + 1) /\ MaxTime + 1 \in 0..(MaxTime + 1)
  BY <1>1
<1>5. Told(old, t + 1, lower, upper) /\ Told(timeline, MaxTime + 1, lower, upper)
      /\ Extends(timeline, old, t + 1)
  BY <1>2, <1>3, <1>4, ProgressTells, ProgressExtends
<1>6. old # <<>>
  BY <1>1, <1>5 DEF Told
<1>7. /\ old \in Seq(RecordOf) /\ timeline \in Seq(RecordOf)
      /\ DOMAIN old = 1..Len(old) /\ Len(old) \in Nat /\ Len(old) > 0
      /\ DOMAIN timeline = 1..Len(timeline) /\ Len(timeline) \in Nat
      /\ \A i \in DOMAIN old : old[i] \in RecordOf
      /\ \A i \in DOMAIN timeline : timeline[i].from \in Nat
  <2>1. old \in Seq(RecordOf) /\ timeline \in Seq(RecordOf)
    BY <1>5 DEF Told
  <2>2. Len(old) # 0
    BY <1>6, <2>1, EmptySeq
  <2>3. /\ Len(old) \in Nat /\ DOMAIN old = 1..Len(old) /\ \A i \in DOMAIN old : old[i] \in RecordOf
        /\ Len(timeline) \in Nat /\ DOMAIN timeline = 1..Len(timeline)
        /\ \A i \in DOMAIN timeline : timeline[i] \in RecordOf
    BY <2>1, ElementOfSeq, LenProperties
  <2> QED BY <2>1, <2>2, <2>3 DEF RecordOf
<1>8. DOMAIN old \subseteq DOMAIN timeline /\ 1 \in DOMAIN old /\ Len(old) \in DOMAIN old
  BY <1>5, <1>7 DEF Extends
<1>9. timeline # <<>> /\ timeline[1].from <= t
  <2>1. timeline # <<>>
    BY <1>7, <1>8
  <2>2. timeline[1].from <= L
    BY <1>5, <2>1 DEF Told
  <2> QED BY <1>1, <1>7, <1>8, <2>1, <2>2
<1>10. {i \in DOMAIN timeline : timeline[i].from <= t} = DOMAIN old
  <2>1. \A i \in DOMAIN old : timeline[i].from <= t
    <3>1. \A i \in DOMAIN old : old[i].from <= L \/ old[i].from < t + 1
      BY <1>5 DEF Told
    <3>2. \A i \in DOMAIN old : timeline[i] = old[i] /\ timeline[i].from \in Nat
      BY <1>5, <1>7, <1>8 DEF Extends
    <3> QED BY <1>1, <3>1, <3>2
  <2>2. \A i \in DOMAIN timeline \ DOMAIN old : ~(timeline[i].from <= t)
    BY <1>1, <1>5, <1>7 DEF Extends
  <2> QED BY <1>8, <2>1, <2>2
<1>11. Max(DOMAIN old) = Len(old)
  <2>1. DOMAIN old \subseteq 0..Len(old) /\ DOMAIN old # {}
    BY <1>7
  <2>2. Max(DOMAIN old) \in DOMAIN old /\ \A u \in DOMAIN old : u <= Max(DOMAIN old)
    BY <1>7, <2>1, GreatestNumber
  <2> QED BY <1>7, <1>8, <2>2
<1>12. ReadAt(timeline, t) = LastStates(old)
  <2>1. ReadAt(timeline, t) = timeline[Len(old)].states
    BY <1>10, <1>11 DEF ReadAt
  <2> QED BY <1>5, <1>6, <1>8, <2>1 DEF Extends, LastStates
<1>13. ASSUME NEW s \in States, Apart(s) PROVE s \in LastStates(old) <=> s \in GetObjectStates(t)
  <2>1. s \in LastStates(old) <=> Shown(s, t + 1, lower, upper)
    BY <1>1, <1>5, <1>13 DEF Told
  <2>2. Shown(s, t + 1, lower, upper) <=> IsOn(Rows(inEffect[s]), t)
    BY <1>1 DEF Shown
  <2> QED BY <2>1, <2>2 DEF IsOn, GetObjectStates
<1>14. LastStates(old) \subseteq States
  BY <1>7, <1>8 DEF LastStates, RecordOf
<1> QED BY <1>9, <1>12, <1>13, <1>14 DEF timeline

LEMMA TypesStates ==
    ASSUME NEW type \in TypesOfObject, NEW lower, NEW upper
    PROVE  /\ GetStateHistory(type, lower, upper) = StateHistory(States, lower, upper)
           /\ GetState(type) = {s \in States : ObjectHasState(s)}
<1>1. CASE type = "contact"
  <2>1. States \cap ContactStates = States
    BY <1>1 DEF TypesOfObject
  <2> QED BY <1>1, <2>1 DEF GetStateHistory, GetContactStateHistory, GetState, GetContactState
<1>2. CASE type = "nsset"
  <2>1. States \cap NssetStates = States
    BY <1>2 DEF TypesOfObject
  <2> QED BY <1>2, <2>1 DEF GetStateHistory, GetNssetStateHistory, GetState, GetNssetState
<1>3. CASE type = "keyset"
  <2>1. States \cap KeysetStates = States
    BY <1>3 DEF TypesOfObject
  <2> QED BY <1>3, <2>1 DEF GetStateHistory, GetKeysetStateHistory, GetState, GetKeysetState
<1>4. CASE type = "domain"
  <2>1. States \cap DomainStates = States
    BY <1>4 DEF TypesOfObject
  <2> QED BY <1>4, <2>1 DEF GetStateHistory, GetDomainStateHistory, GetState, GetDomainState
<1> QED BY <1>1, <1>2, <1>3, <1>4 DEF TypesOfObject

(* At the present a row is valid if it is open.                            *)
LEMMA PresentStates ==
    ASSUME NEW lower, NEW upper, Looks(lower, upper)
    PROVE  GetObjectStates(now) = {s \in States : ObjectHasState(s)}
<1>1. ASSUME NEW s \in States, NEW r \in Rows(inEffect[s]) PROVE Covers(r, now) <=> r.to = None
  BY LookFacts, NoneIsNoTime DEF Covers
<1> QED BY <1>1 DEF GetObjectStates, ObjectHasState

LEMMA EndStates ==
    ASSUME NEW lower, NEW upper, Looks(lower, upper), EndOfLook(upper) > 0, NEW start
    PROVE  StatesAtEnd([from |-> start, to |-> upper], now) = GetObjectStates(EndOfLook(upper) - 1)
<1> DEFINE e == EndOfLook(upper)
<1>1. StatesAtEnd([from |-> start, to |-> upper], now)
        = {s \in States : \E r \in Rows(inEffect[s]) : r.from < e /\ (r.to = None \/ e <= r.to)}
  BY DEF StatesAtEnd, EndOfLook
<1>2. ASSUME NEW s \in States, NEW r \in Rows(inEffect[s])
      PROVE  Covers(r, e - 1) <=> r.from < e /\ (r.to = None \/ e <= r.to)
  BY LookFacts, NoneIsNoTime DEF Covers
<1> HIDE DEF e
<1> QED BY <1>1, <1>2 DEF GetObjectStates, e

(* Read record by record, the timeline of states between any limits shows  *)
(* what was in effect at each instant, for any states, calls and ages of   *)
(* transactions, if the rows of the state are apart.                       *)
THEOREM TimelineTellsStates == Spec => []StateHistoryTellsStates
<1>1. IInv /\ RecordedByNow => StateHistoryTellsStates
  <2> SUFFICES ASSUME TypeOK, RecordedByNow,
                      NEW type \in TypesOfObject,
                      NEW lower \in {None} \cup 1..now, NEW upper \in {None} \cup 0..now,
                      LookingStart(lower) <= EndOfLook(upper)
               PROVE  LET apart == {s \in States : Apart(s)}
                          timeline == GetStateHistory(type, lower, upper)
                          version == [from |-> LookingStart(lower), to |-> upper]
                          end == EndOfLook(upper)
                      IN /\ \A t \in LookingStart(lower)..end :
                               /\ timeline # <<>> /\ timeline[1].from <= t
                               /\ ReadAt(timeline, t) \cap apart = GetObjectStates(t) \cap apart
                               /\ t = now => GetObjectStates(t) = GetState(type)
                         /\ LookingStart(lower) < end =>
                               /\ ReadAt(timeline, version.from) \cap apart = StatesAtBegin(version) \cap apart
                               /\ ReadAt(timeline, end - 1) \cap apart = StatesAtEnd(version, now) \cap apart
    BY DEF IInv, StateHistoryTellsStates, EndOfLook
  <2> DEFINE apart == {s \in States : Apart(s)}
             timeline == StateHistory(States, lower, upper)
             version == [from |-> LookingStart(lower), to |-> upper]
             end == EndOfLook(upper)
  <2>1. Looks(lower, upper)
    BY DEF Looks
  <2>2. /\ LookingStart(lower) \in Nat /\ end \in Nat /\ GetStateHistory(type, lower, upper) = timeline
        /\ GetObjectStates(now) = GetState(type)
    BY <2>1, LookFacts, TypesStates, PresentStates
  <2>3. ASSUME NEW t \in LookingStart(lower)..end
        PROVE  /\ timeline # <<>> /\ timeline[1].from <= t
               /\ ReadAt(timeline, t) \cap apart = GetObjectStates(t) \cap apart
    <3>1. /\ timeline # <<>> /\ timeline[1].from <= t
          /\ \A s \in apart : s \in ReadAt(timeline, t) <=> s \in GetObjectStates(t)
      BY <2>1, <2>3, TimelineShows
    <3> QED BY <3>1
  <2>4. ASSUME LookingStart(lower) < end
        PROVE  /\ ReadAt(timeline, version.from) \cap apart = StatesAtBegin(version) \cap apart
               /\ ReadAt(timeline, end - 1) \cap apart = StatesAtEnd(version, now) \cap apart
    <3>1. LookingStart(lower) \in LookingStart(lower)..end /\ end - 1 \in LookingStart(lower)..end /\ end > 0
      BY <2>2, <2>4
    <3>2. StatesAtBegin(version) = GetObjectStates(LookingStart(lower))
      BY DEF StatesAtBegin
    <3>3. StatesAtEnd(version, now) = GetObjectStates(end - 1)
      BY <2>1, <3>1, EndStates
    <3> QED BY <2>3, <3>1, <3>2, <3>3
  <2> HIDE DEF apart, timeline, version, end
  <2> QED BY <2>2, <2>3, <2>4 DEF apart, timeline, version, end
<1> QED BY <1>1, RecordedInvariance, PTL
=============================================================================
