------------------------ MODULE PublicRequests_proofs ------------------------
(***************************************************************************)
(* Theorems about PublicRequests: of a type that cancels itself at most    *)
(* one request of an object is opened, and an update of all requests of a  *)
(* type leaves none opened, for any types and whatever they cancel.        *)
(***************************************************************************)
EXTENDS PublicRequests, SequenceTheorems, TLAPS

(* The properties of one table                                             *)
Agrees(table) ==
    \A i \in DOMAIN table : table[i].status = "opened" <=> ~table[i].resolved

OneOpenedIn(table) ==
    \A i, j \in DOMAIN table :
        /\ table[i].status = "opened" /\ table[j].status = "opened"
        /\ table[i].type = table[j].type /\ table[i].type \in CancelOnCreate[table[i].type]
        => i = j

-----------------------------------------------------------------------------
(* The stack                                                               *)

LEMMA SomeIs ==
    ASSUME NEW item \in Item
    PROVE  /\ Some(item) \in Seq(Item)
           /\ Some(item) = <<>> \/ Some(item) = <<item>>
           /\ item.types # {} \/ item.ids # {} => Some(item) = <<item>>
  BY DEF Some

(* new is stack with the first n of new in the place of its head; these    *)
(* are a and b, in this order, as far as there is something to do in them. *)
Replaced(stack, a, b, new, n) ==
    /\ Len(new) + 1 = n + Len(stack)
    /\ \A k \in 1..n : new[k] \in {a, b}
    /\ \A k, j \in 1..n : k < j => new[k] = a
    /\ \A k \in 2..Len(stack) : new[k + n - 1] = stack[k]
    /\ a.types # {} \/ a.ids # {} => \E k \in 1..n : new[k] = a
    /\ b.types # {} \/ b.ids # {} => \E k \in 1..n : new[k] = b

Pushes(stack, a, b, new) ==
    /\ new \in Seq(Item) /\ Len(new) \in Nat /\ Len(stack) \in Nat \ {0}
    /\ Head(stack) = stack[1]
    /\ \E n \in 0..2 : Replaced(stack, a, b, new, n)

LEMMA Pushed ==
    ASSUME NEW stack \in Seq(Item), stack # <<>>, NEW a \in Item, NEW b \in Item
    PROVE  Pushes(stack, a, b, Some(a) \o Some(b) \o Tail(stack))
<1> DEFINE pre == Some(a) \o Some(b)
           n == Len(pre)
           new == Some(a) \o Some(b) \o Tail(stack)
<1>1. Some(a) \in Seq(Item) /\ Some(b) \in Seq(Item)
  BY SomeIs
<1>2. /\ pre \in Seq(Item) /\ n \in 0..2
      /\ \A k \in 1..n : pre[k] \in {a, b}
      /\ \A k, j \in 1..n : k < j => pre[k] = a
      /\ a.types # {} \/ a.ids # {} => \E k \in 1..n : pre[k] = a
      /\ b.types # {} \/ b.ids # {} => \E k \in 1..n : pre[k] = b
  <2>1. CASE Some(a) = <<>> /\ Some(b) = <<>>
    <3>1. pre = <<>> /\ n = 0
      BY <2>1, ConcatEmptySeq, EmptySeq
    <3>2. ~(a.types # {} \/ a.ids # {}) /\ ~(b.types # {} \/ b.ids # {})
      <4>1. <<a>> # <<>> /\ <<b>> # <<>>
        OBVIOUS
      <4> QED BY <2>1, <4>1, SomeIs
    <3>3. pre \in Seq(Item)
      BY <3>1, EmptySeq
    <3> HIDE DEF pre, n
    <3> QED BY <3>1, <3>2, <3>3
  <2>2. CASE Some(a) = <<a>> /\ Some(b) = <<>>
    BY <1>1, <2>2, SomeIs
  <2>3. CASE Some(a) = <<>> /\ Some(b) = <<b>>
    BY <1>1, <2>3, SomeIs
  <2>4. CASE Some(a) = <<a>> /\ Some(b) = <<b>>
    <3>1. /\ <<a>> \in Seq(Item) /\ Len(<<a>>) = 1 /\ <<a>>[1] = a
          /\ <<b>> \in Seq(Item) /\ Len(<<b>>) = 1 /\ <<b>>[1] = b
      OBVIOUS
    <3>2. pre \in Seq(Item) /\ n = 2 /\ pre[1] = a /\ pre[2] = b
      BY <2>4, <3>1, ConcatProperties
    <3> HIDE DEF pre, n
    <3> QED BY <3>2
  <2> QED BY <2>1, <2>2, <2>3, <2>4, SomeIs
<1> HIDE DEF pre
<1>3. /\ Tail(stack) \in Seq(Item) /\ Len(stack) \in Nat \ {0} /\ Len(Tail(stack)) = Len(stack) - 1
      /\ \A k \in 1..Len(Tail(stack)) : Tail(stack)[k] = stack[k + 1]
      /\ Head(stack) = stack[1]
  BY HeadTailProperties, EmptySeq, LenProperties
<1>4. new = pre \o Tail(stack)
  BY DEF pre
<1> HIDE DEF new
<1>5. /\ new \in Seq(Item) /\ Len(new) = n + Len(stack) - 1
      /\ \A k \in 1..n : new[k] = pre[k]
      /\ \A k \in (n + 1)..Len(new) : new[k] = Tail(stack)[k - n]
  <2>1. /\ pre \o Tail(stack) \in Seq(Item)
        /\ Len(pre \o Tail(stack)) = n + Len(Tail(stack))
        /\ \A k \in 1..n : (pre \o Tail(stack))[k] = pre[k]
        /\ \A k \in (n + 1)..(n + Len(Tail(stack))) : (pre \o Tail(stack))[k] = Tail(stack)[k - n]
    BY <1>2, <1>3, ConcatProperties
  <2> QED BY <1>2, <1>3, <1>4, <2>1
<1> HIDE DEF n
<1>7. \A k \in 2..Len(stack) : new[k + n - 1] = stack[k]
  <2> TAKE k \in 2..Len(stack)
  <2>1. PICK m \in (n + 1)..Len(new) : m = k + n - 1
    BY <1>2, <1>3, <1>5
  <2>2. new[m] = Tail(stack)[m - n]
    BY <1>5
  <2>3. m - n = k - 1 /\ k - 1 + 1 = k /\ k - 1 \in 1..Len(Tail(stack))
    BY <1>2, <1>3, <2>1
  <2>4. Tail(stack)[k - 1] = stack[k]
    BY <1>3, <2>3
  <2> QED BY <2>1, <2>2, <2>3, <2>4
<1>8. Len(new) \in Nat /\ Len(new) + 1 = n + Len(stack)
  BY <1>2, <1>3, <1>5
<1>9. Replaced(stack, a, b, new, n)
  BY <1>2, <1>5, <1>7, <1>8 DEF Replaced
<1>10. Pushes(stack, a, b, new)
  BY <1>2, <1>3, <1>5, <1>8, <1>9 DEF Pushes
<1> QED BY <1>10 DEF new

-----------------------------------------------------------------------------
(* Rows                                                                    *)

Statuses == {"resolved", "invalidated", "unset"}

(* An update opens no request and keeps status and resolve_time in step.   *)
LEMMA UpdatedRow ==
    ASSUME NEW row \in Row, NEW status \in Statuses
    PROVE  /\ Updated(row, status) \in Row
           /\ Updated(row, status).type = row.type
           /\ Updated(row, status).status = "opened" => row.status = "opened" /\ status = "unset"
           /\ (row.status = "opened" <=> ~row.resolved) =>
                 (Updated(row, status).status = "opened" <=> ~Updated(row, status).resolved)
<1>1. CASE status = "unset"
  BY <1>1 DEF Updated
<1>2. CASE status # "unset"
  BY <1>2 DEF Updated, Row, Status, Statuses
<1> QED BY <1>1, <1>2

LEMMA CascadeTyped ==
    ASSUME NEW row \in Row, NEW status \in Statuses
    PROVE  Cascade(row, status) \in SUBSET Types
  BY TypesKnown DEF Cascade, Row, Status, Statuses

(* A table in which rows were only closed or left as they are              *)
Closer(new, old) ==
    /\ DOMAIN new = DOMAIN old
    /\ \A i \in DOMAIN old :
          /\ new[i].type = old[i].type
          /\ new[i].status = "opened" => old[i].status = "opened"
          /\ (old[i].status = "opened" <=> ~old[i].resolved) =>
                (new[i].status = "opened" <=> ~new[i].resolved)

LEMMA CloserKeeps ==
    ASSUME NEW new, NEW old, Closer(new, old)
    PROVE  /\ Agrees(old) => Agrees(new)
           /\ OneOpenedIn(old) => OneOpenedIn(new)
  BY DEF Closer, Agrees, OneOpenedIn

(* One row of a table is updated.                                          *)
LEMMA UpdateCloses ==
    ASSUME NEW table \in Seq(Row), NEW i \in DOMAIN table, NEW status \in Statuses
    PROVE  LET new == [table EXCEPT ![i] = Updated(table[i], status)]
           IN new \in Seq(Row) /\ Closer(new, table)
<1>1. table[i] \in Row /\ i \in 1..Len(table)
  BY ElementOfSeq, LenProperties
<1>2. [table EXCEPT ![i] = Updated(table[i], status)] \in Seq(Row)
  BY <1>1, UpdatedRow, ExceptSeq
<1>3. Closer([table EXCEPT ![i] = Updated(table[i], status)], table)
  BY <1>1, UpdatedRow DEF Closer
<1> QED BY <1>2, <1>3

(* A letter is sent.                                                       *)
LEMMA SendingCloses ==
    ASSUME NEW table \in Seq(Row), NEW i \in DOMAIN table
    PROVE  LET new == [table EXCEPT ![i] = [table[i] EXCEPT !.letter = "sent"]]
           IN /\ new \in Seq(Row) /\ Closer(new, table) /\ Closer(table, new)
<1> DEFINE row == [table[i] EXCEPT !.letter = "sent"]
<1>1. table[i] \in Row /\ i \in 1..Len(table)
  BY ElementOfSeq, LenProperties
<1>2. /\ row \in Row /\ row.type = table[i].type /\ row.status = table[i].status
      /\ row.resolved = table[i].resolved
  BY <1>1 DEF Row
<1> HIDE DEF row
<1>3. [table EXCEPT ![i] = row] \in Seq(Row)
  BY <1>1, <1>2, ExceptSeq
<1>4. Closer([table EXCEPT ![i] = row], table) /\ Closer(table, [table EXCEPT ![i] = row])
  BY <1>1, <1>2 DEF Closer
<1> QED BY <1>3, <1>4 DEF row

-----------------------------------------------------------------------------
(* The invariant                                                           *)

LastItem(c) == IF c.kind = "create" THEN Insertion(c.type) ELSE Loop(c.type, c.status)

(* The last item is what the call is for; before it are rows to update and *)
(* types to cancel, for a creation only to invalidate them.                *)
Shaped(c, stack) ==
    \A k \in 1..Len(stack) :
        IF k = Len(stack) /\ c.kind # "one" THEN stack[k] = LastItem(c)
        ELSE /\ stack[k].do \in {"cancel", "update"}
             /\ c.kind = "create" => stack[k].status = "invalidated"

IdsKnown(stack, table) == \A k \in 1..Len(stack) : stack[k].ids \subseteq DOMAIN table

Pending(item, row, j) ==
    \/ item.do = "cancel" /\ row.type \in item.types
    \/ item.do = "update" /\ j \in item.ids

(* As long as the request is not inserted, every opened one of the types   *)
(* to cancel has yet to be dealt with.                                     *)
Covered(c, stack, table) ==
    c.kind = "create" /\ stack # <<>> =>
        \A j \in DOMAIN table :
            table[j].status = "opened" /\ table[j].type \in CancelOnCreate[c.type] =>
                \E k \in 1..Len(stack) : Pending(stack[k], table[j], j)

(* An update of all requests of a type ends with all of them closed.       *)
AllClosed(c, stack, table) ==
    c.kind = "all" /\ stack = <<>> =>
        \A j \in DOMAIN table : table[j].type = c.type => table[j].status # "opened"

OnCourse(c, stack, table) ==
    Shaped(c, stack) /\ IdsKnown(stack, table) /\ Covered(c, stack, table) /\ AllClosed(c, stack, table)

HolderOnCourse ==
    holder # None => OnCourse(call[holder], agenda, draft) /\ DOMAIN rows \subseteq DOMAIN draft

IdsExist == \A p \in Process : call[p] # None /\ call[p].kind = "one" => call[p].id \in DOMAIN rows

TablesRight ==
    Agrees(rows) /\ Agrees(draft) /\ OneOpenedIn(rows) /\ OneOpenedIn(draft)

IInv == TypeOK /\ TablesRight /\ IdsExist /\ HolderOnCourse

(* Nothing is opened in an empty table.                                    *)
LEMMA EmptyRight == DOMAIN <<>> = {} /\ Agrees(<<>>) /\ OneOpenedIn(<<>>)
<1>1. DOMAIN <<>> = {}
  OBVIOUS
<1> QED BY <1>1 DEF Agrees, OneOpenedIn

THEOREM InvInit == Init => IInv
<1> SUFFICES ASSUME Init PROVE IInv
  OBVIOUS
<1>1. TypeOK
  BY EmptySeq, NoneIsNothing DEF Init, TypeOK
<1>2. TablesRight /\ IdsExist /\ HolderOnCourse
  BY EmptyRight DEF Init, TablesRight, IdsExist, HolderOnCourse
<1> QED BY <1>1, <1>2 DEF IInv

-----------------------------------------------------------------------------
(* Steps of the holder                                                     *)

(* The holder of the lock and its call                                     *)
LEMMA HolderCall ==
    ASSUME NEW p \in Process, IInv, holder = p
    PROVE  /\ stage[p] = "working" /\ call[p] \in Calls /\ call[p] \in Call
           /\ OnCourse(call[p], agenda, draft) /\ DOMAIN rows \subseteq DOMAIN draft
  BY NoneIsNothing, TypesKnown DEF IInv, TypeOK, HolderOnCourse

(* What a step of the holder on its own table has to keep                  *)
LEMMA HolderKeepsInv ==
    ASSUME NEW p \in Process, IInv, holder = p, UNCHANGED <<rows, stage, call, holder>>,
           draft' \in Seq(Row), agenda' \in Seq(Item), affected' \subseteq Nat,
           Agrees(draft'), OneOpenedIn(draft'), DOMAIN draft \subseteq DOMAIN draft',
           OnCourse(call[p], agenda', draft')
    PROVE  IInv'
<1>1. TypeOK'
  BY DEF IInv, TypeOK
<1>2. TablesRight' /\ IdsExist'
  BY DEF IInv, TablesRight, IdsExist
<1>3. HolderOnCourse'
  BY HolderCall DEF HolderOnCourse
<1> QED BY <1>1, <1>2, <1>3 DEF IInv

(* The head of the stack is replaced by what is left of it.                *)
LEMMA PushedOnCourse ==
    ASSUME NEW c \in Call, NEW stack \in Seq(Item), stack # <<>>, NEW a \in Item, NEW b \in Item,
           NEW old, NEW table, OnCourse(c, stack, old), DOMAIN old = DOMAIN table,
           Head(stack).do \in {"cancel", "update"},
           a.do \in {"cancel", "update"}, b.do \in {"cancel", "update"},
           c.kind = "create" => a.status = "invalidated" /\ b.status = "invalidated",
           a.ids \subseteq DOMAIN table, b.ids \subseteq DOMAIN table,
           c.kind = "create" =>
              \A j \in DOMAIN table :
                  table[j].status = "opened" /\ table[j].type \in CancelOnCreate[c.type] =>
                      \/ Pending(a, table[j], j) \/ Pending(b, table[j], j)
                      \/ \E k \in 2..Len(stack) : Pending(stack[k], table[j], j)
    PROVE  LET new == Some(a) \o Some(b) \o Tail(stack)
           IN new \in Seq(Item) /\ OnCourse(c, new, table)
<1> DEFINE new == Some(a) \o Some(b) \o Tail(stack)
<1>a. Pushes(stack, a, b, new)
  BY Pushed
<1> HIDE DEF new
<1>1. PICK n \in 0..2 : Replaced(stack, a, b, new, n)
  BY <1>a DEF Pushes
<1>2. new \in Seq(Item) /\ Len(new) \in Nat /\ Len(stack) \in Nat \ {0}
  BY <1>a DEF Pushes
<1>3. stack[1].do \in {"cancel", "update"}
  BY <1>a DEF Pushes
<1>b. /\ Len(new) + 1 = n + Len(stack)
      /\ \A k \in 1..n : new[k] \in {a, b}
      /\ \A k \in 2..Len(stack) : new[k + n - 1] = stack[k]
      /\ a.types # {} \/ a.ids # {} => \E k \in 1..n : new[k] = a
      /\ b.types # {} \/ b.ids # {} => \E k \in 1..n : new[k] = b
  BY <1>1 DEF Replaced
<1>4. c.kind # "one" => Len(stack) > 1
  BY <1>2, <1>3 DEF OnCourse, Shaped, LastItem, Insertion, Loop, Call
<1>5. \A k \in 1..Len(new) :
         \/ k \in 1..n /\ new[k] \in {a, b} /\ (k = Len(new) => c.kind = "one")
         \/ \E i \in 2..Len(stack) :
               new[k] = stack[i] /\ (k = Len(new) <=> i = Len(stack))
  <2> TAKE k \in 1..Len(new)
  <2>1. CASE k \in 1..n
    BY <1>b, <1>2, <1>4, <2>1
  <2>2. CASE k \notin 1..n
    <3> DEFINE i == k - n + 1
    <3>1. i \in 2..Len(stack) /\ i + n - 1 = k /\ (k = Len(new) <=> i = Len(stack))
      BY <1>b, <1>2, <2>2
    <3>2. new[k] = stack[i]
      BY <1>b, <3>1
    <3> QED BY <3>1, <3>2
  <2> QED BY <2>1, <2>2
<1>c. Shaped(c, stack) /\ IdsKnown(stack, old)
  BY DEF OnCourse
<1>6. Shaped(c, new)
  <2> SUFFICES ASSUME NEW k \in 1..Len(new)
               PROVE  IF k = Len(new) /\ c.kind # "one" THEN new[k] = LastItem(c)
                      ELSE /\ new[k].do \in {"cancel", "update"}
                           /\ c.kind = "create" => new[k].status = "invalidated"
    BY DEF Shaped
  <2>1. CASE k \in 1..n /\ new[k] \in {a, b} /\ (k = Len(new) => c.kind = "one")
    BY <2>1
  <2>2. ASSUME NEW i \in 2..Len(stack), new[k] = stack[i], k = Len(new) <=> i = Len(stack)
        PROVE  IF k = Len(new) /\ c.kind # "one" THEN new[k] = LastItem(c)
               ELSE /\ new[k].do \in {"cancel", "update"}
                    /\ c.kind = "create" => new[k].status = "invalidated"
    <3>1. i \in 1..Len(stack)
      BY <1>2
    <3> QED BY <1>c, <2>2, <3>1 DEF Shaped
  <2> QED BY <1>5, <2>1, <2>2
<1>7. IdsKnown(new, table)
  <2> SUFFICES ASSUME NEW k \in 1..Len(new) PROVE new[k].ids \subseteq DOMAIN table
    BY DEF IdsKnown
  <2>1. ASSUME NEW i \in 2..Len(stack), new[k] = stack[i] PROVE new[k].ids \subseteq DOMAIN table
    BY <1>2, <1>c, <2>1 DEF IdsKnown
  <2> QED BY <1>5, <2>1
<1>8. Covered(c, new, table)
  <2> SUFFICES ASSUME c.kind = "create", NEW j \in DOMAIN table, table[j].status = "opened",
                      table[j].type \in CancelOnCreate[c.type]
               PROVE  \E k \in 1..Len(new) : Pending(new[k], table[j], j)
    BY DEF Covered
  <2>1. CASE Pending(a, table[j], j)
    <3>1. PICK k \in 1..n : new[k] = a
      BY <1>b, <2>1 DEF Pending
    <3>2. k \in 1..Len(new)
      BY <1>b, <1>2, <3>1
    <3> QED BY <2>1, <3>1, <3>2
  <2>2. CASE Pending(b, table[j], j)
    <3>1. PICK k \in 1..n : new[k] = b
      BY <1>b, <2>2 DEF Pending
    <3>2. k \in 1..Len(new)
      BY <1>b, <1>2, <3>1
    <3> QED BY <2>2, <3>1, <3>2
  <2>3. ASSUME NEW k \in 2..Len(stack), Pending(stack[k], table[j], j)
        PROVE  \E i \in 1..Len(new) : Pending(new[i], table[j], j)
    <3>1. k + n - 1 \in 1..Len(new) /\ new[k + n - 1] = stack[k]
      BY <1>b, <1>2
    <3> QED BY <2>3, <3>1
  <2> QED BY <2>1, <2>2, <2>3
<1>9. AllClosed(c, new, table)
  <2>1. c.kind = "all" => Len(new) # 0
    BY <1>b, <1>2, <1>4
  <2>2. Len(<<>>) = 0
    OBVIOUS
  <2> QED BY <2>1, <2>2 DEF AllClosed
<1> QED BY <1>2, <1>6, <1>7, <1>8, <1>9 DEF OnCourse, new
(* Closing requests keeps the holder on course.                            *)
LEMMA ClosingOnCourse ==
    ASSUME NEW c, NEW stack, NEW old, NEW table, OnCourse(c, stack, old), Closer(table, old)
    PROVE  OnCourse(c, stack, table)
<1>1. Shaped(c, stack) /\ IdsKnown(stack, table)
  BY DEF OnCourse, IdsKnown, Closer
<1>2. Covered(c, stack, table)
  BY DEF OnCourse, Covered, Closer, Pending
<1>3. AllClosed(c, stack, table)
  BY DEF OnCourse, AllClosed, Closer
<1> QED BY <1>1, <1>2, <1>3 DEF OnCourse

(* The head of the agenda and its place in it                              *)
LEMMA HeadOfAgenda ==
    ASSUME NEW p \in Process, IInv, holder = p, agenda # <<>>
    PROVE  /\ agenda \in Seq(Item) /\ draft \in Seq(Row)
           /\ Head(agenda) = agenda[1] /\ Head(agenda) \in Item
           /\ Len(agenda) \in Nat \ {0} /\ 1 \in 1..Len(agenda)
           /\ Head(agenda).ids \subseteq DOMAIN draft
           /\ Head(agenda).do \notin {"cancel", "update"} =>
                 /\ Len(agenda) = 1 /\ call[p].kind # "one"
                 /\ Head(agenda) = LastItem(call[p]) /\ Tail(agenda) = <<>>
           /\ Head(agenda).do \in {"cancel", "update"} /\ call[p].kind = "create" =>
                 Head(agenda).status = "invalidated"
<1>1. agenda \in Seq(Item) /\ draft \in Seq(Row)
  BY DEF IInv, TypeOK
<1>2. /\ Head(agenda) = agenda[1] /\ Head(agenda) \in Item
      /\ Len(agenda) \in Nat \ {0} /\ 1 \in 1..Len(agenda)
  BY <1>1, HeadTailProperties, EmptySeq, LenProperties
<1>3. Shaped(call[p], agenda) /\ IdsKnown(agenda, draft)
  BY HolderCall DEF OnCourse
<1>4. Head(agenda).do \notin {"cancel", "update"} =>
         Len(agenda) = 1 /\ call[p].kind # "one" /\ Head(agenda) = LastItem(call[p])
  BY <1>2, <1>3 DEF Shaped
<1>5. Len(agenda) = 1 => Tail(agenda) = <<>>
  <2>1. Tail(agenda) \in Seq(Item) /\ Len(Tail(agenda)) = Len(agenda) - 1
    BY <1>1, HeadTailProperties
  <2>2. Len(Tail(agenda)) = 0 => Tail(agenda) = <<>>
    BY <2>1, EmptySeq
  <2> QED BY <2>1, <2>2
<1>6. /\ Head(agenda).ids \subseteq DOMAIN draft
      /\ Head(agenda).do \in {"cancel", "update"} /\ call[p].kind = "create" =>
            Head(agenda).status = "invalidated"
  BY <1>2, <1>3 DEF Shaped, IdsKnown, LastItem, Insertion
<1> QED BY <1>1, <1>2, <1>4, <1>5, <1>6

LEMMA ListOpenedKeepsInv ==
    ASSUME NEW p \in Process, IInv, ListOpened(p)
    PROVE  IInv'
<1>1. holder = p /\ agenda # <<>> /\ Head(agenda).do = "cancel"
  BY DEF ListOpened, Doing
<1> DEFINE item == Head(agenda)
           c == call[p]
<1>2. /\ agenda \in Seq(Item) /\ draft \in Seq(Row) /\ item = agenda[1] /\ item \in Item
      /\ c \in Call /\ OnCourse(c, agenda, draft)
  BY <1>1, HeadOfAgenda, HolderCall
<1>3. PICK type \in item.types :
         agenda' = Some(UpdateRows(OpenedOf(type), "invalidated", FALSE))
                   \o Some(CancelTypes(item.types \ {type})) \o Tail(agenda)
  BY DEF ListOpened
<1> DEFINE a == UpdateRows(OpenedOf(type), "invalidated", FALSE)
           b == CancelTypes(item.types \ {type})
<1>4. OpenedOf(type) \subseteq DOMAIN draft /\ DOMAIN draft \subseteq Nat
  BY <1>2, LenProperties DEF OpenedOf
<1>5. a \in Item /\ b \in Item
  BY <1>2, <1>4 DEF Item, UpdateRows, CancelTypes
<1>6. c.kind = "create" =>
         \A j \in DOMAIN draft :
             draft[j].status = "opened" /\ draft[j].type \in CancelOnCreate[c.type] =>
                 \/ Pending(a, draft[j], j) \/ Pending(b, draft[j], j)
                 \/ \E k \in 2..Len(agenda) : Pending(agenda[k], draft[j], j)
  <2> SUFFICES ASSUME c.kind = "create", NEW j \in DOMAIN draft, draft[j].status = "opened",
                      draft[j].type \in CancelOnCreate[c.type]
               PROVE  \/ Pending(a, draft[j], j) \/ Pending(b, draft[j], j)
                      \/ \E k \in 2..Len(agenda) : Pending(agenda[k], draft[j], j)
    OBVIOUS
  <2>1. PICK k \in 1..Len(agenda) : Pending(agenda[k], draft[j], j)
    BY <1>1, <1>2 DEF OnCourse, Covered
  <2>2. CASE k = 1
    <3>1. draft[j].type \in item.types
      BY <1>1, <1>2, <2>1, <2>2 DEF Pending
    <3>2. draft[j].type = type => j \in OpenedOf(type)
      BY DEF OpenedOf
    <3> QED BY <3>1, <3>2 DEF Pending, UpdateRows, CancelTypes
  <2>3. CASE k # 1
    <3>1. k \in 2..Len(agenda)
      BY <2>3
    <3> QED BY <2>1, <3>1
  <2> QED BY <2>2, <2>3
<1>7. /\ a.do \in {"cancel", "update"} /\ b.do \in {"cancel", "update"}
      /\ a.status = "invalidated" /\ b.status = "invalidated"
      /\ a.ids \subseteq DOMAIN draft /\ b.ids \subseteq DOMAIN draft
  BY <1>4 DEF UpdateRows, CancelTypes
<1> HIDE DEF a, b, c
<1>8. agenda' \in Seq(Item) /\ OnCourse(c, agenda', draft)
  BY <1>1, <1>2, <1>3, <1>5, <1>6, <1>7, PushedOnCourse DEF a, b
<1>9. UNCHANGED <<rows, stage, call, holder, draft, affected>>
  BY DEF ListOpened
<1> QED BY <1>1, <1>8, <1>9, HolderKeepsInv DEF IInv, TypeOK, TablesRight, c
LEMMA UpdateOneKeepsInv ==
    ASSUME NEW p \in Process, IInv, UpdateOne(p)
    PROVE  IInv'
<1> DEFINE item == Head(agenda)
           c == call[p]
<1>1. holder = p /\ agenda # <<>> /\ item.do = "update"
  BY DEF UpdateOne, Doing
<1>2. /\ agenda \in Seq(Item) /\ draft \in Seq(Row) /\ item = agenda[1] /\ item \in Item
      /\ item.ids \subseteq DOMAIN draft /\ (c.kind = "create" => item.status = "invalidated")
      /\ c \in Call /\ OnCourse(c, agenda, draft)
  BY <1>1, HeadOfAgenda, HolderCall
<1>3. PICK i \in item.ids :
         /\ draft' = [draft EXCEPT ![i] = Updated(draft[i], item.status)]
         /\ agenda' = Some(CancelTypes(Cascade(draft[i], item.status)))
                      \o Some(UpdateRows(item.ids \ {i}, item.status, item.direct))
                      \o Tail(agenda)
         /\ affected' = IF item.direct THEN affected \cup {i} ELSE affected
  BY DEF UpdateOne
<1> DEFINE a == CancelTypes(Cascade(draft[i], item.status))
           b == UpdateRows(item.ids \ {i}, item.status, item.direct)
<1>4. /\ i \in DOMAIN draft /\ i \in Nat /\ draft[i] \in Row
      /\ item.status \in Statuses /\ item.ids \subseteq Nat /\ item.direct \in BOOLEAN
  BY <1>2, LenProperties, ElementOfSeq DEF Item, Statuses
<1>5. a \in Item /\ b \in Item
  BY <1>4, CascadeTyped DEF Item, UpdateRows, CancelTypes, Statuses
<1>6. draft' \in Seq(Row) /\ Closer(draft', draft)
  BY <1>2, <1>3, <1>4, UpdateCloses
<1>7. c.kind = "create" => draft'[i].status # "opened"
  BY <1>2, <1>3, <1>4, UpdatedRow
<1>8. c.kind = "create" =>
         \A j \in DOMAIN draft' :
             draft'[j].status = "opened" /\ draft'[j].type \in CancelOnCreate[c.type] =>
                 \/ Pending(a, draft'[j], j) \/ Pending(b, draft'[j], j)
                 \/ \E k \in 2..Len(agenda) : Pending(agenda[k], draft'[j], j)
  <2> SUFFICES ASSUME c.kind = "create", NEW j \in DOMAIN draft', draft'[j].status = "opened",
                      draft'[j].type \in CancelOnCreate[c.type]
               PROVE  \/ Pending(b, draft'[j], j)
                      \/ \E k \in 2..Len(agenda) : Pending(agenda[k], draft'[j], j)
    OBVIOUS
  <2>1. /\ j \in DOMAIN draft /\ draft[j].status = "opened" /\ draft[j].type = draft'[j].type
        /\ j # i
    BY <1>6, <1>7 DEF Closer
  <2>2. PICK k \in 1..Len(agenda) : Pending(agenda[k], draft[j], j)
    BY <1>1, <1>2, <2>1 DEF OnCourse, Covered
  <2>3. CASE k = 1
    <3>1. j \in item.ids \ {i}
      BY <1>1, <1>2, <2>1, <2>2, <2>3 DEF Pending
    <3> QED BY <3>1 DEF Pending, UpdateRows
  <2>4. CASE k # 1
    <3>1. k \in 2..Len(agenda)
      BY <2>4
    <3>2. Pending(agenda[k], draft'[j], j)
      BY <2>1, <2>2 DEF Pending
    <3> QED BY <3>1, <3>2
  <2> QED BY <2>3, <2>4
<1>9. /\ a.do \in {"cancel", "update"} /\ b.do \in {"cancel", "update"}
      /\ a.status = "invalidated" /\ (c.kind = "create" => b.status = "invalidated")
      /\ a.ids \subseteq DOMAIN draft' /\ b.ids \subseteq DOMAIN draft'
  BY <1>2, <1>6 DEF UpdateRows, CancelTypes, Closer
<1>10. DOMAIN draft = DOMAIN draft'
  BY <1>6 DEF Closer
<1> HIDE DEF a, b, c
<1>11. agenda' \in Seq(Item) /\ OnCourse(c, agenda', draft')
  BY <1>1, <1>2, <1>3, <1>5, <1>8, <1>9, <1>10, PushedOnCourse DEF a, b
<1>12. affected' \subseteq Nat /\ Agrees(draft') /\ OneOpenedIn(draft')
  BY <1>3, <1>4, <1>6, CloserKeeps DEF IInv, TypeOK, TablesRight
<1>13. UNCHANGED <<rows, stage, call, holder>>
  BY DEF UpdateOne
<1> QED BY <1>1, <1>6, <1>10, <1>11, <1>12, <1>13, HolderKeepsInv DEF c

(* One item on the last one                                                *)
LEMMA PushedOne ==
    ASSUME NEW stack \in Seq(Item), Len(stack) = 1, NEW u \in Item
    PROVE  /\ <<u>> \o stack \in Seq(Item) /\ Len(<<u>> \o stack) = 2
           /\ (<<u>> \o stack)[1] = u /\ (<<u>> \o stack)[2] = stack[1]
<1> DEFINE one == <<u>>
<1>1. one \in Seq(Item) /\ Len(one) = 1 /\ one[1] = u
  OBVIOUS
<1> HIDE DEF one
<1>2. one \o stack \in Seq(Item) /\ Len(one \o stack) = Len(one) + Len(stack)
  BY <1>1, ConcatProperties
<1>3. \A i \in 1..Len(one) + Len(stack) :
         (one \o stack)[i] = IF i <= Len(one) THEN one[i] ELSE stack[i - Len(one)]
  BY <1>1, ConcatProperties
<1>4. (one \o stack)[1] = u
  BY <1>1, <1>3
<1>5. (one \o stack)[2] = stack[1]
  <2>1. 2 \in 1..Len(one) + Len(stack) /\ ~(2 <= Len(one)) /\ 2 - Len(one) = 1
    BY <1>1
  <2>2. (one \o stack)[2] = IF 2 <= Len(one) THEN one[2] ELSE stack[2 - Len(one)]
    BY <1>3, <2>1
  <2> QED BY <2>1, <2>2
<1>6. Len(one \o stack) = 2
  BY <1>1, <1>2
<1> QED BY <1>2, <1>4, <1>5, <1>6 DEF one

LEMMA FindUnresolvedKeepsInv ==
    ASSUME NEW p \in Process, IInv, FindUnresolved(p)
    PROVE  IInv'
<1> DEFINE item == Head(agenda)
           c == call[p]
           open == UNION {UnresolvedOf(type) : type \in item.types}
<1>1. holder = p /\ agenda # <<>> /\ item.do = "loop"
  BY DEF FindUnresolved, Doing
<1>2. /\ agenda \in Seq(Item) /\ draft \in Seq(Row) /\ item = agenda[1] /\ item \in Item
      /\ Len(agenda) = 1 /\ c.kind # "one" /\ item = LastItem(c) /\ Tail(agenda) = <<>>
      /\ c \in Call /\ OnCourse(c, agenda, draft)
  BY <1>1, HeadOfAgenda, HolderCall
<1>3. c.kind = "all" /\ item = Loop(c.type, c.status) /\ item.types = {c.type}
      /\ item.status \in Statuses
  BY <1>1, <1>2 DEF LastItem, Insertion, Loop, Call, Statuses
<1>4. UNCHANGED <<rows, stage, call, holder, draft, affected>>
  BY DEF FindUnresolved
<1>5. open = UnresolvedOf(c.type)
  BY <1>3
<1>6. CASE open = {}
  <2>1. agenda' = <<>>
    BY <1>2, <1>6 DEF FindUnresolved
  <2>2. Len(<<>>) = 0 /\ <<>> \in Seq(Item)
    BY EmptySeq
  <2>3. AllClosed(c, <<>>, draft)
    BY <1>5, <1>6 DEF AllClosed, UnresolvedOf, IInv, TablesRight, Agrees
  <2>4. OnCourse(c, <<>>, draft)
    BY <2>2, <2>3 DEF OnCourse, Shaped, IdsKnown, Covered
  <2> QED BY <1>1, <1>4, <2>1, <2>2, <2>4, HolderKeepsInv DEF IInv, TypeOK, TablesRight
<1>7. CASE open # {}
  <2>1. PICK i \in open : agenda' = <<UpdateRows({i}, item.status, TRUE)>> \o agenda
    BY <1>7 DEF FindUnresolved
  <2> DEFINE u == UpdateRows({i}, item.status, TRUE)
  <2>2. i \in DOMAIN draft /\ i \in Nat
    BY <1>2, <1>5, LenProperties DEF UnresolvedOf
  <2>3. u \in Item /\ u.do = "update" /\ u.ids = {i}
    BY <1>3, <2>2 DEF UpdateRows, Item, Statuses
  <2> HIDE DEF u
  <2>4. /\ agenda' \in Seq(Item) /\ Len(agenda') = 2 /\ agenda'[1] = u /\ agenda'[2] = item
    <3>1. agenda' = <<u>> \o agenda
      BY <2>1 DEF u
    <3>2. agenda \in Seq(Item) /\ Len(agenda) = 1 /\ u \in Item /\ agenda[1] = item
      BY <1>2, <2>3
    <3> HIDE DEF item
    <3>3. /\ <<u>> \o agenda \in Seq(Item) /\ Len(<<u>> \o agenda) = 2
          /\ (<<u>> \o agenda)[1] = u /\ (<<u>> \o agenda)[2] = agenda[1]
      BY <3>2, PushedOne
    <3> QED BY <3>1, <3>2, <3>3
  <2>5. Shaped(c, agenda')
    BY <1>2, <1>3, <2>3, <2>4 DEF Shaped
  <2>6. IdsKnown(agenda', draft)
    BY <1>3, <2>2, <2>3, <2>4 DEF IdsKnown, Loop
  <2>7. agenda' # <<>>
    <3>1. Len(<<>>) = 0
      BY EmptySeq
    <3>2. Len(agenda') = 2
      BY <2>4
    <3> QED BY <3>1, <3>2
  <2>8. OnCourse(c, agenda', draft)
    BY <1>3, <2>5, <2>6, <2>7 DEF OnCourse, Covered, AllClosed
  <2> QED BY <1>1, <1>4, <2>4, <2>8, HolderKeepsInv DEF IInv, TypeOK, TablesRight
<1> QED BY <1>6, <1>7
LEMMA InsertKeepsInv ==
    ASSUME NEW p \in Process, IInv, Insert(p)
    PROVE  IInv'
<1> DEFINE item == Head(agenda)
           c == call[p]
<1>1. holder = p /\ agenda # <<>> /\ item.do = "insert"
  BY DEF Insert, Doing
<1>2. /\ agenda \in Seq(Item) /\ draft \in Seq(Row) /\ item = agenda[1] /\ item \in Item
      /\ Len(agenda) = 1 /\ c.kind # "one" /\ item = LastItem(c) /\ Tail(agenda) = <<>>
      /\ c \in Call /\ OnCourse(c, agenda, draft)
  BY <1>1, HeadOfAgenda, HolderCall
<1>3. c.kind = "create" /\ item.types = {c.type} /\ c.type \in Types
  BY <1>1, <1>2 DEF LastItem, Insertion, Loop, Call
<1>4. PICK letter \in {"none", "ready"} :
         draft' = Append(draft, [type |-> c.type, status |-> "opened", resolved |-> FALSE,
                                 letter |-> letter])
  BY <1>3 DEF Insert
<1> DEFINE row == [type |-> c.type, status |-> "opened", resolved |-> FALSE, letter |-> letter]
           n == Len(draft)
<1>5. /\ row \in Row /\ row.type = c.type /\ row.status = "opened" /\ row.resolved = FALSE
  BY <1>3 DEF Row, Status
<1> HIDE DEF row, c
<1>6. /\ n \in Nat /\ draft' \in Seq(Row) /\ DOMAIN draft = 1..n /\ DOMAIN draft' = 1..(n + 1)
      /\ draft'[n + 1] = row /\ \A j \in 1..n : draft'[j] = draft[j]
  <2>1. /\ Append(draft, row) \in Seq(Row) /\ Len(Append(draft, row)) = n + 1
        /\ Append(draft, row)[n + 1] = row
        /\ \A j \in 1..n : Append(draft, row)[j] = draft[j]
    BY <1>2, <1>5, AppendProperties
  <2>2. n \in Nat /\ DOMAIN draft = 1..n
    BY <1>2, LenProperties
  <2>3. DOMAIN Append(draft, row) = 1..(n + 1)
    BY <2>1, LenProperties
  <2>4. draft' = Append(draft, row)
    BY <1>4 DEF row
  <2> QED BY <2>1, <2>2, <2>3, <2>4
<1> HIDE DEF n
<1>7. /\ Agrees(draft) /\ OneOpenedIn(draft)
  BY DEF IInv, TablesRight
<1>8. Agrees(draft')
  <2> SUFFICES ASSUME NEW j \in 1..(n + 1) PROVE draft'[j].status = "opened" <=> ~draft'[j].resolved
    BY <1>6 DEF Agrees
  <2>1. j \in 1..n \/ j = n + 1
    BY <1>6
  <2> QED BY <1>5, <1>6, <1>7, <2>1 DEF Agrees
<1>9. \A j \in 1..n : draft[j].status = "opened" => draft[j].type \notin CancelOnCreate[c.type]
  <2> SUFFICES ASSUME NEW j \in 1..n, draft[j].status = "opened",
                      draft[j].type \in CancelOnCreate[c.type]
               PROVE  FALSE
    OBVIOUS
  <2>1. PICK k \in 1..Len(agenda) : Pending(agenda[k], draft[j], j)
    BY <1>1, <1>2, <1>3, <1>6 DEF OnCourse, Covered
  <2> QED BY <1>1, <1>2, <2>1 DEF Pending
<1>10. OneOpenedIn(draft')
  <2> SUFFICES ASSUME NEW i \in 1..(n + 1), NEW j \in 1..(n + 1),
                      draft'[i].status = "opened", draft'[j].status = "opened",
                      draft'[i].type = draft'[j].type,
                      draft'[i].type \in CancelOnCreate[draft'[i].type]
               PROVE  i = j
    BY <1>6 DEF OneOpenedIn
  <2>1. CASE i \in 1..n /\ j \in 1..n
    BY <1>6, <1>7, <2>1 DEF OneOpenedIn
  <2>2. CASE i \in 1..n /\ j = n + 1
    BY <1>5, <1>6, <1>9, <2>2
  <2>3. CASE i = n + 1 /\ j \in 1..n
    BY <1>5, <1>6, <1>9, <2>3
  <2> QED BY <1>6, <2>1, <2>2, <2>3
<1>11. agenda' = <<>> /\ UNCHANGED <<rows, stage, call, holder, affected>>
  BY <1>2 DEF Insert
<1>12. OnCourse(c, <<>>, draft')
  <2>1. Len(<<>>) = 0
    BY EmptySeq
  <2> QED BY <1>3, <2>1 DEF OnCourse, Shaped, IdsKnown, Covered, AllClosed
<1>13. DOMAIN draft \subseteq DOMAIN draft' /\ agenda' \in Seq(Item)
  BY <1>6, <1>11, EmptySeq
<1> QED BY <1>1, <1>6, <1>8, <1>10, <1>11, <1>12, <1>13, HolderKeepsInv DEF c, IInv, TypeOK

-----------------------------------------------------------------------------
(* Steps by which a transaction begins, gets the lock and ends             *)

LEMMA BeginKeepsInv ==
    ASSUME NEW p \in Process, IInv, Begin(p)
    PROVE  IInv'
<1>1. TypeOK'
  BY NoneIsNothing DEF IInv, TypeOK, Begin
<1>2. TablesRight' /\ IdsExist'
  BY NoneIsNothing DEF IInv, TypeOK, TablesRight, IdsExist, Begin
<1>3. HolderOnCourse'
  <2>1. p # holder
    BY DEF IInv, TypeOK, Begin
  <2>2. call'[holder] = call[holder]
    BY <2>1 DEF IInv, TypeOK, Begin
  <2> QED BY <2>2 DEF IInv, HolderOnCourse, Begin
<1> QED BY <1>1, <1>2, <1>3 DEF IInv

(* What is planned for a call                                              *)
LEMMA PlanOnCourse ==
    ASSUME NEW c \in Call, NEW table \in Seq(Row), c.kind = "one" => c.id \in DOMAIN table
    PROVE  Plan(c) \in Seq(Item) /\ OnCourse(c, Plan(c), table)
<1>1. CASE c.kind = "create"
  <2> DEFINE a == CancelTypes(CancelOnCreate[c.type])
             last == Insertion(c.type)
  <2>1. /\ a \in Item /\ last \in Item /\ a.do = "cancel" /\ a.status = "invalidated"
        /\ a.ids = {} /\ last.ids = {} /\ a.types = CancelOnCreate[c.type]
        /\ last = LastItem(c)
    BY <1>1, TypesKnown DEF Call, Item, CancelTypes, Insertion, LastItem
  <2>2. Plan(c) = Some(a) \o <<last>>
    BY <1>1 DEF Plan
  <2> HIDE DEF a, last
  <2>3. <<last>> \in Seq(Item) /\ Len(<<last>>) = 1 /\ <<last>>[1] = last
    BY <2>1
  <2>4. <<a>> \in Seq(Item) /\ Len(<<a>>) = 1 /\ <<a>>[1] = a
    BY <2>1
  <2>5. CASE Some(a) = <<>> /\ a.types = {}
    <3>1. Plan(c) = <<last>>
      BY <2>2, <2>3, <2>5, ConcatEmptySeq
    <3>2. Shaped(c, <<last>>) /\ IdsKnown(<<last>>, table)
      BY <1>1, <2>1, <2>3 DEF Shaped, IdsKnown
    <3>3. Covered(c, <<last>>, table) /\ AllClosed(c, <<last>>, table)
      BY <1>1, <2>1, <2>5 DEF Covered, AllClosed
    <3> QED BY <2>3, <3>1, <3>2, <3>3 DEF OnCourse
  <2>6. CASE Some(a) = <<a>>
    <3>1. /\ Plan(c) \in Seq(Item) /\ Len(Plan(c)) = 1 + 1
          /\ Plan(c)[1] = a /\ Plan(c)[1 + 1] = last
      BY <2>2, <2>3, <2>4, <2>6, ConcatProperties
    <3>2. Shaped(c, Plan(c)) /\ IdsKnown(Plan(c), table)
      BY <1>1, <2>1, <3>1 DEF Shaped, IdsKnown
    <3>3. Covered(c, Plan(c), table) /\ AllClosed(c, Plan(c), table)
      BY <1>1, <2>1, <3>1 DEF Covered, AllClosed, Pending
    <3> QED BY <3>1, <3>2, <3>3 DEF OnCourse
  <2>7. Some(a) = <<>> => a.types = {}
    <3>1. <<a>> # <<>>
      OBVIOUS
    <3> QED BY <2>1, <3>1, SomeIs
  <2> QED BY <2>1, <2>5, <2>6, <2>7, SomeIs
<1>2. CASE c.kind = "one"
  <2> DEFINE u == UpdateRows({c.id}, c.status, TRUE)
  <2>1. u \in Item /\ u.do = "update" /\ u.ids = {c.id}
    BY DEF Call, Item, UpdateRows
  <2>2. Plan(c) = <<u>>
    BY <1>2 DEF Plan
  <2> HIDE DEF u
  <2>3. <<u>> \in Seq(Item) /\ Len(<<u>>) = 1 /\ <<u>>[1] = u
    BY <2>1
  <2>4. OnCourse(c, <<u>>, table)
    BY <1>2, <2>1, <2>3 DEF OnCourse, Shaped, IdsKnown, Covered, AllClosed
  <2> QED BY <2>2, <2>3, <2>4
<1>3. CASE c.kind = "all"
  <2> DEFINE loop == Loop(c.type, c.status)
  <2>1. loop \in Item /\ loop = LastItem(c) /\ loop.ids = {}
    BY <1>3 DEF Call, Item, Loop, LastItem
  <2>2. Plan(c) = <<loop>>
    BY <1>3 DEF Plan
  <2> HIDE DEF loop
  <2>3. <<loop>> \in Seq(Item) /\ Len(<<loop>>) = 1 /\ <<loop>>[1] = loop
    BY <2>1
  <2>4. Shaped(c, <<loop>>) /\ IdsKnown(<<loop>>, table)
    BY <1>3, <2>1, <2>3 DEF Shaped, IdsKnown
  <2>5. Covered(c, <<loop>>, table) /\ AllClosed(c, <<loop>>, table)
    <3>1. <<loop>> # <<>>
      OBVIOUS
    <3> QED BY <1>3, <3>1 DEF Covered, AllClosed
  <2> QED BY <2>2, <2>3, <2>4, <2>5 DEF OnCourse
<1> QED BY <1>1, <1>2, <1>3 DEF Call

LEMMA LockKeepsInv ==
    ASSUME NEW p \in Process, IInv, Lock(p)
    PROVE  IInv'
<1>1. call[p] \in Calls /\ call[p] \in Call
  BY TypesKnown DEF IInv, TypeOK, Lock
<1>2. call[p].kind = "one" => call[p].id \in DOMAIN rows
  BY <1>1, NoneIsNothing DEF IInv, IdsExist
<1>3. rows \in Seq(Row)
  BY DEF IInv, TypeOK
<1>4. agenda' \in Seq(Item) /\ OnCourse(call[p], agenda', rows)
  BY <1>1, <1>2, <1>3, PlanOnCourse DEF Lock
<1>5. TypeOK'
  BY <1>4, NoneIsNothing DEF IInv, TypeOK, Lock
<1>6. TablesRight' /\ IdsExist'
  BY DEF IInv, TablesRight, IdsExist, Lock
<1>7. HolderOnCourse'
  BY <1>4 DEF HolderOnCourse, Lock
<1> QED BY <1>5, <1>6, <1>7 DEF IInv

(* COMMIT makes the draft the table, ROLLBACK leaves the table.            *)
LEMMA EndKeepsInv ==
    ASSUME NEW p \in Process, IInv, End(p),
           \/ rows' = rows
           \/ holder = p /\ rows' = draft
    PROVE  IInv'
<1>1. rows' \in Seq(Row) /\ Agrees(rows') /\ OneOpenedIn(rows') /\ DOMAIN rows \subseteq DOMAIN rows'
  BY NoneIsNothing DEF IInv, TypeOK, TablesRight, HolderOnCourse
<1>2. CASE holder = p
  <2>1. holder' = None /\ draft' = <<>> /\ agenda' = <<>> /\ affected' = {}
    BY <1>2 DEF End
  <2>2. TypeOK'
    BY <1>1, <1>2, <2>1, EmptySeq, NoneIsNothing DEF IInv, TypeOK, End
  <2>3. TablesRight' /\ HolderOnCourse'
    BY <1>1, <2>1, EmptyRight DEF TablesRight, HolderOnCourse
  <2>4. IdsExist'
    BY <1>1 DEF IInv, TypeOK, IdsExist, End
  <2> QED BY <2>2, <2>3, <2>4 DEF IInv
<1>3. CASE holder # p
  <2>1. UNCHANGED <<rows, holder, draft, agenda, affected>>
    BY <1>3 DEF End
  <2>2. TypeOK'
    BY <1>3, <2>1, NoneIsNothing DEF IInv, TypeOK, End
  <2>3. TablesRight' /\ HolderOnCourse'
    BY <1>3, <2>1 DEF IInv, TypeOK, TablesRight, HolderOnCourse, End
  <2>4. IdsExist'
    BY <1>1 DEF IInv, TypeOK, IdsExist, End
  <2> QED BY <2>2, <2>3, <2>4 DEF IInv
<1> QED BY <1>2, <1>3

LEMMA SendLetterKeepsInv ==
    ASSUME NEW i \in DOMAIN rows, IInv, SendLetter(i)
    PROVE  IInv'
<1>1. rows \in Seq(Row) /\ draft \in Seq(Row)
  BY DEF IInv, TypeOK
<1>2. rows' \in Seq(Row) /\ Closer(rows', rows)
  BY <1>1, SendingCloses DEF SendLetter
<1>3. draft' \in Seq(Row) /\ (draft' = draft \/ Closer(draft', draft))
  BY <1>1, SendingCloses DEF SendLetter, IInv, HolderOnCourse
<1>4. DOMAIN rows' = DOMAIN rows /\ DOMAIN draft' = DOMAIN draft
  BY <1>2, <1>3 DEF Closer
<1>5. TypeOK'
  BY <1>2, <1>3 DEF IInv, TypeOK, SendLetter
<1>6. TablesRight' /\ IdsExist'
  BY <1>2, <1>3, <1>4, CloserKeeps DEF IInv, TablesRight, IdsExist, SendLetter
<1>7. HolderOnCourse'
  BY <1>3, <1>4, ClosingOnCourse DEF IInv, HolderOnCourse, SendLetter
<1> QED BY <1>5, <1>6, <1>7 DEF IInv

-----------------------------------------------------------------------------
(* The theorems                                                            *)

THEOREM InvNext == IInv /\ [Next]_vars => IInv'
<1> SUFFICES ASSUME IInv, [Next]_vars PROVE IInv'
  OBVIOUS
<1>1. ASSUME NEW p \in Process, Begin(p) PROVE IInv'
  BY <1>1, BeginKeepsInv
<1>2. ASSUME NEW p \in Process, Lock(p) PROVE IInv'
  BY <1>2, LockKeepsInv
<1>3. ASSUME NEW p \in Process, ListOpened(p) PROVE IInv'
  BY <1>3, ListOpenedKeepsInv
<1>4. ASSUME NEW p \in Process, UpdateOne(p) PROVE IInv'
  BY <1>4, UpdateOneKeepsInv
<1>5. ASSUME NEW p \in Process, FindUnresolved(p) PROVE IInv'
  BY <1>5, FindUnresolvedKeepsInv
<1>6. ASSUME NEW p \in Process, Insert(p) PROVE IInv'
  BY <1>6, InsertKeepsInv
<1>7. ASSUME NEW p \in Process, Commit(p) PROVE IInv'
  BY <1>7, EndKeepsInv DEF Commit
<1>8. ASSUME NEW p \in Process, Rollback(p) PROVE IInv'
  BY <1>8, EndKeepsInv DEF Rollback
<1>9. ASSUME NEW i \in DOMAIN rows, SendLetter(i) PROVE IInv'
  BY <1>9, SendLetterKeepsInv
<1>10. CASE UNCHANGED vars
  BY <1>10 DEF vars, IInv, TypeOK, TablesRight, IdsExist, HolderOnCourse
<1> QED BY <1>1, <1>2, <1>3, <1>4, <1>5, <1>6, <1>7, <1>8, <1>9, <1>10 DEF Next, Work

THEOREM Invariance == Spec => []IInv
  BY InvInit, InvNext, PTL DEF Spec

(* The lock admits one transaction at a time, and what it writes are rows. *)
THEOREM TypeCorrect == Spec => []TypeOK
<1>1. IInv => TypeOK
  BY DEF IInv
<1> QED BY <1>1, Invariance, PTL

(* Unresolved requests are the opened ones, whatever is written by whom.   *)
THEOREM UnresolvedIsOpened == Spec => []OpenedIsUnresolved
<1>1. IInv => OpenedIsUnresolved
  BY DEF IInv, TablesRight, Agrees, OpenedIsUnresolved
<1> QED BY <1>1, Invariance, PTL

(* However many transactions create requests, at most one of a type that   *)
(* cancels itself is opened.                                               *)
THEOREM OneIsOpened == Spec => []OneOpened
<1>1. IInv => OneOpened
  BY DEF IInv, TablesRight, OneOpenedIn, OneOpened
<1> QED BY <1>1, Invariance, PTL

(* After the loop of UpdatePublicRequest no request of the type is opened. *)
THEOREM LoopClosesAll == Spec => AllAreClosed
<1>1. ASSUME IInv, [Next]_vars, NEW p \in Process, Commit(p), call[p].kind = "all",
             NEW i \in DOMAIN rows', rows'[i].type = call[p].type
      PROVE  rows'[i].status # "opened"
  BY <1>1, HolderCall DEF Commit, OnCourse, AllClosed
<1>2. IInv /\ [Next]_vars =>
         [\A p \in Process : Commit(p) /\ call[p].kind = "all" =>
            \A i \in DOMAIN rows' : rows'[i].type = call[p].type => rows'[i].status # "opened"]_vars
  BY <1>1
<1> QED BY <1>2, Invariance, PTL DEF Spec, AllAreClosed

-----------------------------------------------------------------------------
(* Letters                                                                 *)

(* An update that does not invalidate                                      *)
Late(item) == item.do = "update" /\ item.status # "invalidated"

(* What was opened when the transaction began will not be invalidated      *)
(* after it was resolved: the letter would be left alone.                  *)
NotResolved(item, table, old) ==
    item.do = "update" /\ item.status = "invalidated" =>
        \A i \in item.ids \cap DOMAIN old : old[i].status = "opened" => table[i].status # "resolved"

Spares(stack, table, old) ==
    /\ \A k, j \in 1..Len(stack) : k < j /\ Late(stack[k]) => stack[j].do # "update"
    /\ \A k \in 1..Len(stack) : NotResolved(stack[k], table, old)

Stopped(table, old) ==
    \A i \in DOMAIN old :
        old[i].status = "opened" /\ table[i].status = "invalidated" => table[i].letter # "ready"

LettersFollow == holder # None => Spares(agenda, draft, rows) /\ Stopped(draft, rows)

(* The items that replace the head of the stack                            *)
LEMMA PushedSpares ==
    ASSUME NEW stack \in Seq(Item), stack # <<>>, NEW a \in Item, NEW b \in Item,
           NEW before, NEW table, NEW old, Spares(stack, before, old),
           NotResolved(a, table, old), NotResolved(b, table, old),
           ~Late(a), Late(b) => Late(Head(stack)),
           \/ Late(Head(stack))
           \/ \A i \in DOMAIN old : table[i].status = "resolved" => before[i].status = "resolved"
    PROVE  Spares(Some(a) \o Some(b) \o Tail(stack), table, old)
<1> DEFINE new == Some(a) \o Some(b) \o Tail(stack)
<1>1. Pushes(stack, a, b, new)
  BY Pushed
<1> HIDE DEF new
<1>2. PICK n \in 0..2 : Replaced(stack, a, b, new, n)
  BY <1>1 DEF Pushes
<1>3. Len(new) \in Nat /\ Len(stack) \in Nat \ {0} /\ Head(stack) = stack[1]
  BY <1>1 DEF Pushes
<1>4. /\ Len(new) + 1 = n + Len(stack)
      /\ \A k \in 1..n : new[k] \in {a, b}
      /\ \A k, j \in 1..n : k < j => new[k] = a
      /\ \A k \in 2..Len(stack) : new[k + n - 1] = stack[k]
  BY <1>2 DEF Replaced
<1>5. \A k \in 1..Len(new) : k \notin 1..n => k - n + 1 \in 2..Len(stack) /\ new[k] = stack[k - n + 1]
  <2> TAKE k \in 1..Len(new)
  <2> HAVE k \notin 1..n
  <2> DEFINE i == k - n + 1
  <2>1. i \in 2..Len(stack) /\ i + n - 1 = k
    BY <1>3, <1>4
  <2> QED BY <1>4, <2>1
<1>6. /\ \A k, j \in 1..Len(stack) : k < j /\ Late(stack[k]) => stack[j].do # "update"
      /\ \A k \in 1..Len(stack) : NotResolved(stack[k], before, old)
  BY DEF Spares
<1>7. Late(Head(stack)) => \A i \in 2..Len(stack) : stack[i].do # "update"
  BY <1>3, <1>6
<1>8. \A i \in 2..Len(stack) : NotResolved(stack[i], table, old)
  BY <1>3, <1>6, <1>7 DEF NotResolved
<1>9. ASSUME NEW k \in 1..Len(new) PROVE NotResolved(new[k], table, old)
  BY <1>4, <1>5, <1>8
<1>10. ASSUME NEW k \in 1..Len(new), NEW j \in 1..Len(new), k < j, Late(new[k])
       PROVE  new[j].do # "update"
  <2>1. CASE k \in 1..n
    <3>1. j \notin 1..n /\ Late(Head(stack))
      BY <1>4, <1>10, <2>1
    <3> QED BY <1>5, <1>7, <3>1
  <2>2. CASE k \notin 1..n
    <3> DEFINE i == k - n + 1
               m == j - n + 1
    <3>1. j \notin 1..n
      BY <1>10, <2>2
    <3>2. /\ i \in 2..Len(stack) /\ new[k] = stack[i]
          /\ m \in 2..Len(stack) /\ new[j] = stack[m]
      BY <1>5, <2>2, <3>1
    <3>3. i < m /\ i \in 1..Len(stack) /\ m \in 1..Len(stack)
      BY <1>10, <3>2
    <3> HIDE DEF i, m
    <3> QED BY <1>6, <1>10, <3>2, <3>3
  <2> QED BY <2>1, <2>2
<1>11. Spares(new, table, old)
  BY <1>9, <1>10 DEF Spares
<1> QED BY <1>11 DEF new

LEMMA ListOpenedKeepsLetters ==
    ASSUME NEW p \in Process, IInv, LettersFollow, ListOpened(p)
    PROVE  LettersFollow'
<1> DEFINE item == Head(agenda)
<1>1. holder = p /\ agenda # <<>> /\ holder # None
  BY NoneIsNothing DEF ListOpened, Doing
<1>2. agenda \in Seq(Item) /\ draft \in Seq(Row) /\ item \in Item
  BY <1>1, HeadOfAgenda
<1>3. PICK type \in item.types :
         agenda' = Some(UpdateRows(OpenedOf(type), "invalidated", FALSE))
                   \o Some(CancelTypes(item.types \ {type})) \o Tail(agenda)
  BY DEF ListOpened
<1> DEFINE a == UpdateRows(OpenedOf(type), "invalidated", FALSE)
           b == CancelTypes(item.types \ {type})
<1>4. OpenedOf(type) \subseteq DOMAIN draft /\ DOMAIN draft \subseteq Nat
  BY <1>2, LenProperties DEF OpenedOf
<1>5. a \in Item /\ b \in Item
  BY <1>2, <1>4 DEF Item, UpdateRows, CancelTypes
<1>6. NotResolved(a, draft, rows) /\ ~Late(a)
  BY DEF NotResolved, Late, UpdateRows, OpenedOf
<1>7. NotResolved(b, draft, rows) /\ ~Late(b)
  BY DEF NotResolved, Late, CancelTypes
<1> HIDE DEF a, b
<1>8. Spares(agenda', draft, rows)
  BY <1>1, <1>2, <1>3, <1>5, <1>6, <1>7, PushedSpares DEF LettersFollow, a, b
<1> QED BY <1>1, <1>8 DEF LettersFollow, ListOpened

LEMMA UpdateOneKeepsLetters ==
    ASSUME NEW p \in Process, IInv, LettersFollow, UpdateOne(p)
    PROVE  LettersFollow'
<1> DEFINE item == Head(agenda)
<1>1. holder = p /\ agenda # <<>> /\ item.do = "update" /\ holder # None
  BY NoneIsNothing DEF UpdateOne, Doing
<1>2. /\ agenda \in Seq(Item) /\ draft \in Seq(Row) /\ item = agenda[1] /\ item \in Item
      /\ item.ids \subseteq DOMAIN draft /\ 1 \in 1..Len(agenda) /\ DOMAIN rows \subseteq DOMAIN draft
  BY <1>1, HeadOfAgenda, HolderCall
<1>3. PICK i \in item.ids :
         /\ draft' = [draft EXCEPT ![i] = Updated(draft[i], item.status)]
         /\ agenda' = Some(CancelTypes(Cascade(draft[i], item.status)))
                      \o Some(UpdateRows(item.ids \ {i}, item.status, item.direct))
                      \o Tail(agenda)
  BY DEF UpdateOne
<1> DEFINE a == CancelTypes(Cascade(draft[i], item.status))
           b == UpdateRows(item.ids \ {i}, item.status, item.direct)
<1>4. /\ i \in DOMAIN draft /\ i \in Nat /\ draft[i] \in Row
      /\ item.status \in Statuses /\ item.ids \subseteq Nat /\ item.direct \in BOOLEAN
  BY <1>2, LenProperties, ElementOfSeq DEF Item, Statuses
<1>5. a \in Item /\ b \in Item
  BY <1>4, CascadeTyped DEF Item, UpdateRows, CancelTypes, Statuses
<1>6. /\ \A j \in DOMAIN draft : j # i => draft'[j] = draft[j]
      /\ draft'[i] = Updated(draft[i], item.status)
  BY <1>3, <1>4
<1>7. Spares(agenda, draft, rows) /\ NotResolved(item, draft, rows) /\ Stopped(draft, rows)
  BY <1>1, <1>2 DEF LettersFollow, Spares
<1>8. item.status = "invalidated" => draft'[i].status = "invalidated"
  BY <1>4, <1>6 DEF Updated, Row
<1>9. NotResolved(a, draft', rows) /\ ~Late(a)
  BY DEF NotResolved, Late, CancelTypes
<1>10. NotResolved(b, draft', rows) /\ (Late(b) => Late(item))
  BY <1>1, <1>2, <1>6, <1>7 DEF NotResolved, Late, UpdateRows
<1>11. \/ Late(item)
       \/ \A j \in DOMAIN rows : draft'[j].status = "resolved" => draft[j].status = "resolved"
  BY <1>1, <1>2, <1>6, <1>8 DEF Late
<1> HIDE DEF a, b, item
<1>12. Spares(agenda', draft', rows)
  BY <1>1, <1>2, <1>3, <1>5, <1>7, <1>9, <1>10, <1>11, PushedSpares DEF a, b, item
<1>13. Stopped(draft', rows)
  <2> SUFFICES ASSUME i \in DOMAIN rows, rows[i].status = "opened",
                      draft'[i].status = "invalidated"
               PROVE  draft'[i].letter # "ready"
    BY <1>2, <1>6, <1>7 DEF Stopped
  <2>1. CASE item.status = "unset"
    BY <1>6, <1>7, <2>1 DEF Updated, Stopped
  <2>2. CASE item.status = "invalidated"
    <3>1. draft[i].status # "resolved"
      BY <1>1, <1>7, <2>2 DEF NotResolved
    <3>2. draft[i].status = "invalidated" => draft[i].letter # "ready"
      BY <1>7 DEF Stopped
    <3> QED BY <1>4, <1>6, <2>2, <3>1, <3>2 DEF Updated, Row, Status
  <2>3. CASE item.status = "resolved"
    BY <1>4, <1>6, <2>3 DEF Updated, Row
  <2> QED BY <1>4, <2>1, <2>2, <2>3 DEF Statuses
<1> QED BY <1>1, <1>12, <1>13 DEF LettersFollow, UpdateOne

LEMMA FindUnresolvedKeepsLetters ==
    ASSUME NEW p \in Process, IInv, LettersFollow, FindUnresolved(p)
    PROVE  LettersFollow'
<1> DEFINE item == Head(agenda)
           open == UNION {UnresolvedOf(type) : type \in item.types}
<1>1. holder = p /\ agenda # <<>> /\ item.do = "loop" /\ holder # None
  BY NoneIsNothing DEF FindUnresolved, Doing
<1>2. /\ agenda \in Seq(Item) /\ draft \in Seq(Row) /\ item = agenda[1] /\ item \in Item
      /\ Len(agenda) = 1 /\ Tail(agenda) = <<>>
  BY <1>1, HeadOfAgenda
<1>3. /\ UNCHANGED <<rows, holder, draft>>
      /\ Spares(agenda, draft, rows) /\ Stopped(draft, rows)
  BY <1>1 DEF FindUnresolved, LettersFollow
<1>4. CASE open = {}
  <2>1. agenda' = <<>> /\ Len(<<>>) = 0
    BY <1>2, <1>4, EmptySeq DEF FindUnresolved
  <2> QED BY <1>3, <2>1 DEF LettersFollow, Spares
<1>5. CASE open # {}
  <2>1. PICK i \in open : agenda' = <<UpdateRows({i}, item.status, TRUE)>> \o agenda
    BY <1>5 DEF FindUnresolved
  <2> DEFINE u == UpdateRows({i}, item.status, TRUE)
  <2>2. i \in DOMAIN draft /\ i \in Nat /\ ~draft[i].resolved
    BY <1>2, LenProperties DEF UnresolvedOf
  <2>3. draft[i].status = "opened"
    BY <2>2 DEF IInv, TablesRight, Agrees
  <2>4. u \in Item /\ NotResolved(u, draft, rows)
    BY <1>2, <2>2, <2>3 DEF UpdateRows, Item, NotResolved
  <2> HIDE DEF u
  <2>5. agenda' = <<u>> \o agenda
    BY <2>1 DEF u
  <2> HIDE DEF item
  <2>6. Len(agenda') = 2 /\ agenda'[1] = u /\ agenda'[2] = item
    BY <1>2, <2>4, <2>5, PushedOne
  <2>7. NotResolved(item, draft, rows)
    BY <1>1 DEF NotResolved
  <2>8. Spares(agenda', draft, rows)
    BY <1>1, <2>4, <2>6, <2>7 DEF Spares
  <2> QED BY <1>3, <2>8 DEF LettersFollow
<1> QED BY <1>4, <1>5

LEMMA InsertKeepsLetters ==
    ASSUME NEW p \in Process, IInv, LettersFollow, Insert(p)
    PROVE  LettersFollow'
<1>1. holder = p /\ agenda # <<>> /\ Head(agenda).do = "insert" /\ holder # None
  BY NoneIsNothing DEF Insert, Doing
<1>2. draft \in Seq(Row) /\ Tail(agenda) = <<>> /\ DOMAIN rows \subseteq DOMAIN draft
  BY <1>1, HeadOfAgenda, HolderCall
<1>3. PICK type \in Head(agenda).types, letter \in {"none", "ready"} :
         draft' = Append(draft, [type |-> type, status |-> "opened", resolved |-> FALSE,
                                 letter |-> letter])
  BY DEF Insert
<1>4. agenda' = <<>> /\ Len(<<>>) = 0 /\ UNCHANGED <<rows, holder>>
  BY <1>2, EmptySeq DEF Insert
<1>5. \A i \in DOMAIN rows : draft'[i] = draft[i]
  BY <1>2, <1>3
<1>6. Stopped(draft', rows)
  BY <1>1, <1>5 DEF LettersFollow, Stopped
<1> QED BY <1>4, <1>6 DEF LettersFollow, Spares

(* A plan invalidates nothing that another item resolves.                  *)
LEMMA PlanSpares ==
    ASSUME NEW c \in Call, NEW table \in Seq(Row), c.kind = "one" => c.id \in DOMAIN table
    PROVE  Spares(Plan(c), table, table)
<1>1. Plan(c) \in Seq(Item) /\ Shaped(c, Plan(c))
  BY PlanOnCourse DEF OnCourse
<1>2. \A k, j \in 1..Len(Plan(c)) : k < j => ~Late(Plan(c)[k])
  <2>1. CASE c.kind = "create"
    BY <1>1, <2>1 DEF Shaped, Late, LastItem, Insertion
  <2>2. CASE c.kind = "one"
    <3>1. Len(Plan(c)) = 1
      BY <2>2 DEF Plan
    <3> QED BY <3>1
  <2>3. CASE c.kind = "all"
    <3>1. Len(Plan(c)) = 1
      BY <2>3 DEF Plan
    <3> QED BY <3>1
  <2> QED BY <2>1, <2>2, <2>3 DEF Call
<1> QED BY <1>2 DEF Spares, NotResolved

LEMMA LockKeepsLetters ==
    ASSUME NEW p \in Process, IInv, LettersFollow, Lock(p)
    PROVE  LettersFollow'
<1>1. call[p] \in Calls /\ call[p] \in Call /\ rows \in Seq(Row)
  BY TypesKnown DEF IInv, TypeOK, Lock
<1>2. call[p].kind = "one" => call[p].id \in DOMAIN rows
  BY <1>1, NoneIsNothing DEF IInv, IdsExist
<1>3. Spares(Plan(call[p]), rows, rows) /\ Stopped(rows, rows)
  BY <1>1, <1>2, PlanSpares DEF Stopped
<1> QED BY <1>3 DEF LettersFollow, Lock

LEMMA SendLetterKeepsLetters ==
    ASSUME NEW i \in DOMAIN rows, IInv, LettersFollow, SendLetter(i)
    PROVE  LettersFollow'
<1> SUFFICES ASSUME holder # None PROVE Spares(agenda', draft', rows') /\ Stopped(draft', rows')
  BY DEF LettersFollow, SendLetter
<1>1. rows \in Seq(Row) /\ draft \in Seq(Row) /\ DOMAIN rows \subseteq DOMAIN draft
  BY DEF IInv, TypeOK, HolderOnCourse
<1>2. rows[i] \in Row /\ draft[i] \in Row
  BY <1>1, ElementOfSeq, LenProperties
<1>3. /\ DOMAIN rows' = DOMAIN rows /\ agenda' = agenda
      /\ \A j \in DOMAIN rows : /\ rows'[j].status = rows[j].status
                                /\ draft'[j].status = draft[j].status
                                /\ draft'[j].letter = "ready" => draft[j].letter = "ready"
  BY <1>1, <1>2 DEF SendLetter, Row
<1>4. Spares(agenda, draft, rows) /\ Stopped(draft, rows)
  BY DEF LettersFollow
<1> QED BY <1>3, <1>4 DEF Spares, NotResolved, Stopped

LEMMA LettersFollowNext == IInv /\ LettersFollow /\ [Next]_vars => LettersFollow'
<1> SUFFICES ASSUME IInv, LettersFollow, [Next]_vars PROVE LettersFollow'
  OBVIOUS
<1>1. ASSUME NEW p \in Process, Begin(p) PROVE LettersFollow'
  BY <1>1 DEF Begin, LettersFollow
<1>2. ASSUME NEW p \in Process, Lock(p) PROVE LettersFollow'
  BY <1>2, LockKeepsLetters
<1>3. ASSUME NEW p \in Process, ListOpened(p) PROVE LettersFollow'
  BY <1>3, ListOpenedKeepsLetters
<1>4. ASSUME NEW p \in Process, UpdateOne(p) PROVE LettersFollow'
  BY <1>4, UpdateOneKeepsLetters
<1>5. ASSUME NEW p \in Process, FindUnresolved(p) PROVE LettersFollow'
  BY <1>5, FindUnresolvedKeepsLetters
<1>6. ASSUME NEW p \in Process, Insert(p) PROVE LettersFollow'
  BY <1>6, InsertKeepsLetters
<1>7. ASSUME NEW p \in Process, Commit(p) PROVE LettersFollow'
  BY <1>7 DEF Commit, End, LettersFollow
<1>8. ASSUME NEW p \in Process, Rollback(p) PROVE LettersFollow'
  BY <1>8 DEF Rollback, End, LettersFollow
<1>9. ASSUME NEW i \in DOMAIN rows, SendLetter(i) PROVE LettersFollow'
  BY <1>9, SendLetterKeepsLetters
<1>10. CASE UNCHANGED vars
  BY <1>10 DEF vars, LettersFollow
<1> QED BY <1>1, <1>2, <1>3, <1>4, <1>5, <1>6, <1>7, <1>8, <1>9, <1>10 DEF Next, Work

(* When UpdatePublicRequest invalidates a request that was opened, itself  *)
(* or by a cascade, a letter that is still to be sent is stopped.          *)
THEOREM LettersAreStopped == Spec => LettersStop
<1> DEFINE Stops == \A i \in DOMAIN rows :
                        rows[i].status = "opened" /\ rows'[i].status = "invalidated" =>
                            rows'[i].letter # "ready"
<1>1. ASSUME IInv, LettersFollow, [Next]_vars PROVE [Stops]_vars
  <2>1. ASSUME rows' = rows PROVE Stops
    BY <2>1
  <2>2. ASSUME NEW p \in Process, Commit(p) PROVE Stops
    BY <1>1, <2>2, NoneIsNothing DEF Commit, LettersFollow, Stopped
  <2>3. ASSUME NEW i \in DOMAIN rows, SendLetter(i) PROVE Stops
    <3>1. rows[i] \in Row
      BY <1>1, ElementOfSeq, LenProperties DEF IInv, TypeOK
    <3>2. \A j \in DOMAIN rows : rows'[j].status = rows[j].status
      BY <1>1, <2>3, <3>1 DEF SendLetter, Row, IInv, TypeOK
    <3> QED BY <3>2
  <2> QED BY <1>1, <2>1, <2>2, <2>3
          DEF Next, Work, Begin, Lock, ListOpened, UpdateOne, FindUnresolved, Insert, Rollback, vars
<1>2. Init => LettersFollow
  BY DEF Init, LettersFollow
<1>3. Spec => []LettersFollow
  BY <1>2, LettersFollowNext, Invariance, PTL DEF Spec
<1>4. IInv /\ LettersFollow /\ [Next]_vars => [Stops]_vars
  BY <1>1
<1> QED BY <1>3, <1>4, Invariance, PTL DEF Spec, LettersStop
=============================================================================
