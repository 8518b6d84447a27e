---------------------------- MODULE PublicRequests ----------------------------
(***************************************************************************)
(* The public requests of one registered object.  Operations on them begin *)
(* with a lock guard, which waits for lock_public_request_lock of the      *)
(* object and keeps it until the transaction ends, so that objects are     *)
(* independent and what the holder writes is its own until it commits.     *)
(*                                                                         *)
(* What an operation has still to do is agenda, a stack: to create or      *)
(* close a request can mean to close others, of the types that the         *)
(* request's type names, and each of these may name others again.          *)
(*                                                                         *)
(* The types of requests, the SQL function lock_public_request_lock and    *)
(* the letters attached to requests are external.                          *)
(***************************************************************************)
EXTENDS Naturals, Sequences

CONSTANTS Types,           \* types of public requests
          CancelOnCreate,  \* [Types -> SUBSET Types]
          CancelOnUpdate,  \* <<type, old status, new status>> -> SUBSET Types
          Process,         \* callers, each with one transaction at a time
          None,            \* nobody, no call
          Calls,           \* what they may call
          MaxRows          \* bound of the number of requests

Status == {"opened", "resolved", "invalidated"}

(* Arguments of CreatePublicRequest ("create"), of UpdatePublicRequest for *)
(* a locked request ("one") and for the requests of a locked object        *)
(* ("all").  An update without status changes other columns only.  One     *)
(* request is updated with the type it has.                                *)
Call ==
    [kind : {"create", "one", "all"}, type : Types, id : Nat,
     status : {"resolved", "invalidated", "unset"}]

ASSUME TypesKnown ==
    /\ CancelOnCreate \in [Types -> SUBSET Types]
    /\ CancelOnUpdate \in [Types \X Status \X Status -> SUBSET Types]
    /\ Calls \subseteq Call

ASSUME NoneIsNothing == None \notin Process /\ None \notin Calls /\ MaxRows \in Nat

VARIABLES rows,      \* public_request as committed, by id
          stage,     \* stage[p]: "idle", "waiting" for the lock, or "working"
          call,      \* call[p]: the call it makes, if it is not idle
          holder,    \* who holds the object's lock
          draft,     \* the rows as the holder sees them
          agenda,    \* what the holder has still to do, next first
          affected   \* Result::affected_requests of the holder

vars == <<rows, stage, call, holder, draft, agenda, affected>>

(* letter: the status of the letter attached to the request, if any;       *)
(* "ready" is also one whose sending failed and will be tried again.       *)
Row == [type : Types, status : Status, resolved : BOOLEAN,
        letter : {"none", "ready", "no_processing", "sent"}]

-----------------------------------------------------------------------------
(* Items of the agenda                                                     *)

Item ==
    [do : {"cancel", "update", "loop", "insert"}, types : SUBSET Types, ids : SUBSET Nat,
     status : {"resolved", "invalidated", "unset"}, direct : BOOLEAN]

(* Close all opened requests of these types.                               *)
CancelTypes(types) ==
    [do |-> "cancel", types |-> types, ids |-> {}, status |-> "invalidated", direct |-> FALSE]

(* Update these requests; direct: the result will name them.               *)
UpdateRows(ids, status, direct) ==
    [do |-> "update", types |-> {}, ids |-> ids, status |-> status, direct |-> direct]

(* Update requests of this type as long as one is open.                    *)
Loop(type, status) ==
    [do |-> "loop", types |-> {type}, ids |-> {}, status |-> status, direct |-> TRUE]

Insertion(type) ==
    [do |-> "insert", types |-> {type}, ids |-> {}, status |-> "unset", direct |-> TRUE]

(* An item, if there is anything to do in it                               *)
Some(item) == IF item.types = {} /\ item.ids = {} THEN <<>> ELSE <<item>>

(* Variants with a mistake in them, to see that the runs notice.  Here     *)
(* nothing is closed when a request is created ...                         *)
PlanWithoutCancelling(c) ==
    CASE c.kind = "create" -> <<Insertion(c.type)>>
      [] c.kind = "one"    -> <<UpdateRows({c.id}, c.status, TRUE)>>
      [] c.kind = "all"    -> <<Loop(c.type, c.status)>>

Plan(c) ==
    CASE c.kind = "create" -> Some(CancelTypes(CancelOnCreate[c.type])) \o <<Insertion(c.type)>>
      [] c.kind = "one"    -> <<UpdateRows({c.id}, c.status, TRUE)>>
      [] c.kind = "all"    -> <<Loop(c.type, c.status)>>

-----------------------------------------------------------------------------
(* What the queries find                                                   *)

(* cancel_on_create and the cancelling in update ask for the status,       *)
OpenedOf(type) == {i \in DOMAIN draft : draft[i].type = type /\ draft[i].status = "opened"}

(* GetOpenedPublicRequest for a resolve_time that is NULL.                 *)
UnresolvedOf(type) == {i \in DOMAIN draft : draft[i].type = type /\ ~draft[i].resolved}

(* ... here an invalidated request gets no resolve_time ...                *)
UpdatedResolving(row, status) ==
    IF status = "unset" THEN row
    ELSE [row EXCEPT !.status = status,
                     !.resolved = (row.resolved \/ status = "resolved")]

(* ... here every update sets the resolve_time ...                         *)
UpdatedClosing(row, status) ==
    IF status = "unset" THEN [row EXCEPT !.resolved = TRUE]
    ELSE [row EXCEPT !.status = status, !.resolved = TRUE]

(* ... here the letter is looked for when the request is closed already.   *)
UpdatedSending(row, status) ==
    IF status = "unset" THEN row
    ELSE [row EXCEPT !.status = status, !.resolved = (row.resolved \/ row.status = "opened")]

(* A letter that has not been sent is not sent any more when its request   *)
(* is opened and will be invalidated.                                      *)
Updated(row, status) ==
    IF status = "unset" THEN row
    ELSE [row EXCEPT !.status = status,
                     !.resolved = (row.resolved \/ row.status = "opened"),
                     !.letter = IF status = "invalidated" /\ row.status = "opened"
                                   /\ row.letter = "ready"
                                THEN "no_processing" ELSE row.letter]

(* The types to cancel after an update from one status to another          *)
Cascade(row, status) ==
    IF status \in {"unset", row.status} THEN {}
    ELSE CancelOnUpdate[<<row.type, row.status, status>>]

-----------------------------------------------------------------------------
TypeOK ==
    /\ rows \in Seq(Row) /\ draft \in Seq(Row)
    /\ stage \in [Process -> {"idle", "waiting", "working"}]
    /\ call \in [Process -> Calls \cup {None}]
    /\ \A p \in Process : stage[p] = "idle" <=> call[p] = None
    /\ holder \in Process \cup {None}
    /\ \A p \in Process : stage[p] = "working" <=> holder = p
    /\ agenda \in Seq(Item)
    /\ affected \subseteq Nat

Init ==
    /\ rows = <<>> /\ draft = <<>>
    /\ stage = [p \in Process |-> "idle"]
    /\ call = [p \in Process |-> None]
    /\ holder = None
    /\ agenda = <<>> /\ affected = {}

(* A caller begins a transaction and constructs a lock guard; the one for  *)
(* a request finds that it exists before it waits.                         *)
Begin(p) ==
    /\ stage[p] = "idle"
    /\ stage' = [stage EXCEPT ![p] = "waiting"]
    /\ \E c \in Calls :
          /\ c.kind = "one" => c.id \in DOMAIN rows
          /\ call' = [call EXCEPT ![p] = c]
    /\ UNCHANGED <<rows, holder, draft, agenda, affected>>

(* The lock guard waits for the transaction that holds the lock.           *)
Lock(p) ==
    /\ stage[p] = "waiting" /\ holder = None
    /\ call[p].kind = "create" => Len(rows) < MaxRows
    /\ holder' = p
    /\ stage' = [stage EXCEPT ![p] = "working"]
    /\ draft' = rows
    /\ agenda' = Plan(call[p])
    /\ affected' = {}
    /\ UNCHANGED <<rows, call>>

Doing(p, what) == holder = p /\ agenda # <<>> /\ Head(agenda).do = what

(* One type to cancel after the other: list its opened requests.           *)
ListOpened(p) ==
    /\ Doing(p, "cancel")
    /\ \E type \in Head(agenda).types :
          agenda' = Some(UpdateRows(OpenedOf(type), "invalidated", FALSE))
                    \o Some(CancelTypes(Head(agenda).types \ {type})) \o Tail(agenda)
    /\ UNCHANGED <<rows, stage, call, holder, draft, affected>>

(* UpdatePublicRequest::update of one request.  The lock guards it makes   *)
(* are for the same object.                                                *)
UpdateOne(p) ==
    LET item == Head(agenda) IN
    /\ Doing(p, "update")
    /\ \E i \in item.ids :
          /\ draft' = [draft EXCEPT ![i] = Updated(draft[i], item.status)]
          /\ agenda' = Some(CancelTypes(Cascade(draft[i], item.status)))
                       \o Some(UpdateRows(item.ids \ {i}, item.status, item.direct))
                       \o Tail(agenda)
          /\ affected' = IF item.direct THEN affected \cup {i} ELSE affected
    /\ UNCHANGED <<rows, stage, call, holder>>

(* The loop of UpdatePublicRequest for a locked object                     *)
FindUnresolved(p) ==
    LET item == Head(agenda)
        open == UNION {UnresolvedOf(type) : type \in item.types} IN
    /\ Doing(p, "loop")
    /\ IF open = {} THEN agenda' = Tail(agenda)
       ELSE \E i \in open : agenda' = <<UpdateRows({i}, item.status, TRUE)>> \o agenda
    /\ UNCHANGED <<rows, stage, call, holder, draft, affected>>

(* The INSERT of CreatePublicRequest and CreatePublicRequestAuth; the      *)
(* caller may attach a letter.                                             *)
Insert(p) ==
    /\ Doing(p, "insert")
    /\ \E type \in Head(agenda).types, letter \in {"none", "ready"} :
          draft' = Append(draft, [type |-> type, status |-> "opened", resolved |-> FALSE,
                                  letter |-> letter])
    /\ agenda' = Tail(agenda)
    /\ UNCHANGED <<rows, stage, call, holder, affected>>

(* COMMIT or ROLLBACK releases the lock.                                   *)
End(p) ==
    /\ stage' = [stage EXCEPT ![p] = "idle"]
    /\ call' = [call EXCEPT ![p] = None]
    /\ IF holder = p THEN holder' = None /\ draft' = <<>> /\ agenda' = <<>> /\ affected' = {}
       ELSE UNCHANGED <<holder, draft, agenda, affected>>

Commit(p) ==
    /\ holder = p /\ agenda = <<>>
    /\ rows' = draft
    /\ End(p)

(* An error, or a caller that gives up                                     *)
Rollback(p) ==
    /\ stage[p] # "idle"
    /\ End(p)
    /\ UNCHANGED rows

(* A letter is sent, by somebody who does not take the lock: not when the  *)
(* holder of the lock has stopped it and has the row locked.               *)
SendLetter(i) ==
    /\ rows[i].letter = "ready"
    /\ holder # None => draft[i].letter = "ready"
    /\ rows' = [rows EXCEPT ![i] = [rows[i] EXCEPT !.letter = "sent"]]
    /\ draft' = IF holder = None THEN draft
                ELSE [draft EXCEPT ![i] = [draft[i] EXCEPT !.letter = "sent"]]
    /\ UNCHANGED <<stage, call, holder, agenda, affected>>

(* The caller's thread goes on.                                            *)
Work(p) == ListOpened(p) \/ UpdateOne(p) \/ FindUnresolved(p) \/ Insert(p) \/ Commit(p)

Next ==
    \/ \E p \in Process : Begin(p) \/ Lock(p) \/ Work(p) \/ Rollback(p)
    \/ \E i \in DOMAIN rows : SendLetter(i)

Spec == Init /\ [][Next]_vars

(* A thread that has the lock goes on with its operation.                  *)
FairSpec == Spec /\ \A p \in Process : WF_vars(Work(p))
-----------------------------------------------------------------------------
(* What GetOpenedPublicRequest takes for opened, a resolve_time that is    *)
(* NULL, is what cancel_on_create and the caller's status say is opened,   *)
(* also amid an operation.                                                 *)
OpenedIsUnresolved ==
    \A table \in {rows, draft} : \A i \in DOMAIN table :
        table[i].status = "opened" <=> ~table[i].resolved

(* Of a type that cancels itself on creation at most one request is        *)
(* opened, whoever creates and updates requests at the same time.          *)
OneOpened ==
    \A i, j \in DOMAIN rows :
        /\ rows[i].status = "opened" /\ rows[j].status = "opened"
        /\ rows[i].type = rows[j].type /\ rows[i].type \in CancelOnCreate[rows[i].type]
        => i = j

(* An update with a status for all requests of a type leaves none opened.  *)
AllAreClosed ==
    [][\A p \in Process : Commit(p) /\ call[p].kind = "all" =>
          \A i \in DOMAIN rows' : rows'[i].type = call[p].type => rows'[i].status # "opened"]_vars

(* The letter of a request that was opened is not sent after the request   *)
(* is invalidated, whatever way that happened.                             *)
LettersStop ==
    [][\A i \in DOMAIN rows :
          rows[i].status = "opened" /\ rows'[i].status = "invalidated" =>
              rows'[i].letter # "ready"]_vars

(* An operation that has the lock comes to its end: the loop and the       *)
(* cancelling of types that name one another stop.                         *)
EveryOperationEnds == \A p \in Process : holder = p ~> holder # p
=============================================================================
