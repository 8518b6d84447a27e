------------------------------- MODULE Registry -------------------------------
(***************************************************************************)
(* Concurrent operations on the register.  Each operation of libfred runs  *)
(* as a few SQL statements inside a READ COMMITTED transaction of its      *)
(* caller; what keeps two of them apart are the row locks it takes on      *)
(* object_registry (by the look-ups "FOR UPDATE" and "FOR SHARE") and on   *)
(* object (by "FOR UPDATE", UPDATE and DELETE).                            *)
(*                                                                         *)
(* A transaction t runs one operation op[t]: it takes the row locks the    *)
(* operation needs in the order the code takes them, makes the checks the  *)
(* code makes between them, and then writes and commits in one step (what  *)
(* it writes earlier is invisible to the others and undone by a ROLLBACK). *)
(* PostgreSQL itself -- row locks, the re-check of a row that changed      *)
(* while a statement waited for it, the deadlock detector -- is external.  *)
(***************************************************************************)
EXTENDS RegistryObjects

CONSTANTS Tx,          \* transactions; each runs once
          Requests,    \* the operations callers may ask for
          InitialDbs   \* the contents the register may start with

ASSUME RequestsExpressible ==
    Requests \subseteq Operation /\ \A op \in Requests : Expressible(op)

ASSUME InitialDbsConsistent ==
    \A d \in InitialDbs : d \in [Objects -> Entry] /\ WellShaped(d) /\ NoDangling(d)

VARIABLES db,       \* what is committed
          op,       \* op[t]: the operation of transaction t
          stage,    \* stage[t]: how far it has come, or how it ended
          need,     \* need[t]: row locks it takes before it goes on
          waiting,  \* waiting[t]: the row lock its current statement takes, if any
          seen,     \* seen[t]: historyid of that row in the statement's snapshot
          listed,   \* listed[t]: what a merge found linked to its source
          owner,    \* owner[r]: transactions holding row r "FOR UPDATE"
          sharers   \* sharers[r]: transactions holding row r "FOR SHARE"

vars == <<db, op, stage, need, waiting, seen, listed, owner, sharers>>
lockVars == <<owner, sharers>>

-----------------------------------------------------------------------------
(* Row locks                                                               *)

Rows == {"registry", "object"} \X Objects

(* how: an "info" look-up joins object_registry with history on historyid, *)
(* so that it finds the row only if its historyid has not changed since    *)
(* the statement began; a plain "lookup" re-checks erdate IS NULL only.    *)
(* A look-up that is optional goes on without the row it does not find.    *)
LockRequest ==
    [row : Rows, mode : {"share", "update"}, rank : 1..9, how : {"lookup", "info"},
     optional : BOOLEAN]

Lock(table, o, mode, rank, how) ==
    [row |-> <<table, o>>, mode |-> mode, rank |-> rank, how |-> how, optional |-> FALSE]

Optionally(request) == [request EXCEPT !.optional = TRUE]

Share(os, rank) == {Lock("registry", o, "share", rank, "lookup") : o \in os \ {NoObject}}

Holds(t, row) == t \in owner[row] \cup sharers[row]

Blockers(t, request) ==
    (owner[request.row] \cup (IF request.mode = "update" THEN sharers[request.row] ELSE {})) \ {t}

(* The next statement is one for a request of the lowest rank; among equal *)
(* ranks (a list the caller passes, the rows of one query) any is first.   *)
Foremost(requests) == {r \in requests : \A s \in requests : r.rank <= s.rank}

-----------------------------------------------------------------------------
(* The locks of each operation, in the order of rank                       *)

(* Variants with a mistake in them, to see that the runs notice.  Here the *)
(* contacts are looked up without a lock ...                               *)
CreateLocksWithoutContacts(o) ==
    Share({o.registrant}, 1) \cup Share({o.nsset}, 2) \cup Share({o.keyset}, 3)

CreateLocks(o) ==
    Share({o.registrant}, 1) \cup Share({o.nsset}, 2) \cup Share({o.keyset}, 3)
    \cup Share(o.add, 4)

LookupObject(o) ==
    Lock("registry", o.obj, "update", 1, IF o.obj \in Contacts THEN "info" ELSE "lookup")

(* ... here the row of object is written before object_registry is locked, *)
UpdateLocksObjectFirst(o) ==
    {[LookupObject(o) EXCEPT !.rank = 2], Lock("object", o.obj, "update", 1, "lookup")}
    \cup Share(IF "nsset" \in o.set THEN {o.nsset} ELSE {}, 3)
    \cup Share(IF "keyset" \in o.set THEN {o.keyset} ELSE {}, 4)
    \cup Share(IF "registrant" \in o.set THEN {o.registrant} ELSE {}, 5)
    \cup Share(o.add, 6) \cup Share(o.rem, 7)

UpdateLocks(o) ==
    {LookupObject(o), Lock("object", o.obj, "update", 2, "lookup")}
    \cup Share(IF "nsset" \in o.set THEN {o.nsset} ELSE {}, 3)
    \cup Share(IF "keyset" \in o.set THEN {o.keyset} ELSE {}, 4)
    \cup Share(IF "registrant" \in o.set THEN {o.registrant} ELSE {}, 5)
    \cup Share(o.add, 6) \cup Share(o.rem, 7)

RenewLocks(o) == {Lock("registry", o.obj, "update", 1, "lookup")}

(* ... here the object to delete is only looked up FOR SHARE,              *)
DeleteLocksShared(o) == {Lock("registry", o.obj, "share", 1, "lookup")}

DeleteLocks(o) == {Lock("registry", o.obj, "update", 1, "lookup")}
EraseLocks(o)  == {Lock("object", o.obj, "update", 1, "lookup")}

(* ... here the sponsor is read without the lock on its row.               *)
TransferLocksWithoutObject(o) ==
    IF o.obj \in Contacts THEN {} ELSE {Lock("registry", o.obj, "update", 1, "info")}

(* TransferContact begins with the object row; the other transfers lock    *)
(* the object_registry row first, to read the contacts.                    *)
TransferLocks(o) ==
    {Lock("object", o.obj, "update", 2, "lookup")}
    \cup (IF o.obj \in Contacts THEN {} ELSE {Lock("registry", o.obj, "update", 1, "info")})

(* The password is checked against the object and its contacts; only then  *)
(* is the object_registry row written.                                     *)
AuthorizeLocks(o, contacts) ==
    {Lock("registry", o.obj, "share", 1, "lookup"), Lock("registry", o.obj, "update", 3, "lookup")}
    \cup {Optionally(Lock("registry", c, "share", 2, "info")) : c \in contacts \cap Contacts}

MergeLocks(o) ==
    {Lock("registry", o.obj, "update", 1, "lookup"), Lock("registry", o.dst, "update", 2, "lookup")}

RelinkLocks(os, rank) ==
    {Optionally(Lock("registry", p, "update", rank, "lookup")) : p \in os}
    \cup {Optionally(Lock("object", p, "update", rank + 1, "lookup")) : p \in os}

(* Domains, then nssets, then keysets, then the source and the destination *)
RelinkContactLocks(o, os) ==
    RelinkLocks(os \cap Domains, 1) \cup RelinkLocks(os \cap Nssets, 3)
    \cup RelinkLocks(os \cap Keysets, 5)
    \cup {Lock("object", o.obj, "update", 7, "lookup"), Lock("object", o.dst, "update", 8, "lookup")}

FirstLocks(o) ==
    CASE o.kind = "create"   -> CreateLocks(o)
      [] o.kind = "update"   -> UpdateLocks(o)
      [] o.kind = "renew"    -> RenewLocks(o)
      [] o.kind = "delete"   -> DeleteLocks(o)
      [] o.kind = "transfer" -> TransferLocks(o)
      [] o.kind = "merge"    -> MergeLocks(o)

-----------------------------------------------------------------------------
Running == {"first", "second", "third"}
Ended   == {"committed", "refused", "unknown", "rolledback", "deadlock"}

NoList == [registrant |-> {}, contact |-> {}]

TypeOK ==
    /\ db \in [Objects -> Entry]
    /\ op \in [Tx -> Requests]
    /\ stage \in [Tx -> {"idle"} \cup Running \cup Ended]
    /\ need \in [Tx -> SUBSET LockRequest]
    /\ waiting \in [Tx -> SUBSET LockRequest]
    /\ seen \in [Tx -> Nat]
    /\ listed \in [Tx -> [registrant : SUBSET Domains, contact : SUBSET Objects]]
    /\ owner \in [Rows -> SUBSET Tx]
    /\ sharers \in [Rows -> SUBSET Tx]

Init ==
    /\ db \in InitialDbs
    /\ op \in [Tx -> Requests]
    /\ stage = [t \in Tx |-> "idle"]
    /\ need = [t \in Tx |-> {}]
    /\ waiting = [t \in Tx |-> {}]
    /\ seen = [t \in Tx |-> 0]
    /\ listed = [t \in Tx |-> NoList]
    /\ owner = [r \in Rows |-> {}]
    /\ sharers = [r \in Rows |-> {}]

(* With a mistake: the transaction is left open.                           *)
EndKeepingLocks(t, outcome) ==
    /\ stage' = [stage EXCEPT ![t] = outcome]
    /\ need' = [need EXCEPT ![t] = {}]
    /\ waiting' = [waiting EXCEPT ![t] = {}]
    /\ seen' = [seen EXCEPT ![t] = 0]
    /\ listed' = [listed EXCEPT ![t] = NoList]
    /\ UNCHANGED <<op, lockVars>>

(* COMMIT or ROLLBACK: every lock is released.                             *)
End(t, outcome) ==
    /\ stage' = [stage EXCEPT ![t] = outcome]
    /\ need' = [need EXCEPT ![t] = {}]
    /\ waiting' = [waiting EXCEPT ![t] = {}]
    /\ seen' = [seen EXCEPT ![t] = 0]
    /\ listed' = [listed EXCEPT ![t] = NoList]
    /\ owner' = [r \in Rows |-> owner[r] \ {t}]
    /\ sharers' = [r \in Rows |-> sharers[r] \ {t}]
    /\ UNCHANGED op

(* The statements so far have all been executed.                           *)
Ready(t, s) == stage[t] = s /\ need[t] = {}

Enter(t, s, requests) ==
    /\ stage' = [stage EXCEPT ![t] = s]
    /\ need' = [need EXCEPT ![t] = requests]

-----------------------------------------------------------------------------
(* A transaction starts its operation.                                     *)
Start(t) ==
    /\ stage[t] = "idle"
    /\ Enter(t, "first", FirstLocks(op[t]))
    /\ UNCHANGED <<db, op, waiting, seen, listed, lockVars>>

(* A look-up statement begins: its snapshot shows the row.                 *)
BeginLookup(t) ==
    /\ stage[t] \in Running /\ waiting[t] = {}
    /\ \E r \in Foremost(need[t]) :
          /\ IsLive(db, r.row[2])
          /\ waiting' = [waiting EXCEPT ![t] = {r}]
          /\ seen' = [seen EXCEPT ![t] = db[r.row[2]].historyid]
    /\ UNCHANGED <<db, op, stage, need, listed, lockVars>>

(* The row as it is when its lock comes free still satisfies the query.    *)
Found(t, r) ==
    /\ IsLive(db, r.row[2])
    /\ r.how = "info" => db[r.row[2]].historyid = seen[t]

(* The row is locked until the transaction ends.                           *)
GetLock(t) ==
    \E r \in waiting[t] :
        /\ Blockers(t, r) = {}
        /\ Found(t, r)
        /\ need' = [need EXCEPT ![t] = @ \ {r}]
        /\ waiting' = [waiting EXCEPT ![t] = {}]
        /\ seen' = [seen EXCEPT ![t] = 0]
        /\ owner' = IF r.mode = "update" THEN [owner EXCEPT ![r.row] = @ \cup {t}] ELSE owner
        /\ sharers' = IF r.mode = "share" THEN [sharers EXCEPT ![r.row] = @ \cup {t}] ELSE sharers
        /\ UNCHANGED <<db, op, stage, listed>>

(* A look-up that returns no row: in its snapshot, or after the wait.      *)
Misses(t, r) ==
    \/ waiting[t] = {} /\ r \in Foremost(need[t]) /\ ~IsLive(db, r.row[2])
    \/ r \in waiting[t] /\ Blockers(t, r) = {} /\ ~Found(t, r)

(* The operation throws "unknown object" and its caller rolls back.        *)
ObjectUnknown(t) ==
    /\ stage[t] \in Running
    /\ \E r \in need[t] : Misses(t, r) /\ ~r.optional
    /\ End(t, "unknown")
    /\ UNCHANGED db

(* A row that need not be there is left out.                               *)
SkipMissing(t) ==
    /\ stage[t] \in Running
    /\ \E r \in need[t] :
          /\ Misses(t, r) /\ r.optional
          /\ need' = [need EXCEPT ![t] = {s \in @ : s.row[2] # r.row[2]}]
          /\ listed' = [listed EXCEPT ![t] = [registrant |-> @.registrant \ {r.row[2]},
                                              contact |-> @.contact \ {r.row[2]}]]
    /\ waiting' = [waiting EXCEPT ![t] = {}]
    /\ seen' = [seen EXCEPT ![t] = 0]
    /\ UNCHANGED <<db, op, stage, lockVars>>

-----------------------------------------------------------------------------
(* CreateContact, CreateNsset, CreateKeyset, CreateDomain.  create_object  *)
(* gives 0 for a name that is taken.                                       *)
Create(t) ==
    /\ op[t].kind = "create" /\ Ready(t, "first")
    /\ IF db[op[t].obj].life = "free"
       THEN db' = Created(db, op[t]) /\ End(t, "committed")
       ELSE UNCHANGED db /\ End(t, "refused")

(* UpdateContact, UpdateNsset, UpdateKeyset, UpdateDomain                  *)
Update(t) ==
    /\ op[t].kind = "update" /\ Ready(t, "first")
    /\ IF ContactsFit(db[op[t].obj], op[t])
       THEN db' = Updated(db, op[t]) /\ End(t, "committed")
       ELSE UNCHANGED db /\ End(t, "refused")

(* RenewDomain                                                             *)
Renew(t) ==
    /\ op[t].kind = "renew" /\ Ready(t, "first")
    /\ db' = Renewed(db, op[t])
    /\ End(t, "committed")

(* DeleteContact, DeleteNsset and DeleteKeyset ask for the state 'linked'; *)
(* DeleteDomain does not.                                                  *)
CheckNotLinked(t) ==
    /\ op[t].kind = "delete" /\ Ready(t, "first")
    /\ IF op[t].obj \in Domains \/ ~IsLinked(db, op[t].obj)
       THEN /\ Enter(t, "second", EraseLocks(op[t]))
            /\ UNCHANGED <<op, waiting, seen, listed, lockVars>>
       ELSE End(t, "refused")
    /\ UNCHANGED db

Delete(t) ==
    /\ op[t].kind = "delete" /\ Ready(t, "second")
    /\ db' = Erased(db, op[t].obj)
    /\ End(t, "committed")

(* TransferContact, TransferNsset, TransferKeyset, TransferDomain          *)
CheckSponsor(t) ==
    LET entry == db[op[t].obj] IN
    /\ op[t].kind = "transfer" /\ Ready(t, "first")
    /\ IF entry.sponsor # op[t].registrar
       THEN /\ Enter(t, "second", AuthorizeLocks(op[t], entry.contacts \cup {entry.registrant}))
            /\ UNCHANGED <<op, waiting, seen, listed, lockVars>>
       ELSE End(t, "refused")
    /\ UNCHANGED db

Transfer(t) ==
    /\ op[t].kind = "transfer" /\ Ready(t, "second")
    /\ db' = Transferred(db, op[t])
    /\ End(t, "committed")

(* MergeContact lists the domains registered by the source and locks them. *)
(* The statement's snapshot is taken before it waits for the locks, and    *)
(* the row of domain that holds the registrant is not the one it locks.    *)
ListRegistrants(t) ==
    LET os == RegisteredBy(db, op[t].obj) IN
    /\ op[t].kind = "merge" /\ Ready(t, "first")
    /\ listed' = [listed EXCEPT ![t] = [registrant |-> os, contact |-> {}]]
    /\ Enter(t, "second", RelinkLocks(os, 1))
    /\ UNCHANGED <<db, op, waiting, seen, lockVars>>

(* Then the objects the source is a contact of.  The code lists domains,   *)
(* nssets and keysets one after the other; with the source locked only the *)
(* deletion of one of them can come between, and SkipMissing covers it.    *)
ListContacts(t) ==
    LET os == ContactOf(db, op[t].obj) IN
    /\ op[t].kind = "merge" /\ Ready(t, "second")
    /\ listed' = [listed EXCEPT ![t].contact = os]
    /\ Enter(t, "third", RelinkContactLocks(op[t], os))
    /\ UNCHANGED <<db, op, waiting, seen, lockVars>>

(* The re-linking, the deletion of the source (refused while it is linked) *)
(* and the new authinfo of the destination.                                *)
Merge(t) ==
    /\ op[t].kind = "merge" /\ Ready(t, "third")
    /\ IF IsLinked(Relinked(db, op[t], listed[t].registrant, listed[t].contact), op[t].obj)
       THEN UNCHANGED db /\ End(t, "refused")
       ELSE /\ db' = Merged(db, op[t], listed[t].registrant, listed[t].contact)
            /\ End(t, "committed")

-----------------------------------------------------------------------------
(* Any other error of the operation, a caller that changes its mind, a     *)
(* lost connection: the destructor of OperationContext rolls back.         *)
Rollback(t) ==
    /\ stage[t] \in Running
    /\ End(t, "rolledback")
    /\ UNCHANGED db

(* Transactions each of which waits for the next, in a ring.               *)
WaitsFor(t, u) == \E r \in waiting[t] : u \in Blockers(t, r)
Stuck(ts) == ts # {} /\ \A t \in ts : \E u \in ts : WaitsFor(t, u)
Ring(ts)  == Stuck(ts) /\ \A us \in SUBSET ts : Stuck(us) => us = ts

(* PostgreSQL aborts one transaction of a ring.                            *)
BreakDeadlock(t) ==
    /\ \E ts \in SUBSET Tx : t \in ts /\ Ring(ts)
    /\ End(t, "deadlock")
    /\ UNCHANGED db

-----------------------------------------------------------------------------
(* The caller's thread goes on with the operation.                         *)
Step(t) ==
    \/ BeginLookup(t) \/ GetLock(t) \/ ObjectUnknown(t) \/ SkipMissing(t)
    \/ Create(t) \/ Update(t) \/ Renew(t)
    \/ CheckNotLinked(t) \/ Delete(t)
    \/ CheckSponsor(t) \/ Transfer(t)
    \/ ListRegistrants(t) \/ ListContacts(t) \/ Merge(t)

AllEnded == \A t \in Tx : stage[t] \in Ended

Next ==
    \/ \E t \in Tx : Start(t) \/ Step(t) \/ Rollback(t) \/ BreakDeadlock(t)
    \/ AllEnded /\ UNCHANGED vars

Spec == Init /\ [][Next]_vars

(* Each started operation is executed on by its thread, and the deadlock   *)
(* detector runs; nobody has to start an operation or to roll one back.    *)
FairSpec ==
    Spec /\ \A t \in Tx : WF_vars(Step(t)) /\ WF_vars(BreakDeadlock(t))
-----------------------------------------------------------------------------
(* What the locks are worth                                                *)

(* A row locked FOR UPDATE is locked by nobody else, and an object with a  *)
(* locked row is not erased.                                               *)
LocksProtect ==
    \A row \in Rows :
        /\ \A t \in owner[row], u \in owner[row] \cup sharers[row] : t = u
        /\ owner[row] \cup sharers[row] # {} => IsLive(db, row[2])

Has(t, r) == t \in (IF r.mode = "update" THEN owner[r.row] ELSE sharers[r.row])

HasOrNeeds(t, r) == Has(t, r) \/ r \in need[t]

(* Every lock of the plan is held or still to be taken, whatever optional  *)
(* row was skipped.                                                        *)
KeepsPlan(t) ==
    /\ stage[t] = "first" => \A r \in FirstLocks(op[t]) : HasOrNeeds(t, r)
    /\ stage[t] \in {"second", "third"} => \A r \in FirstLocks(op[t]) : Has(t, r)
    /\ stage[t] = "second" /\ op[t].kind = "delete" =>
          \A r \in EraseLocks(op[t]) : HasOrNeeds(t, r)
    /\ stage[t] \in {"second", "third"} /\ op[t].kind = "merge" =>
          \A o \in listed[t].registrant \cup listed[t].contact :
              \/ t \in owner[<<"registry", o>>]
              \/ \E r \in need[t] : r.row = <<"registry", o>> /\ r.mode = "update"
    /\ stage[t] = "third" =>
          /\ op[t].kind = "merge"
          /\ \A r \in RelinkContactLocks(op[t], {}) : HasOrNeeds(t, r)
    /\ \A r \in need[t] : r.optional =>
          /\ stage[t] \in {"second", "third"}
          /\ op[t].kind = "transfer" \/ (op[t].kind = "merge" /\ r.how = "lookup")

PlanIsKept == \A t \in Tx : KeepsPlan(t)

(* What an operation has read stays true until it acts on it: the object   *)
(* to delete stays unlinked, the object to transfer keeps its sponsor, the *)
(* lists of a merge miss nothing that is linked to the source.             *)
ChecksHold(t) ==
    /\ stage[t] = "second" /\ op[t].kind = "delete" /\ op[t].obj \notin Domains =>
          ~IsLinked(db, op[t].obj)
    /\ stage[t] = "second" /\ op[t].kind = "transfer" =>
          db[op[t].obj].sponsor # op[t].registrar
    /\ stage[t] \in {"second", "third"} /\ op[t].kind = "merge" =>
          RegisteredBy(db, op[t].obj) \subseteq listed[t].registrant
    /\ stage[t] = "third" =>
          /\ ContactOf(db, op[t].obj) = {o \in listed[t].contact : IsLive(db, o)}
          /\ \A o \in listed[t].contact : db[o].life # "free"

ChecksStayTrue == \A t \in Tx : ChecksHold(t)

-----------------------------------------------------------------------------
Atomic == INSTANCE AtomicRegistry WITH db <- db

(* Every committed operation happens atomically at its commit: the objects *)
(* it links are live then, what it erases is unlinked then, a transferred  *)
(* object still has another sponsor (the look-ups FOR SHARE and FOR UPDATE *)
(* protect what was read before).                                          *)
OperationsAreAtomic == Atomic!Spec

(* No live object ever refers to an erased one: DeleteContact, DeleteNsset *)
(* and DeleteKeyset against every operation that links.                    *)
NoDanglingReference == NoDangling(db)

(* A deadlock takes an operation that locks against the order in which all *)
(* others lock (domain, then nsset and keyset, then contact; and           *)
(* object_registry before object): TransferContact, which begins with the  *)
(* row of object, or MergeContact, which begins with the contacts.         *)
DeadlockNeedsInversion ==
    \A ts \in SUBSET Tx : Ring(ts) =>
        \E t \in ts : \/ op[t].kind = "merge"
                       \/ (op[t].kind = "transfer" /\ op[t].obj \in Contacts)

(* MergeContact changes the registrant of no domain but those whose        *)
(* registrant is the source.                                               *)
MergeKeepsOtherRegistrants ==
    [][\A t \in Tx : Merge(t) =>
          \A d \in Domains : db[d].registrant # op[t].obj => db'[d].registrant = db[d].registrant]_vars

(* "Unknown object" is thrown only when an object that the operation needs *)
(* is not registered (any more).                                           *)
UnknownMeansErased ==
    [][\A t \in Tx : ObjectUnknown(t) => \E r \in need[t] : ~IsLive(db, r.row[2])]_vars

(* Every operation that was started ends: committed, refused or aborted.   *)
EveryOperationEnds == \A t \in Tx : stage[t] \in Running ~> stage[t] \in Ended
=============================================================================
