------------------------------- MODULE Authinfo -------------------------------
(***************************************************************************)
(* Passwords that authorise the transfer of an object: StoreAuthinfo,      *)
(* CheckAuthinfo with either of its visitors, CleanAuthinfo,               *)
(* CleanExpiredAuthinfos and transfer_object, as transactions in READ      *)
(* COMMITTED mode over the rows of object_authinfo.                        *)
(*                                                                         *)
(* A statement sees the rows committed when it begins (Snapshot), takes    *)
(* them one by one, waits for those another transaction has changed or     *)
(* locked, and asks its condition again of what it then finds (TakeRow).   *)
(***************************************************************************)
EXTENDS Naturals, Sequences, FiniteSets

CONSTANTS Objects,     \* ids of objects
          Registrars,  \* ids of registrars
          Existing,    \* those objects and registrars that exist
          Passwords,   \* passwords a caller may think of
          Tx,          \* transactions, each of which runs one operation
          None,        \* no transaction
          Calls,       \* the operations they may run
          InitialRows, \* the passwords stored before, a sequence of rows
          InitialSponsor, \* the registrar of each object
          MaxTime      \* the last instant of the clock

ASSUME NoneIsNoTx == None \notin Tx

(* An operation and its arguments; contacts are those that may authorise a *)
(* transfer, and no object is a contact of itself.                         *)
Call ==
    [kind : {"store", "check", "clean", "expire", "transfer"}, object : Objects,
     registrar : Registrars, password : Passwords, ttl : Nat, contacts : SUBSET Objects,
     cancel : BOOLEAN]

ASSUME CallsKnown == \A c \in Calls : c \in Call /\ c.object \notin c.contacts

(* A row of object_authinfo and the transaction that inserted it           *)
Row ==
    [object : Objects, registrar : Registrars,
     password : Passwords \cup {"deactivated", "null", "absent"},
     expires : Nat, canceled : BOOLEAN, used : Nat, by : Tx \cup {None}]

ASSUME PasswordsAreOthers == Passwords \cap {"deactivated", "null", "absent"} = {}

VARIABLES rows,     \* object_authinfo as committed; a row not yet inserted is "absent"
          draft,    \* each row as the transaction that holds it has changed it
          writer,   \* the transaction that holds the row, or None
          sponsor,  \* object.clid
          locked,   \* object -> the transaction that holds its row of object
          sharers,  \* object -> those that hold object_registry FOR SHARE
          keeper,   \* object -> the one that has written to object_registry
          clock,
          tx        \* what each transaction is doing

tables == <<rows, draft, writer>>
locks == <<locked, sharers, keeper>>
vars == <<tables, sponsor, locks, clock, tx>>

Ended == {"committed", "rolledback", "refused", "failed"}

Running(t) == tx[t].stage \notin Ended \cup {"idle"}

(* The row as the transaction sees it                                      *)
View(t, i) == IF writer[i] = t THEN draft[i] ELSE rows[i]

Active(row) == ~row.canceled /\ row.password \in Passwords

Usable(row, now) == Active(row) /\ now < row.expires

SameOwner(a, b) == a.object = b.object /\ a.registrar = b.registrar

(* Passwords stored before: their uses are not counted, and one of a       *)
(* registrar for an object is active.                                      *)
ASSUME RowsStored ==
    /\ InitialRows \in Seq(Row) /\ InitialSponsor \in [Objects -> Registrars]
    /\ \A i \in DOMAIN InitialRows : InitialRows[i].by = None /\ InitialRows[i].used = 0
    /\ \A i, j \in DOMAIN InitialRows :
          Active(InitialRows[i]) /\ Active(InitialRows[j]) /\ SameOwner(InitialRows[i], InitialRows[j])
          => i = j

-----------------------------------------------------------------------------
(* The conditions of the statements                                        *)

ToDeactivate(c, row) == row.object = c.object /\ row.registrar = c.registrar /\ Active(row)

ToVisit(object, now, row) == row.object = object /\ Usable(row, now)

ToClean(c, now, row) == row.object = c.object /\ Usable(row, now)

ToExpire(now, row) == Active(row) /\ row.expires <= now

Selects(t, row) ==
    LET d == tx[t] IN
    \/ d.stage = "deactivate" /\ ToDeactivate(d.call, row)
    \/ d.stage = "match" /\ ToVisit(d.at, d.now, row)
    \/ d.stage = "clean" /\ ToClean(d.call, d.now, row)
    \/ d.stage = "expire" /\ ToExpire(d.now, row)

Statements == {"deactivate", "match", "clean", "expire"}

(* What the UPDATE of the stage makes of a row; FOR UPDATE changes nothing *)
Changed(stage, row) ==
    CASE stage = "deactivate" -> [row EXCEPT !.password = "deactivated"]
      [] stage \in {"clean", "expire"} -> [row EXCEPT !.password = "null", !.canceled = TRUE]
      [] stage = "match" -> row

(* increment_usage and increment_usage_and_cancel                          *)
Used(row, cancels) ==
    IF cancels
    THEN [row EXCEPT !.password = "null", !.canceled = TRUE, !.used = row.used + 1]
    ELSE [row EXCEPT !.used = row.used + 1]

-----------------------------------------------------------------------------
Stage ==
    Statements \cup Ended
    \cup {"idle", "sponsor", "share", "insert", "visit", "ask", "write", "done"}

Transaction ==
    [call : Calls, stage : Stage, now : Nat, at : Objects, left : SUBSET Objects,
     open : BOOLEAN, todo : SUBSET Nat, hits : SUBSET Nat, own : BOOLEAN, friends : BOOLEAN,
     uses : SUBSET Nat, before : SUBSET Tx]

(* Besides types: a row has a draft and perhaps a writer, a statement and  *)
(* its results are about rows that there are.                              *)
TypeOK ==
    /\ rows \in Seq(Row) /\ draft \in Seq(Row) /\ writer \in Seq(Tx \cup {None})
    /\ Len(draft) = Len(rows) /\ Len(writer) = Len(rows)
    /\ sponsor \in [Objects -> Registrars]
    /\ locked \in [Objects -> Tx \cup {None}]
    /\ sharers \in [Objects -> SUBSET Tx]
    /\ keeper \in [Objects -> Tx \cup {None}]
    /\ clock \in Nat
    /\ tx \in [Tx -> Transaction]
    /\ \A t \in Tx : tx[t].todo \cup tx[t].hits \cup tx[t].uses \subseteq DOMAIN rows

Nothing(c) == [call |-> c, stage |-> "idle", now |-> 0, at |-> c.object, left |-> {},
               open |-> FALSE, todo |-> {}, hits |-> {}, own |-> FALSE, friends |-> FALSE,
               uses |-> {}, before |-> {}]

Init ==
    /\ rows = InitialRows /\ draft = InitialRows
    /\ writer = [i \in DOMAIN InitialRows |-> None]
    /\ sponsor = InitialSponsor
    /\ locked = [o \in Objects |-> None]
    /\ sharers = [o \in Objects |-> {}]
    /\ keeper = [o \in Objects |-> None]
    /\ clock = 0
    /\ tx \in [Tx -> {Nothing(c) : c \in Calls}]

(* With a mistake: object_registry stays locked.                           *)
EndKeepingShares(t, outcome, table) ==
    /\ rows' = table /\ draft' = [i \in DOMAIN draft |-> IF writer[i] = t THEN table[i] ELSE draft[i]]
    /\ writer' = [i \in DOMAIN writer |-> IF writer[i] = t THEN None ELSE writer[i]]
    /\ locked' = [o \in Objects |-> IF locked[o] = t THEN None ELSE locked[o]]
    /\ tx' = [tx EXCEPT ![t].stage = outcome, ![t].open = FALSE, ![t].todo = {}]
    /\ UNCHANGED <<sharers, keeper>>

(* The transaction ends and lets go of everything; table is what it leaves *)
End(t, outcome, table) ==
    /\ rows' = table /\ draft' = [i \in DOMAIN draft |-> IF writer[i] = t THEN table[i] ELSE draft[i]]
    /\ writer' = [i \in DOMAIN writer |-> IF writer[i] = t THEN None ELSE writer[i]]
    /\ locked' = [o \in Objects |-> IF locked[o] = t THEN None ELSE locked[o]]
    /\ sharers' = [o \in Objects |-> sharers[o] \ {t}]
    /\ keeper' = [o \in Objects |-> IF keeper[o] = t THEN None ELSE keeper[o]]
    /\ tx' = [tx EXCEPT ![t].stage = outcome, ![t].open = FALSE, ![t].todo = {}]

FirstStage(c) ==
    CASE c.kind \in {"store", "check"} -> "share"
      [] c.kind = "clean" -> "clean"
      [] c.kind = "expire" -> "expire"
      [] c.kind = "transfer" -> "sponsor"

(* NOW() is the beginning of the transaction.  The constructor of          *)
(* StoreAuthinfo refuses a time to live that is not positive.              *)
Begin(t) ==
    /\ tx[t].stage = "idle"
    /\ LET c == tx[t].call IN
       tx' = [tx EXCEPT ![t].stage = IF c.kind = "store" /\ c.ttl = 0 THEN "refused"
                                                                      ELSE FirstStage(c),
                        ![t].now = clock,
                        ![t].left = c.contacts,
                        ![t].before = {u \in Tx : tx[u].stage \in Ended}]
    /\ UNCHANGED <<tables, sponsor, locks, clock>>

(* The row of object is locked FOR UPDATE; the new registrar must exist    *)
(* and not be its sponsor already.                                         *)
LockSponsor(t) ==
    /\ tx[t].stage = "sponsor"
    /\ LET c == tx[t].call IN
       /\ {c.object, c.registrar} \subseteq Existing => locked[c.object] = None
       /\ IF ~({c.object, c.registrar} \subseteq Existing) \/ sponsor[c.object] = c.registrar
          THEN End(t, "refused", rows)
          ELSE /\ locked' = [locked EXCEPT ![c.object] = t]
               /\ tx' = [tx EXCEPT ![t].stage = "share"]
               /\ UNCHANGED <<tables, sharers, keeper>>
    /\ UNCHANGED <<sponsor, clock>>

(* With a mistake: nothing is deactivated.                                 *)
LockForShareOnly(t) ==
    /\ tx[t].stage = "share"
    /\ LET o == tx[t].at IN
       /\ o \in Existing
       /\ tx[t].call.kind = "store" => tx[t].call.registrar \in Existing
       /\ keeper[o] \in {None, t}
       /\ sharers' = [sharers EXCEPT ![o] = @ \cup {t}]
    /\ tx' = [tx EXCEPT ![t].stage = IF tx[t].call.kind = "store" THEN "insert" ELSE "match"]
    /\ UNCHANGED <<tables, sponsor, locked, keeper, clock>>

(* lock_for_share of StoreAuthinfo and of CheckAuthinfo                    *)
LockForShare(t) ==
    /\ tx[t].stage = "share"
    /\ LET o == tx[t].at IN
       /\ o \in Existing
       /\ tx[t].call.kind = "store" => tx[t].call.registrar \in Existing
       /\ keeper[o] \in {None, t}
       /\ sharers' = [sharers EXCEPT ![o] = @ \cup {t}]
    /\ tx' = [tx EXCEPT ![t].stage = IF tx[t].call.kind = "store" THEN "deactivate" ELSE "match"]
    /\ UNCHANGED <<tables, sponsor, locked, keeper, clock>>

(* UnknownObjectId or UnknownRegistrar is thrown; a contact that is not    *)
(* registered is passed over.                                              *)
FindNothing(t) ==
    /\ tx[t].stage = "share"
    /\ LET c == tx[t].call IN
       /\ tx[t].at \notin Existing \/ (c.kind = "store" /\ c.registrar \notin Existing)
       /\ IF tx[t].left # c.contacts
          THEN /\ tx' = [tx EXCEPT ![t].stage = "ask"]
               /\ UNCHANGED <<tables, locks>>
          ELSE End(t, "refused", rows)
    /\ UNCHANGED <<sponsor, clock>>

-----------------------------------------------------------------------------
(* A statement on object_authinfo                                          *)

Snapshot(t) ==
    /\ tx[t].stage \in Statements /\ ~tx[t].open
    /\ tx' = [tx EXCEPT ![t].open = TRUE,
                        ![t].todo = {i \in DOMAIN rows : Selects(t, View(t, i))}]
    /\ UNCHANGED <<tables, sponsor, locks, clock>>

(* check_password of a row that was selected                               *)
Matches(t, i) == tx[t].stage = "match" /\ View(t, i).password = tx[t].call.password

(* With a mistake: a row to be checked is read without FOR UPDATE.         *)
TakeRowUnlocked(t) ==
    /\ tx[t].stage \in Statements /\ tx[t].open
    /\ \E i \in tx[t].todo :
          /\ tx[t].stage = "match" \/ writer[i] \in {None, t}
          /\ IF Selects(t, View(t, i))
             THEN /\ writer' = IF tx[t].stage = "match" THEN writer ELSE [writer EXCEPT ![i] = t]
                  /\ draft' = [draft EXCEPT ![i] = Changed(tx[t].stage, View(t, i))]
                  /\ tx' = [tx EXCEPT ![t].todo = @ \ {i},
                                      ![t].hits = IF Matches(t, i) THEN @ \cup {i} ELSE @]
             ELSE /\ tx' = [tx EXCEPT ![t].todo = @ \ {i}]
                  /\ UNCHANGED <<writer, draft>>
    /\ UNCHANGED <<rows, sponsor, locks, clock>>

TakeRow(t) ==
    /\ tx[t].stage \in Statements /\ tx[t].open
    /\ \E i \in tx[t].todo :
          /\ writer[i] \in {None, t}
          /\ IF Selects(t, View(t, i))
             THEN /\ writer' = [writer EXCEPT ![i] = t]
                  /\ draft' = [draft EXCEPT ![i] = Changed(tx[t].stage, View(t, i))]
                  /\ tx' = [tx EXCEPT ![t].todo = @ \ {i},
                                      ![t].hits = IF Matches(t, i) THEN @ \cup {i} ELSE @]
             ELSE /\ tx' = [tx EXCEPT ![t].todo = @ \ {i}]
                  /\ UNCHANGED <<writer, draft>>
    /\ UNCHANGED <<rows, sponsor, locks, clock>>

Continuation(t) ==
    CASE tx[t].stage = "deactivate" -> "insert"
      [] tx[t].stage = "match" -> "visit"
      [] tx[t].stage = "clean" /\ tx[t].call.kind = "transfer" -> "write"
      [] OTHER -> "done"

AfterStatement(t) ==
    /\ tx[t].stage \in Statements /\ tx[t].open /\ tx[t].todo = {}
    /\ tx' = [tx EXCEPT ![t].open = FALSE, ![t].stage = Continuation(t)]
    /\ UNCHANGED <<tables, sponsor, locks, clock>>

-----------------------------------------------------------------------------
(* store_password: a new row, seen by others when it is committed          *)
Insert(t) ==
    /\ tx[t].stage = "insert"
    /\ LET c == tx[t].call
           row == [object |-> c.object, registrar |-> c.registrar, password |-> c.password,
                   expires |-> tx[t].now + c.ttl, canceled |-> FALSE, used |-> 0,
                   by |-> t]
       IN /\ rows' = Append(rows, [row EXCEPT !.password = "absent"])
          /\ draft' = Append(draft, row)
          /\ writer' = Append(writer, t)
    /\ tx' = [tx EXCEPT ![t].stage = "done"]
    /\ UNCHANGED <<sponsor, locks, clock>>

(* A transfer asks the object first, then the enabled contacts             *)
AsksObject(t) == tx[t].call.kind = "transfer" /\ tx[t].left = tx[t].call.contacts

(* It cancels the password of the object and counts the use of a contact's *)
Cancels(t) == IF tx[t].call.kind = "transfer" THEN AsksObject(t) ELSE tx[t].call.cancel

(* on_match is called for every row locked whose password fits.  A row to  *)
(* be cancelled must still be there to be updated, or the check fails.     *)
Visit(t) ==
    /\ tx[t].stage = "visit"
    /\ LET m == tx[t].hits
           found == {i \in m : Usable(View(t, i), tx[t].now)}
       IN IF Cancels(t) /\ found # m
          THEN End(t, "failed", rows)
          ELSE /\ draft' = [i \in DOMAIN draft |->
                               IF i \in found THEN Used(View(t, i), Cancels(t)) ELSE draft[i]]
               /\ writer' = [i \in DOMAIN writer |-> IF i \in found THEN t ELSE writer[i]]
               /\ tx' = [tx EXCEPT
                            ![t].stage = IF tx[t].call.kind = "transfer" THEN "ask" ELSE "done",
                            ![t].hits = {},
                            ![t].uses = @ \cup found,
                            ![t].own = @ \/ (AsksObject(t) /\ m # {}),
                            ![t].friends = @ \/ (~AsksObject(t) /\ m # {})]
               /\ UNCHANGED <<rows, locks>>
    /\ UNCHANGED <<sponsor, clock>>

(* get_authorized_contacts asks every enabled contact the same password,   *)
(* also when that of the object has matched.                               *)
AskContact(t) ==
    /\ tx[t].stage = "ask" /\ tx[t].left # {}
    /\ \E c \in tx[t].left :
          tx' = [tx EXCEPT ![t].stage = "share", ![t].at = c, ![t].left = @ \ {c}]
    /\ UNCHANGED <<tables, sponsor, locks, clock>>

(* With a mistake: nothing is cleaned after a contact's password.          *)
AuthorizeOnly(t) ==
    /\ tx[t].stage = "ask" /\ tx[t].left = {}
    /\ IF ~tx[t].own /\ ~tx[t].friends
       THEN End(t, "refused", rows)
       ELSE /\ tx' = [tx EXCEPT ![t].stage = "write"]
            /\ UNCHANGED <<tables, locks>>
    /\ UNCHANGED <<sponsor, clock>>

(* Without a match the transfer is refused.  When only a contact's         *)
(* password matched, those of the object are cleaned.                      *)
Authorize(t) ==
    /\ tx[t].stage = "ask" /\ tx[t].left = {}
    /\ IF ~tx[t].own /\ ~tx[t].friends
       THEN End(t, "refused", rows)
       ELSE /\ tx' = [tx EXCEPT ![t].stage = IF tx[t].own THEN "write" ELSE "clean"]
            /\ UNCHANGED <<tables, locks>>
    /\ UNCHANGED <<sponsor, clock>>

(* set_history_id writes to object_registry, which no other may hold.      *)
SetHistoryId(t) ==
    /\ tx[t].stage = "write"
    /\ LET o == tx[t].call.object IN
       /\ sharers[o] \subseteq {t} /\ keeper[o] = None
       /\ keeper' = [keeper EXCEPT ![o] = t]
    /\ tx' = [tx EXCEPT ![t].stage = "done"]
    /\ UNCHANGED <<tables, sponsor, locked, sharers, clock>>

-----------------------------------------------------------------------------
(* The caller commits; set_new_sponsoring_registrar takes effect, too.     *)
Commit(t) ==
    /\ tx[t].stage = "done"
    /\ End(t, "committed", [i \in DOMAIN rows |-> IF writer[i] = t THEN draft[i] ELSE rows[i]])
    /\ sponsor' = IF tx[t].call.kind = "transfer"
                  THEN [sponsor EXCEPT ![tx[t].call.object] = tx[t].call.registrar] ELSE sponsor
    /\ UNCHANGED clock

(* The caller gives up, or an exception goes through the context.          *)
Rollback(t) ==
    /\ Running(t)
    /\ End(t, "rolledback", rows)
    /\ UNCHANGED <<sponsor, clock>>

WaitsFor(t, u) ==
    LET d == tx[t]
        o == d.call.object
    IN t # u /\
       \/ d.stage = "sponsor" /\ locked[o] = u
       \/ d.stage = "share" /\ keeper[d.at] = u
       \/ d.stage = "write" /\ (u \in sharers[o] \/ keeper[o] = u)
       \/ d.open /\ \E i \in d.todo : writer[i] = u

Ring(ts) == ts # {} /\ \A t \in ts : \E u \in ts : WaitsFor(t, u)

(* PostgreSQL ends one of those that wait for one another.                 *)
BreakDeadlock(t) ==
    /\ \E ts \in SUBSET Tx : t \in ts /\ Ring(ts)
    /\ End(t, "rolledback", rows)
    /\ UNCHANGED <<sponsor, clock>>

Tick ==
    /\ clock < MaxTime
    /\ clock' = clock + 1
    /\ UNCHANGED <<tables, sponsor, locks, tx>>

Proceed(t) ==
    \/ LockSponsor(t) \/ LockForShare(t) \/ FindNothing(t) \/ Snapshot(t) \/ TakeRow(t) \/ AfterStatement(t)
    \/ Insert(t) \/ Visit(t) \/ AskContact(t) \/ Authorize(t) \/ SetHistoryId(t)
    \/ Commit(t) \/ BreakDeadlock(t)

Next == Tick \/ \E t \in Tx : Begin(t) \/ Proceed(t) \/ Rollback(t)

Spec == Init /\ [][Next]_vars

(* A transaction that can go on does; a deadlock is broken.                *)
FairSpec == Spec /\ \A t \in Tx : WF_vars(Proceed(t))

-----------------------------------------------------------------------------
(* No use of a password is lost when several transactions check it at a    *)
(* time: use_count is the number of committed ones that it satisfied.      *)
UsesAreCounted ==
    \A i \in DOMAIN rows :
        rows[i].used = Cardinality({t \in Tx : tx[t].stage = "committed" /\ i \in tx[t].uses})

(* What CheckAuthinfo has locked is still there when its visitor updates   *)
(* it: increment_usage_and_cancel never throws.                            *)
VisitorFindsRow == \A t \in Tx : tx[t].stage # "failed"

(* StoreAuthinfo leaves one active password of a registrar for an object,  *)
(* unless several store at the same time (the locks FOR SHARE let them).   *)
TwoActiveWereConcurrent ==
    \A i, j \in DOMAIN rows :
        i # j /\ Active(rows[i]) /\ Active(rows[j]) /\ SameOwner(rows[i], rows[j]) =>
            /\ rows[i].by # None
            /\ rows[j].by # None => rows[i].by \notin tx[rows[j].by].before

(* Of the passwords of an object that were stored before a transfer of it  *)
(* began, the one that authorised it cannot be used again, and none at all *)
(* can if it was authorised by the password of a contact only.             *)
TransferCleans ==
    \A t \in Tx :
        tx[t].stage = "committed" /\ tx[t].call.kind = "transfer" =>
            \A i \in DOMAIN rows :
                /\ rows[i].object = tx[t].call.object /\ Usable(rows[i], tx[t].now)
                /\ tx[t].own => rows[i].password = tx[t].call.password
                => rows[i].by # None /\ rows[i].by \notin tx[t].before

(* Every operation that was started ends, deadlocks of transfers with      *)
(* checks and stores included.                                             *)
EveryOperationEnds == \A t \in Tx : Running(t) ~> tx[t].stage \in Ended
=============================================================================
