# Verification of libfred

libfred is the C++ library with which the components of the FRED domain
registry work on its PostgreSQL database. This directory holds TLA+ models of
it, the instances TLC checks, and proofs for the TLA+ proof system.

The library keeps almost no state in memory. Its state is the database; each
operation is a class whose `exec(ctx)` sends some SQL statements through
`OperationContext` (`src/src/libfred/opcontext.cc`), a transaction in READ
COMMITTED mode. What makes it hard is therefore not in any one function: it is
what several transactions do to one another between their statements, and what
a function that reads `CURRENT_TIMESTAMP`, or a row it did not lock, assumes
about the others. This is what the models are about.

## The system

| Part | State | Operations | What must hold |
|---|---|---|---|
| Registered objects (`registrable_object/{contact,nsset,keyset,domain}`, `object/`) | `object_registry` (name, type, `erdate`, `historyid`), `object` (sponsor), `contact`, `nsset`, `keyset`, `domain` and their link tables, history | create, update, delete, transfer, renew | no live object refers to an erased one; each operation acts on what it checked; each leaves a version that tells exactly what it did |
| Merge of contacts (`contact/merge_contact*.cc`, `find_contact_duplicates.cc`, `copy_contact.cc`) | the same | find duplicates, select one to stay, re-link everything from one contact to another, delete the first, mail | nothing linked to the source is missed, nothing else changes; what is offered for a merge can be merged |
| Info, diff and history queries (`info_*`, `get_*_history*`, `check_*`) | none | read | one answer, the one of the time asked for |
| Operation contexts (`opcontext.cc`) | a connection with an open transaction | commit, roll back (destructor), prepare, commit or roll back a prepared one | all or nothing; every lock released |
| Object states (`object_state/`) | `object_state_request`, `object_state`, reasons of blocks | create, cancel and clear requests, block, unblock, restore, perform; ask for states and their history | intervals do not overlap; a block replaces, a restore brings back, the server states |
| Public requests (`public_request/`) | `public_request` with status opened, resolved or invalidated, letters attached to them | create, update, resolve by lock or over an object | at most one opened request of a type, no endless loop |
| Authinfo (`object/*authinfo*`, `transfer_object.cc`) | `object_authinfo`: password, expiry, use count, cancellation | store, check and count, check and cancel, clean, expire, transfer | uses are counted; a transfer leaves no usable password |
| Registrars (`registrar/`) | periods of zone access, certifications, groups and their members, EPP certificates | create, update, end, clone | periods do not overlap; updates change what they are given |
| Credit (`registrar/credit`) | `registrar_credit`, its transactions | find or create, charge | a first charge succeeds whoever else charges |
| Zones and names (`zone/`, `domain/check_domain.cc`, `domain_name.cc`) | `zone`, SOA, NS, checkers of names, black list | create, update, configure, check, register | a domain fits the zone it is in |
| Contact verification (`contact/verification`) | checks, their tests, the history of both | create, change status, tell, list; cancel final states | no status is lost; a verdict does not outlive the data it speaks of |
| Poll messages (`poll/`) | `message` and its details | create for updates, transfers, deletions, states, low credit | those who are concerned, and only those |
| Notifier (`notifier/`) | queue of notices | enqueue, process one | each change is told once, as it was |
| Utilities (`src/src/util`) | connections, random numbers, hashes | - | - |

Parts interact through rows. An operation looks objects up with a query `FOR
SHARE` or `FOR UPDATE OF` the row of `object_registry`; updates and transfers go
on to `object`; a deletion asks `ObjectHasState(linked)`; a merge and a transfer
call the look-ups, updates and `CheckAuthinfo` of other parts; domains, nssets
and keysets refer to contacts, domains to nssets and keysets; each change gets a
row of `history`, which notices, poll messages and queries refer to afterwards.

`PROJECT.json` lists every part with its files, and the hazards with the line
where each bites and the properties that answer it.

## Modules

| Module | What it is |
|---|---|
| `RegistryObjects` | the data of the register (one record for an object: life, sponsor, history id, references) and what each operation makes of it, as functions of the data |
| `AtomicRegistry` | the abstract specification: each operation happens at one instant |
| `Registry` | the operations as transactions with their row locks, checks and commits; implements `AtomicRegistry` |
| `ObjectTables` | the tables of objects and of their versions, column by column as far as operations tell columns apart, and what each operation writes to them |
| `ObjectQueries` | what the info, diff and history queries answer about these tables |
| `ContactMerge` | duplicates, the selection of the contact that stays, the data of a merge, mails about merges, copies of contacts, whether a name is free |
| `ObjectHistory` | these operations in transactions whose times and commits are in different orders |
| `Notices` | on top of `ObjectHistory`: poll messages, the queue of notices and the workers that mail them |
| `ObjectStateRequests`, `ObjectStateHistory` | requests for the states of one object; queries for its states |
| `PublicRequests` | the public requests of one object |
| `Authinfo` | the passwords of objects, statement by statement |
| `Transactions` | READ COMMITTED transactions on tables of rows: table locks, row locks, drafts, unique columns |
| `Registrars`, `RegistrarAccounts`, `Zones`, `ContactChecks` | operations in such transactions |
| `Administration` | their composition and its properties |
| `MC...` | instances for TLC |
| `..._proofs` | theorems |

### Registry

A transaction `t` runs one operation `op[t]`. The statements that only read
and lock are `need[t]`, a set of lock requests with a rank: the code takes them
in the order of rank, and among equal ranks (the handles of a list the caller
gives, the rows of one query) in any order. Between groups of locks are the
code's own checks, and `stage[t]` says how many groups have been taken:

| Code | Locks, in order | Actions |
|---|---|---|
| `CreateDomain`, `CreateNsset`, `CreateKeyset`, `CreateContact` | registrant, nsset, keyset, contacts `FOR SHARE` | `Create` |
| `UpdateDomain` ... | the object `FOR UPDATE`, its row of `object`, what it is to refer to `FOR SHARE` | `Update` |
| `RenewDomain` | the object `FOR UPDATE` | `Renew` |
| `DeleteContact` ... | the object `FOR UPDATE`; `ObjectHasState(linked)`; then the row of `object` | `CheckNotLinked`, `Delete` |
| `TransferContact` ... | (not for contacts: the object `FOR UPDATE`), its row of `object`; the sponsor is compared; then the object and its contacts `FOR SHARE` for the password, then `object_registry` is written | `CheckSponsor`, `Transfer` |
| `MergeContact` | both contacts; the domains of the registrant, each with its row of `object`; the domains, nssets, keysets the source is a contact of; both contacts' rows of `object` | `ListRegistrants`, `ListContacts`, `Merge` |

Taking a lock is two actions, because a statement can wait: `BeginLookup` takes
the statement's snapshot and `GetLock` is possible when nobody else holds the
row. When PostgreSQL gives the lock to a statement that waited, it evaluates the
query again on the newest version of the locked row only. So a look-up that
joins `history` on `object_registry.historyid` (`how = "info"`) finds nothing
when the row got a new history id meanwhile; `Found` and `Misses` say so. A
look-up that finds nothing throws (`ObjectUnknown`) or, where the row is one of
a list that the code has just read, is skipped (`SkipMissing`).

Writes and COMMIT are one action: what a READ COMMITTED transaction writes is
seen by nobody before it commits, and the locks that guard it are modelled.
`Rollback` may happen at any point (any exception, a caller that gives up, a
lost connection; `~OperationContext`, `opcontext.cc:147`). `BreakDeadlock` is
PostgreSQL's deadlock detector. PostgreSQL's locks, its re-evaluation and its
detector, `create_object` and the computation of the state *linked* are
external to the repository and are modelled from how it uses them.

*Linked* is read from the links themselves. In the database it is a row of
`object_state` that triggers keep in step with the links in the same
transaction, so that a reader under the row lock of the object sees the same.

### ObjectTables, ObjectQueries, ContactMerge, ObjectHistory

`Registry` shows that an operation takes effect at one instant. These modules
say what that effect is: every operation is a function from the database to the
database, of a call `c` and of `now`, the time at which its transaction began.
`...Fits` are the checks that make it throw. A call is a record with fields for
what is set, added and removed; `Keep` is a field that an update does not set
(an unset `Optional`), `None` is NULL. `Call` says which calls the classes in the
headers can express, and the assumption `CallsKnown` that an instance uses no
others. A version is a row of `db.history`, and `db.kept` are the rows of the
`*_history` tables that the `copy_history_impl.cc` files write.

`ObjectQueries` has an operator for each query: `Info` and `InfoHistory`, `Diff`,
the look-ups by registrant, contact, nsset, keyset and host, `DataHistory`
(timelines between two limits) and `HandleHistory`. Texts, numbers and dates
that are only stored are one value per object.

`ContactMerge` compares contacts as the code does, twice: `AreDuplicates` is the
`GROUP BY` of the search, `ContactsDiffer` the comparison of the merge itself,
with SQL's NULL. Texts that differ in case and white space only are in one set of
`Alike`. `MergeContact` updates domains, nssets and keysets by the functions of
`ObjectTables`, deletes the source and updates the destination.

In `ObjectHistory` transactions begin at distinct times (`stamp[p]`) and take
effect in any order, so that versions are stamped out of order, as
`CURRENT_TIMESTAMP` does it. There is no abstract specification but the queries:
what the write side makes must be what the read side, written separately in
the code, answers.

### Notices

`Change` is an operation of `ObjectHistory` with its poll messages and its row of
`notification_queue`, one or two equal ones. A worker takes a row
(`TakeRequest`), collects addresses and old and new values from history
(`Gather`), mails each address (`Send`) and deletes all equal rows (`Finish`).
`Fail` can happen at any point, also after mails were sent; what was sent stays
sent. `due` is not in the code: it notes at the time of the change who is
concerned and what should be told, and the properties compare the mails with it.

### ObjectStateRequests, ObjectStateHistory

One object, because every operation takes the object's own lock
(`LockObjectStateRequestLock`). `requests[s]` are the rows of
`object_state_request` for state `s`, `inEffect[s]` those of `object_state`.
`Begin` fixes `stamp[p]`, the `CURRENT_TIMESTAMP` of the transaction, `Lock` waits
for the lock and chooses the call: a caller may have done any amount of other
work in its transaction before, so the stamp may be older than rows the process
then finds. An operation that checks first and writes later is two
actions (`CheckCreate`, `CreateObjectStateRequestId`, and so on), each commit
ends with `PerformObjectStateRequest`, as the callers in the repository do it
and as the tests do. Times are small numbers; `EndOf`, `Overlays`, `Before` and
the others are the SQL conditions, NULL included (`Less` and `LessOrEq` are not
true of NULL). `lock_object_state_request_lock` and `update_object_states` are SQL
functions of the database and external. `ObjectStateHistory` has the queries:
states now, by history id, and the timelines of the four types.

### PublicRequests

One object again: every lock guard (`public_request_lock_guard.cc`,
`public_request_object_lock_guard.cc`) calls `lock_public_request_lock` of the
object and keeps the lock to the end of the transaction. `rows` are the
committed rows of `public_request`, `draft` what the holder of the lock has made
of them, `call[p]` the arguments of the operation.

To create a request cancels opened ones of the types that its type names
(`cancel_on_create`), to update one can invalidate others
(`get_public_request_types_to_cancel_on_update`), and each of these is updated by
the same code, with its own types to cancel. This recursion is the stack
`agenda`; `Plan` says what a call puts on it, and `ListOpened`, `UpdateOne`,
`FindUnresolved` and `Insert` each do what is on top. The lists are as old as in
the code: a row listed before a nested update may be closed when its turn comes.

| Code | Model |
|---|---|
| `CreatePublicRequest`, `CreatePublicRequestAuth` | call `"create"`: `CancelTypes`, then `Insertion` |
| `UpdatePublicRequest::exec` of a locked request | call `"one"`: `UpdateRows` |
| `UpdatePublicRequest::exec` over a locked object | call `"all"`: `Loop` |
| `GetOpenedPublicRequest` (`resolve_time IS NULL`) | `UnresolvedOf` |
| the queries for the status *opened* | `OpenedOf` |
| `update`, with `stop_letter_sending` | `Updated`, `Cascade` |

Which types cancel which is given by programs that use the library; the model
takes any two functions, and the instance for TLC has types that cancel
themselves and one another in a ring. `SendLetter` is the sender of
letters, which takes no part in the locking.

### Authinfo

Here the statements are the matter, so each is modelled row by row. `Snapshot`
is what a statement sees when it begins; `TakeRow` takes the rows it selected one
by one, waits for one that another transaction has changed, and evaluates the
condition of the statement again of what it then finds. `draft` and `writer` are
uncommitted rows; `locked`, `sharers` and `keeper` the locks of `object` and
`object_registry`. Calls are store, check with either visitor
(`increment_usage`, `increment_usage_and_cancel`), clean, expire, and
`transfer_object`, which tries the passwords of the object and then of its
contacts.

### Transactions, Registrars, RegistrarAccounts, Zones, ContactChecks

`Transactions` gives each caller a draft of uncommitted rows, locks of tables in
PostgreSQL's modes and locks of rows, and the waiting for unique columns. A
statement sees what is committed when it starts. Where the code checks with one
statement and writes with another these are two actions, and `seen[p]` is what
the first one read; where it is one statement (`update_registrar_zone_access.cc`)
it is its reading of the table and its writing of the row that are apart.
`Administration` composes the modules. A behaviour has calls of one of thirteen
workloads (`MCAdministration`), since a certification and a black list have
nothing to do with each other.

The time of a state of a check is that at which its transaction began, and the
past of a check is read in the order of these times and then of the ids
(`info_check.cc:247`, `318`; `ByTime`). Whether an update that sets the status
that there is keeps a past state depends on the request and the message, which
are left out: `ChangeState` allows both.

Some definitions have a comment that begins "With a mistake": they are not part
of the specifications. Each is a definition as a plausible slip would have made
it, and the run named in `PROJECT.json` fails when it is put in the place of the
original. They show that the properties can tell.

## Runs

| Run | Instance | Question |
|---|---|---|
| `registry_two` | two transactions, any two of 21 operations, on two contents of the register; 3 contacts, 1 nsset, 1 keyset, 1 domain, 2 registrars | nothing dangles; what was checked stays true until it is acted on; a deadlock needs a merge or a transfer of a contact; `AtomicRegistry` is implemented; every started operation ends |
| `registry_merge` | a merge and an update of the same domain | finding 1 |
| `registry_unknown` | two updates of the same contact | finding 2 |
| `requests_intervals` | one state, intervals of every shape, time 0..3, 3 requests, 2 processes | no request ends before it begins; requests overlap in one way only |
| `requests_blocks` | three server states, blocks now and later, 2 requests per state | what a block leaves besides its own states; a restore loses none; the queries tell the states |
| `requests_overlap` | as `requests_intervals` | finding 3 |
| `public_close` | two types, 7 calls, 3 requests, 2 processes | the two ways to ask for opened requests agree; one opened request of a type; an update of all closes all; letters of invalidated requests stop; every creation and every update with a status ends |
| `public_unset` | creation and an update without status of all requests of a type | finding 4 |
| `authinfo` | a domain, a contact, 2 passwords, 11 calls, 2 transactions | uses are counted; a password that was found is there when it is used; two active ones were stored at once; what a transfer leaves usable; every operation ends |
| `histories` | two contacts, a copy, an nsset and a keyset of one name, an ENUM domain, 31 calls, 2 callers | current versions are the data; versions are kept; they form a chain; timelines tell them; look-ups, name histories, duplicates and mails about merges agree; verdicts end with the data; updates and merges change what they are asked to |
| `administration` | thirteen workloads, 2 callers, at most 3 rows in a table | in which ways alone periods overlap, names nest and checkers pile up; that updates change what they are given; that no status of a check is lost, and in which way alone they are told out of order |
| `notices` | two contacts, an nsset, a domain, 17 calls, 2 callers, 2 workers, 1 failure | who is told, with which values; what is told twice; which notice can never be sent |

Bounds. Interference of row locks is between pairs of operations, and two
transactions meet every pair on every shared row; the proofs below hold for any
number. In `ObjectStateRequests` time to 3 lets a transaction with an old stamp
meet a row that began, was cancelled and was followed by another; two or three
rows for a state let one row lie before, in and around another. Three public
requests let two types have an opened and a closed request or one type two of
them. In `histories` and `notices` the first instants are taken by the calls of
`Start`, and three (two) further transactions follow, two of them at once: enough
for a change, a younger or older one of the same object or of one it names, and
in `histories` a third that meets what the two left, such as the merge of a copy
that was made and verified meanwhile. Two equal rows of the queue (`copies`
1..2) are what two notices enqueued for one change come to, and one failure
suffices for a mail to be sent twice. In `administration` `MaxRows` is 3, so
that a row that was there meets two new ones; `LastDay` is 1 for the workloads
in which the day matters, 0 for the others; a row changes at most three
times (`MaxChanges`): the third puts the second among the past states, where it can be
told before the first.

Callers and workers are interchangeable; the runs without a liveness property
use this symmetry. `CHECK_DEADLOCK FALSE` stands where the system may really
stop: in `authinfo` when both transactions have ended, in `histories` and
`notices` when the clock has run out.

Fairness. `Registry!FairSpec` assumes weak fairness of `Step(t)` (the thread of a
started operation goes on) and of `BreakDeadlock(t)` (PostgreSQL's deadlock
detector runs after `deadlock_timeout`). No caller has to start an operation
or to roll one back. Each transaction runs one operation, so that a lock that
comes free is not taken again and again by others, and weak fairness suffices.
In `PublicRequests` it is weak fairness of `Work(p)`, the thread of an operation
that has the lock; nobody has to get the lock, and nobody has to begin.
In `Authinfo` it is weak fairness of `Proceed(t)`, the next statement or row of a
transaction that is not waiting, and the breaking of a deadlock.

### Findings

1. `MergeKeepsOtherRegistrants` (`merge_contact.cc:190`). The list of domains of
   the source is read by a query that joins `domain` but locks
   `object_registry` only. If an `UpdateDomain` that holds the lock changes the
   registrant of a domain while the query waits, the merge finds the domain in
   its old snapshot, and overwrites the new registrant.
2. `UnknownMeansErased` (`update_contact.cc:718`, `info_contact_impl.cc:137`). Of
   two updates of a contact, the one that waits for the other can report the contact as unknown.
3. `NoOverlap` (`create_object_state_request_id.cc:190`). An interval that
   strictly contains an existing one is not reported as overlapping.
4. `EveryOperationEnds` (`update_public_request.cc:128`). An update of all
   opened requests of a type without a status finds the same request for ever.

Because of the first, `AtomicRegistry!Merge` promises less than one would wish:
it may re-link domains that are no longer the source's.

### What the code does besides

Met while modelling, and part of the models, which is why some properties are
conditional. No doc of the repository says otherwise, so they are no findings.

* A merge compares an address that one contact lacks as NULL, and
  `Database::Value` casts NULL to FALSE: contacts that differ in having an
  address are merged and the address is lost. The search for duplicates tells
  them apart.
* A merge whose source is registrant and administrative contact of a domain
  updates it twice in one transaction: two versions with the same `valid_from`,
  whose order in the timeline (`ORDER BY h.valid_from`) is open. An older
  transaction that updates later leaves a timeline that ends closed although
  the object lives. `InOrder` in `ObjectHistory` excludes both.
* `undisclose_address_async` reads the contact without a lock before it updates it.
* A notice for an nsset or keyset that a domain update exchanged throws for ever
  when that was registered by a younger, or erased by an older, transaction than
  the update (`UnsentWasOutOfTurn`); it is taken again and again, and others wait
  behind it (`LIMIT 1`). An update of a host's addresses alone is dropped without
  a mail, since `diff_nsset_data` compares names. The comment of
  `gather_email_addresses.cc:64` has closed intervals, the code half-open ones.
* Two `StoreAuthinfo` at once leave two active passwords; `store_authinfo.cc:113`
  only logs it.
* `UpdateRegistrarCertification` compares the new end with no other
  certification. Two updates of zone accesses at once can make them overlap,
  and `GetZoneAccessHistory` and charges then fail.
* `CreateRegistrarGroupMembership` closes an open membership, also one that
  begins later, and then meets no dated one; memberships can be created in
  cancelled groups; `EndRegistrarGroupMembership` that finds two unended
  memberships executes `throw;` with no exception, which terminates the process.
  `CancelRegistrarGroup` locks only rows that are cancelled already, so that two
  at once both succeed.
* `CreateDomain` itself checks neither length nor black list nor nested names;
  `CheckDomain` does, before. Two configurations of the checkers of a zone at once
  leave the union of both. A black list period that begins where another ends is
  refused.
* `UpdateRegistrarEppAuth::set_certificate_fingerprint` clears the PEM, the free
  function with a fingerprint alone keeps it; a clone made while the password
  changes keeps the old one. `InfoRegistrar` with a filter over an inline view
  locks only the rows that the outer query returns.
* `InfoContactCheck` may tell a status twice, `ListContactChecks` a finish time
  with a status from before it. A change by a transaction that began before that
  of an earlier change is told before it: `NoStatusIsLost` demands the order of
  changes for all others.
* A block passes over requests that begin after the time of its transaction
  (`clear_object_state_request_id.cc:42`). Such are requests for the future, and
  those of a transaction that began later and had the lock first: then server
  states stand beside those of the block. `BlockReplacesServerStates` says of
  every request that stands after the block, when its transaction began or later,
  that it is the block's own or one of these, and that these are left alone.
* A transfer authorised by the object's own password cleans nothing but what the
  visitor cancels, so that other passwords of the object stay usable;
  `TransferCleans` tells the two cases apart.
* One destination of a merge that is not there any more leaves all mails of
  the batch without addresses (`merge_contact_email_notification_data.cc:242`).
* The reason of a block in the future is dropped; a restored state loses its end;
  a `PerformObjectStateRequest` with an older time can make rows of a state meet,
  so that its timeline shows it off.
* `affected_requests` of an update does not name requests invalidated by
  cascades (`update_public_request.cc:330`).
* Messages about low credit and states are created twice by two runs at once.

## Proofs

`tlapm` proves, for any sets of objects, registrars, transactions and requests:

* `TypeCorrect`, `ReferencesNeverDangle`, `ChecksAlwaysStayTrue` and
  `DeadlocksNeedInversion` (`Registry_proofs`): `Spec => []TypeOK`,
  `Spec => []NoDanglingReference`, `Spec => []ChecksStayTrue`,
  `Spec => []DeadlockNeedsInversion`;
* `RegistryImplementsAtomic` (`Registry_proofs`): `Spec` implements
  `AtomicRegistry`, with the same `db`: a commit is a step of it, everything
  else a stutter.

Assumptions: `TypesDisjoint` (an object has one type), `RequestsExpressible`
(callers ask for what the types of the operations' arguments can say),
`InitialDbsConsistent` (the register starts well).

The argument. Absence of dangling references is not inductive: a deletion needs
to know that nothing has been linked since its check, a creation that
what it looked up is still alive. The inductive invariant is

    IInv == TypeOK /\ WellShaped(db) /\ NoDangling(db)
            /\ LocksProtect /\ PlanIsKept /\ ChecksStayTrue

`LocksProtect`: a row locked `FOR UPDATE` has one holder, and an object with a
locked row is not erased. `PlanIsKept`: every lock an operation should have is
held or still to be taken, so at a commit the locks the code takes are
really there. `ChecksStayTrue` ties these to the data: as long as the contact to
delete is locked `FOR UPDATE`, nobody can hold the `FOR SHARE` lock that linking
it takes. `Registry_proofs` has one lemma for each operation on the data (what it
leaves has the right type and no dangling reference), then one for each action.

For deadlocks there is a second invariant, `OrderIsKept`. It says of every
operation that is neither a merge nor the transfer of a contact: what it still
needs is part of its plan (`NeedsPlanned`), and `FOR UPDATE` it locks only rows of
its own object, the row of `object_registry` before that of `object`
(`OwnRowFirst`). If all in a ring are such operations, then each waits `FOR SHARE`
for the own object of the next, which is of a later type: domains wait for
nssets, keysets and contacts, nssets and keysets for contacts, contacts for
none. No ring can be closed in this way (`RingNeedsInversion`). That the ring is
a smallest one matters: those who wait for it without holding anything are not
part of it.

For `ObjectStateRequests`, for any states, processes and calls:

* `TypeCorrect`, `RequestsStayInOrder`, `OverlapsBeginEarlier`,
  `BlocksReplaceServerStates`, `RestoresLoseNothing` and `TimelineTellsStates`
  (`ObjectStateRequests_proofs`): `Spec => []TypeOK`,
  `Spec => []RequestsAreInOrder`, `Spec => []OverlapBeginsEarlier`,
  `Spec => BlockReplacesServerStates`, `Spec => RestoreLosesNothing`,
  `Spec => []StateHistoryTellsStates`.

Assumptions: `StatesKnown`, `NoneIsNoTime` (NULL is no time), `CallsTyped` (a
block is of blocking states). The bounds of the clock and of the number of
requests play no part. The invariant adds that the lock has one holder and that
what was checked under the lock still stands (`CheckedAll`); the lemmas are about
rows: cancelling shortens a row and not beyond its beginning
(`CancelShortens`), shorter rows share less (`ShorterShareLess`), and a row
that the SQL condition lets pass begins before any row it overlaps
(`NewRowBeginsEarlier`).
The next two are action properties: what a restore found, under the lock, of
the states in effect before the first block (`FoundStands`) is what it writes
from; and at the commit of a block every request for a server state that stands
and is not the block's own begins after the block's time and has been left as it
was, because clearing cancels all others (`ClearedStandLater`) and creating only
adds rows.

The last is about the timeline of `ObjectStateHistory`. Its invariant
(`RecordedByNow`) says of the rows of a state that they have begun and ended by
now, and that at most the last is open. The timeline is a recursive function over
the instants, so it can be followed instant by instant: what it holds before an
instant tells the states in effect just before (`Told`), a change adds a record
and anything else leaves the last one true. A record is read at the greatest
position that has begun (`ReadAt`). Where rows of a state meet, the timeline shows
the end and not the beginning, which is why they have to be apart.

For `PublicRequests`, for any processes, calls, types and functions that say
which types cancel which:

* `TypeCorrect`, `UnresolvedIsOpened`, `OneIsOpened`, `LoopClosesAll` and
  `LettersAreStopped` (`PublicRequests_proofs`): `Spec => []TypeOK`,
  `Spec => []OpenedIsUnresolved`, `Spec => []OneOpened`, `Spec => AllAreClosed`,
  `Spec => LettersStop`.

Assumptions: `TypesKnown` and `NoneIsNothing`, which give the constants their
types. That one request is opened is not inductive: it needs to know why
there is none left when the new one is inserted. The invariant says what is on
the stack of the holder (`HolderOnCourse`): its last item is what the call is
for (`Shaped`), its ids are rows (`IdsKnown`), every opened request of the types
to cancel on creation is still on the stack, by its type or by its id
(`Covered`), and when the stack of an update of all requests is empty, all are
closed (`AllClosed`). `Pushed` and `PushedOnCourse` are about the stack when its
head is replaced, `Closer` about tables in which rows are closed and never opened.

`LettersStop` compares committed rows with those before, so its invariant speaks
of the draft: a row that was opened when the transaction began and is invalidated
in the draft has no letter left to send (`Stopped`), and what has been resolved
since will not be invalidated by what is still on the stack, which would leave
its letter alone (`Spares`). Letters that are sent meanwhile, outside the lock,
change neither.

For `Authinfo`, for any objects, passwords, transactions and calls:

* `TypeCorrect`, `UsesCounted`, `VisitorFinds`, `ActiveWereConcurrent` and
  `TransferCleansObject` (`Authinfo_proofs`): `Spec => []TypeOK`,
  `Spec => []UsesAreCounted`, `Spec => []VisitorFindsRow`,
  `Spec => []TwoActiveWereConcurrent`, `Spec => []TransferCleans`.

Assumptions: `NoneIsNoTx`, `CallsKnown` (calls have the types of the arguments;
no object is its own contact), `PasswordsAreOthers` (the values that stand for
no usable password are not passwords), `RowsStored` (what was stored before has
no counted uses, and one active row per registrar and object). The invariant is
about the table (`Tables`: a row without writer has no draft of its own,
uses of committed rows are counted, two active rows were stored at once) and
about each transaction (`Goes`: how its draft differs from the table, that what a
`FOR UPDATE` has matched is still usable, which rows it cannot have seen when it
deactivated or cleaned). The latter is why two passwords can only stay active
together, or survive a transfer, when their storing had not ended before.

That the password which authorised a transfer is spent needs a second invariant
upon the first, `Spending`: while a check goes through the rows of the object,
every row with the password of the call that was stored before is still to be
taken, or has matched, or is not usable; a visitor that has seen all that matched
leaves none (`Spent`), because a row keeps its password as long as it is active
(`WordsKept`) and is never usable again.

For `Administration`, for any numbers of processes, rows and days and any calls:

* `WritersAreLocked`, `FirstCharges`, `MembershipsIntersect`, `GroupWasEmpty`,
  `CertificationsOverlap`, `AccessOverlaps`, `UpdatesChange` and `NoStatusLost`
  (`Administration_proofs`):
  `Spec => []Base`, `Spec => []FirstChargesSucceed`,
  `Spec => []MembershipsIntersectByInversion`, `Spec => CancelledGroupWasEmpty`,
  `Spec => CertificationOverlapByUpdate`, `Spec => AccessOverlapWasConcurrent`,
  `Spec => UpdatesChangeWhatTheyAsk`, `Spec => []NoStatusIsLost`.

Assumptions: `NoneIsNoRow` (NULL is neither a number nor a row, of a check neither), `CallsGiveDates`
(calls that write periods give dates, calls about a row name one),
`CallsGiveNames` (calls about names give sequences of labels; an update of a
zone has no argument for its name), `CheckersAreKnown` (the table of checkers is
finite), `StartIsStored` (the tables exist, their rows have the types of their
columns, no two zones have one name, and memberships do not intersect at the
beginning without an inversion).
Certifications and accesses may overlap at the beginning: the theorems say that
nothing but the named operations makes them. The invariant is
`IInv == Base /\ Periods /\ Memberships`. `Base`: locks of tables conflict as
PostgreSQL's do, and an operation that checks a table before it writes holds
the lock it took for that. `Periods`: what a draft that is written and not
committed would make of the table (`Applied`), compared with the table as it
is now: a new certification overlaps nothing in it since others are kept
out, an update of an access overlaps only rows that it saw otherwise, and the
group to cancel is still empty. `Memberships` is harder, since ending a
membership locks no table: memberships of a group are disjoint whichever of
the ends that pending enders may still write are written (`Disjoint`).

`UpdatesChange` has an invariant of its own, `RowsKept`, about the tables in
which every write of a stored row waits for its row lock (`RowwiseTables`): a row
that one transaction has locked or written is in no other's draft, and the draft
of an update is the row as it is now, changed in the columns that were given
(`WritesAsked`). Each operation preserves it because it is `Considerate`: it adds
to its draft only new rows, or rows that are free for it. The tables of contact
checks and of their tests are among them.

`NoStatusLost` is about accounts put together from several statements: one reads
the state a check is in, a later one the states it went through, and updates may
commit in between. Its invariant, `ChecksKept`, says that drafts only continue the
rows of checks and tests (`DraftContinues`, which needs the row locks of
`RowsKept`: a status is appended to the row as it is when it commits), and for
every stage of a query what it has read so far: a state that the row went through
(`WentThrough`), then all states up to one that was the last then or before
(`ToldAll`). Both survive what others commit, because rows only continue
(`Continues`). What is read is the past in the order of time (`ByTime`): different
states have different ranks, each place has a state (`RanksDiffer`,
`RanksArePlaces`, by counting), so that the ranks are the bijection the property
asks for (`Placed`), and they follow the order of changes wherever times do. For the list of checks the time told is the least of those of the
states after the tests (`ToldTime`).

About the registration of domains, under the same assumptions:

* `DomainFits` and `ChecksRepeated` (`Registration_proofs`):
  `Spec => DomainFitsItsZone`, `Spec => RepeatedWasConcurrent`.

`CheckDomain` and `CreateDomain` look for the zone of a name in every check, so
what one check found need not be what the next one finds. The invariant
`NamesKept` says what survives: zones keep their names and their numbers of labels
and no two share a name, domains and the black list are only added to in this
module (`Grows` is what every step of another process does; `Registry` has the
deletion of domains). Hence a zone that was there at
first and is the longest one now was the longest one in each check (`LongestWas`),
and what those checks said of it still holds (`Checked`, `Suits`). The one part
that others can change under a registration is the configuration of checkers,
which is why the property compares it with what was read. A registrar that was
taken for the system's own is locked until the end (`SystemLocked`). For the
black list and for checkers, `BlacklistKept` and `ConfigKept` relate the draft to
the rows read before: rows of checkers are only inserted and deleted, with ids
that nobody remembers (`CheckersNew`), so the rows that are to be deleted are
those that were found, or fewer. That the longest of two suffixes has the
other as its suffix (`SuffixesNest`) and that a name is its own labels followed by
its zone (`BeforeSuffix`) are lemmas about sequences.

For `ObjectHistory`, for any objects, names, calls, order of starts and commits:

* `TablesAreSound`, `HistoryChains`, `VerifiedDataIsSteady`, `CurrentVersionShowsObject`,
  `VersionsStay` and `TimelineIsRead` (`ObjectHistory_proofs`): `Spec => []Sound(db)`,
  `Spec => []HistoryIsAChain`, `Spec => VerifiedDataStays`,
  `Spec => []CurrentVersionIsLive`, `Spec => VersionsAreKept`,
  `Spec => []TimelineTellsVersions`.

Assumptions: `NullIsNoTime` and `KeepIsNotNull` (what stands for NULL is no time and
is not what stands for an argument that was not given), `CallsKnown` (calls have
the arguments of the operations), `StartSucceeds` (each call of those that
filled the database was accepted when it was made). The invariant is
`Sound`: rows and kept rows belong to a registered object of their type and refer
to registered ones, names of living objects of a type differ, the versions of
an object form a chain from its registration on, and what is kept with the
current version is what the tables hold. No operation is treated by itself:
each is shown to be one of three, `Writes` (a new version of one object, the rows
of others untouched), `Creates` or `Erases`, and the three keep `Sound`, never change
what is kept of a version (`Grows`), and change verified data only as `Steady` allows.

A merge of contacts is a fold over sets of objects, each with an update of its
own, and the library's fold theorems need induction over an operator. It is
proved without: the values of a fold are those at the end of a walk, a
sequence of sets and databases in which each step is one update (`WalkBegins`,
`WalkGoesOn`, `WalksAgree`, `WalkExists`), and a property of all walks follows from
a smallest set that is a counterexample (`SmallestSet`). In the same way
`After`, what the initial calls make of an empty database, is treated by the first
call that would break `Sound`, and the recursion of the timeline by the last
version that would be told wrongly (`TimelineEnds`, `TimelineReads`).

For `Notices`, for any numbers of workers, rows and failures:

* `NoneMailedTwice`, `UnsentOutOfTurn` and `PollGoesToConcerned` (`Notices_proofs`):
  `NoticesSpec => []MailedTwiceAfterFailure`, `NoticesSpec => []UnsentWasOutOfTurn`,
  `NoticesSpec => PollReachesConcerned`.

Assumptions: those of `ObjectHistory`, and `CallsAnnounced` (a call that announces
something is of an operation that has a type of event). For the first the
invariant counts (`SendingsCounted`): each time that a notice still pending was
sent to an address, an attempt failed after that; rows of the queue that a worker
has locked stay, and nobody else has one of the same notice (`RowsLocked`);
and a notice is `Told`: it names a version that there is, so that no later
change is the same notice again (`NoticeIsNew`). For the second, the versions of an
object leave no time between its registration and its erasure without one, in
whatever order their transactions began (`Whole`, `VersionAtTime`); so what was
exchanged can be read at the time of the event unless that time is
outside its life. The third compares two ways to ask who uses an object: rows
of versions valid at the moment, and current rows. They name the same if nothing
is stamped later than the change (`ValidIsCurrent`), which the property requires:
that is what the code relies on.

Only model-checked, and why:

* `EveryOperationEnds` of three modules: the prover handles neither fairness nor
  `ENABLED`.
* `LookUpsAgree` and `DiffShowsUpdate` of `ObjectHistory`: they compare several
  queries column by column, for each type of object; no property above rests on them.
* `NoticeReachesConcerned` of `Notices`: for a gathered notice, who is concerned is
  asked of the versions that border on the time of the event, on each of
  six ways an address can come in. What it rests on (no gaps between versions,
  kept rows, one notice per change) is proved for the other three.

## Not modelled

* Formats of names, addresses, DNS keys, and the checkers of names
  themselves: pure functions of strings. What is stored without being compared is
  one value of an object.
* Logging, auditing ids, the query builders, the database wrapper, random
  numbers, password hashes, decimal numbers, types for dates.
* The two-phase variant of `OperationContext`: prepared transactions are kept
  and completed by the programs that use the library; nothing in it recovers them.
* Function-level static caches of `object_state`, filled without
  synchronisation by whatever threads come first: state of the process, not of
  the database.
* Lists for registrars' representatives, enumerations of statuses, poll messages
  about states, low credit, request fees and merges: single statements.
* The balance of `registrar_credit`, which a trigger of the database keeps.

## Plan

Done: all modules above, in the order `RegistryObjects`, `AtomicRegistry`,
`Registry`, `ObjectStateRequests`, `PublicRequests`, `Authinfo`, `ObjectTables` to
`ObjectHistory`, `Transactions` to `Administration`, `Notices`, `ContactMerge`.
What could follow:

1. Proofs of `NoticeReachesConcerned`, `LookUpsAgree` and `DiffShowsUpdate` (see
   above).
2. A model of prepared transactions: prepare, crash, recovery by a caller.
3. Public requests and contact checks in one model with the states they lead to.
