------------------------------- MODULE Notices -------------------------------
(***************************************************************************)
(* Who is told of a change: mails of the notifier and poll messages.       *)
(*                                                                         *)
(* A change, its row in notification_queue and its poll messages are one   *)
(* transaction.  Workers take rows from the queue later, each in a         *)
(* transaction of its own, and mail every address before they commit.      *)
(* Mails are sent at once and stay sent when the transaction is lost.      *)
(***************************************************************************)
EXTENDS ObjectHistory, Bags

CONSTANTS Worker,       \* those who call process_one_notification_request
          MaxFailures   \* bound of the attempts that fail

(* What is announced is one of the operations that have a type of event.   *)
ASSUME CallsAnnounced ==
    \A c \in Calls : c.kind \in {"create", "update", "delete", "transfer", "renew"}

VARIABLES queue,     \* rows of notification_queue
          worker,    \* worker[w]: the notice it processes, or None
          sent,      \* bag of <<notice, address>>
          failures,  \* bag of the notices of attempts that failed
          messages,  \* poll messages
          due        \* notice -> whom the change concerned when it was made

told == <<queue, worker, sent, failures, messages, due>>
allVars == <<vars, told>>

(* notification_request: two rows of the queue may be the same notice.     *)
Notice(type, event, h) == [type |-> type, event |-> event, h |-> h]

EventOf(kind) ==
    CASE kind = "create" -> "created" [] kind = "update" -> "updated" [] kind = "delete" -> "deleted"
      [] kind = "transfer" -> "transferred" [] kind = "renew" -> "renewed"

-----------------------------------------------------------------------------
(* gather_email_addresses                                                  *)

(* The version that ended when this one began, if any                      *)
Previous(d, h) == {k \in DOMAIN d.history : d.history[k].next = h}

TimeOfEvent(d, n) == IF n.event = "deleted" THEN d.history[n.h].to ELSE d.history[n.h].from

ValidAt(d, k, t) == d.history[k].from <= t /\ (d.history[k].to # None => t < d.history[k].to)

(* The versions that are asked whom to notify: of an update, two           *)
Shown(d, n) == {n.h} \cup (IF n.event = "updated" THEN Previous(d, n.h) ELSE {})

LinkedIn(d, h, table) == {r.contact : r \in Version(d, h)[table]}

(* Nssets or keysets that an update has exchanged for one another          *)
Exchanged(d, n, field) ==
    LET all == {r[field] : r \in UNION {Version(d, h)["domain"] : h \in Shown(d, n)}}
    IN IF Cardinality(all) > 1 THEN all \ {None} ELSE {}

(* With a mistake: only versions that still hold are looked at.            *)
BorderingNow(d, id, t) ==
    {k \in VersionsOf(d, id) : d.history[k].from <= t /\ d.history[k].to = None}

(* Versions at the time of the event, both ends included                   *)
Bordering(d, id, t) ==
    {k \in VersionsOf(d, id) :
        d.history[k].from <= t /\ (d.history[k].to # None => t <= d.history[k].to)}

ContactsOfDomain(d, n) ==
    LET t == TimeOfEvent(d, n) IN
    UNION ({LinkedIn(d, h, "domain_contact_map") \cup {r.registrant : r \in Version(d, h)["domain"]} :
            h \in Shown(d, n)}
           \cup {UNION {LinkedIn(d, k, "nsset_contact_map") : k \in Bordering(d, i, t)} :
                 i \in Exchanged(d, n, "nsset")}
           \cup {UNION {LinkedIn(d, k, "keyset_contact_map") : k \in Bordering(d, i, t)} :
                 i \in Exchanged(d, n, "keyset")})

ContactsOfNsset(d, n)  == UNION {LinkedIn(d, h, "nsset_contact_map") : h \in Shown(d, n)}
ContactsOfKeyset(d, n) == UNION {LinkedIn(d, h, "keyset_contact_map") : h \in Shown(d, n)}

(* An nsset or keyset that was exchanged has no version at that time: it   *)
(* is an error, and the notice is never sent.                              *)
CanBeGathered(d, n) ==
    \A i \in Exchanged(d, n, "nsset") \cup Exchanged(d, n, "keyset") : Bordering(d, i, TimeOfEvent(d, n)) # {}

(* With a mistake: the addresses that the contacts have now                *)
AddressesNow(d, ids, t) == {r.value : r \in {x \in d.live["contact"] : x.id \in ids}} \ {None}

(* notifyemail of the contacts at the time of the event                    *)
AddressesAt(d, ids, t) ==
    {e.row.value : e \in {k \in d.kept["contact"] : k.row.id \in ids /\ ValidAt(d, k.h, t)}} \ {None}

Addresses4Contact(d, n) ==
    {r.value : r \in UNION {Version(d, h)["contact"] : h \in Shown(d, n)}} \ {None}

GatherAddresses(d, n) ==
    LET t == TimeOfEvent(d, n) IN
    CASE n.type = "contact" -> Addresses4Contact(d, n)
      [] n.type = "domain" -> AddressesAt(d, ContactsOfDomain(d, n), t)
      [] n.type = "nsset" -> AddressesAt(d, ContactsOfNsset(d, n), t)
      [] n.type = "keyset" -> AddressesAt(d, ContactsOfKeyset(d, n), t)

-----------------------------------------------------------------------------
(* gather_email_content                                                    *)

(* Old and new values of the fields that differ                            *)
OldNew(a, b, fields) == [f \in Differ(a, b, fields) |-> <<a[f], b[f]>>]

FreshContact(a) == [f \in ContactFields |-> <<a[f]>>]

ContactChanges(a, b) == OldNew(a, b, ContactFields)

(* Hosts are shown if the difference of the nssets has them.               *)
NssetChanges(a, b)  == OldNew(a, b, DiffNsset(a, b) \ CommonFields)
KeysetChanges(a, b) == OldNew(a, b, KeysetFields)

(* The end of the registration is not shown.                               *)
DomainChanges(a, b) == OldNew(a, b, DomainFields \ {"exdate"})

ShowContact(event, old, new) ==
    CASE event = "created" -> FreshContact(new) [] event = "updated" -> ContactChanges(old, new)
      [] OTHER -> <<>>
ShowNsset(event, old, new)  == IF event = "updated" THEN NssetChanges(old, new) ELSE <<>>
ShowKeyset(event, old, new) == IF event = "updated" THEN KeysetChanges(old, new) ELSE <<>>
ShowDomain(event, old, new) == IF event = "updated" THEN DomainChanges(old, new) ELSE <<>>

Show(n, old, new) ==
    CASE n.type = "contact" -> ShowContact(n.event, old, new)
      [] n.type = "nsset" -> ShowNsset(n.event, old, new)
      [] n.type = "keyset" -> ShowKeyset(n.event, old, new)
      [] n.type = "domain" -> ShowDomain(n.event, old, new)

GatherContent(d, n) ==
    LET data(h) == CHOOSE i \in InfoHistory(d, h) : TRUE
        before == IF n.event = "updated" THEN Previous(d, n.h) ELSE {n.h}
    IN [handle |-> data(n.h).common.handle,
        show |-> Show(n, data(CHOOSE h \in before : TRUE), data(n.h))]

(* An update is notified of only if the mail shows a change.               *)
HasChanges(n, content) == n.event = "updated" => DOMAIN content.show # {}

-----------------------------------------------------------------------------
(* Poll messages                                                           *)

Sponsors(d, h) == {r.clid : r \in Version(d, h)["object"]}

(* With a mistake: only the registrars of the registrant's domains         *)
AdditionalOfRegistrant(d, n) ==
    LET ids == OwnersOf(d, n.h)
        t == d.history[n.h].from
        with(h) == \E r \in Version(d, h)["domain"] : r.registrant \in ids
    IN (UNION {Sponsors(d, h) : h \in {k \in DOMAIN d.history : with(k) /\ ValidAt(d, k, t)}})
       \ Sponsors(d, n.h)

(* Registrars of the domains that had the contact when it was updated      *)
AdditionalRecipients(d, n) ==
    LET ids == OwnersOf(d, n.h)
        t == d.history[n.h].from
        with(h) == \/ \E r \in Version(d, h)["domain"] : r.registrant \in ids
                   \/ \E i \in ids : i \in LinkedIn(d, h, "domain_contact_map")
    IN (UNION {Sponsors(d, h) : h \in {k \in DOMAIN d.history : with(k) /\ ValidAt(d, k, t)}})
       \ Sponsors(d, n.h)

DoneBySponsor(d, n) ==
    \A r \in Version(d, n.h)["object"] : \A h \in Previous(d, n.h) : r.upid \in Sponsors(d, h)

Recipients(d, n) ==
    CASE n.event = "transferred" -> UNION {Sponsors(d, h) : h \in Previous(d, n.h)}
      [] n.event = "updated" /\ n.type = "contact" ->
            AdditionalRecipients(d, n) \cup (IF DoneBySponsor(d, n) THEN {} ELSE Sponsors(d, n.h))
      [] n.event = "updated" /\ n.type # "contact" -> Sponsors(d, n.h)
      [] n.event = "deleted" /\ n.type \in {"contact", "domain"} -> Sponsors(d, n.h)
      [] OTHER -> {}

-----------------------------------------------------------------------------
(* A change and what its transaction says of it                            *)

(* The contacts of an object as it is                                      *)
Concerned(d, id) ==
    LET links == {"nsset_contact_map", "keyset_contact_map", "domain_contact_map"} IN
    ({id} \cap {r.id : r \in d.live["contact"]})
    \cup {r.contact : r \in UNION {Rows(d, t, id) : t \in links}}
    \cup {r.registrant : r \in Rows(d, "domain", id)}

(* With those of an nsset or keyset that it refers to only before, or only *)
(* after the change                                                        *)
DueTo(before, after, id) ==
    LET refs(d) == (UNION {{r.nsset, r.keyset} : r \in Rows(d, "domain", id)}) \ {None}
        moved == IF Rows(before, "domain", id) = {} \/ Rows(after, "domain", id) = {} THEN {}
                 ELSE (refs(before) \ refs(after)) \cup (refs(after) \ refs(before))
    IN UNION {{<<r.id, r.value>> : r \in
                  {x \in d.live["contact"] :
                     x.id \in UNION {Concerned(d, i) : i \in {id} \cup moved}}} :
              d \in {before, after}}

(* The content of the mail, as the data is before and after the change     *)
ContentDue(n, id) ==
    LET before == IF n.event = "created" THEN {} ELSE Info(db, id)
        after == IF n.event = "deleted" THEN {} ELSE Info(db', id)
        one(a, b) == CHOOSE i \in IF a = {} THEN b ELSE a : TRUE
    IN [handle |-> one(after, before).common.handle,
        show |-> Show(n, one(before, after), one(after, before))]

(* The callers in the registry server enqueue the notice of what they have *)
(* done, perhaps twice, and create poll messages.                          *)
Change(p, c, copies) ==
    LET now == stamp[p]
        id == IF c.kind = "create" THEN Len(db.registry) + 1 ELSE IdOf(db, c.type, c.name)
        n == Notice(c.type, EventOf(c.kind), db'.registry[id].historyid)
    IN /\ Perform(p, c)
       /\ queue' = queue \cup {[notice |-> n, copy |-> i] : i \in 1..copies}
       /\ messages' = messages \cup {[notice |-> n, clid |-> r] : r \in Recipients(db', n)}
       /\ due' = [m \in DOMAIN due \cup {n} |->
                     IF m = n THEN [to |-> DueTo(db, db', id), content |-> ContentDue(n, id),
                                    last |-> Len(db'.history),
                                    erased |-> {i \in DOMAIN db'.registry : db'.registry[i].erased # None}]
                     ELSE due[m]]
       /\ UNCHANGED <<worker, sent, failures>>

-----------------------------------------------------------------------------
(* process_one_notification_request                                        *)

Idle == [notice |-> None, stage |-> "idle", left |-> {}, content |-> None]

NoticesInit ==
    /\ Init
    /\ queue = {} /\ messages = {} /\ due = <<>>
    /\ worker = [w \in Worker |-> Idle]
    /\ sent = EmptyBag /\ failures = EmptyBag

(* A row is locked and deleted, and with it all that are equal.  A row     *)
(* that is locked already makes the operation fail at once (NOWAIT).       *)
TakeRequest(w) ==
    /\ worker[w].stage = "idle"
    /\ \E row \in queue :
          /\ \A v \in Worker : worker[v].notice # row.notice
          /\ worker' = [worker EXCEPT ![w] = [Idle EXCEPT !.notice = row.notice, !.stage = "taken"]]
    /\ UNCHANGED <<vars, queue, sent, failures, messages, due>>

Gather(w) ==
    LET n == worker[w].notice
        content == GatherContent(db, n)
    IN
    /\ worker[w].stage = "taken" /\ CanBeGathered(db, n)
    /\ worker' = [worker EXCEPT
          ![w].stage = "sending", ![w].content = content,
          ![w].left = IF HasChanges(n, content) THEN GatherAddresses(db, n) ELSE {}]
    /\ UNCHANGED <<vars, queue, sent, failures, messages, due>>

Send(w) ==
    \E a \in worker[w].left :
        /\ sent' = sent (+) SetToBag({<<worker[w].notice, a>>})
        /\ worker' = [worker EXCEPT ![w].left = @ \ {a}]
        /\ UNCHANGED <<vars, queue, failures, messages, due>>

(* With a mistake: of equal rows only the one that was locked is deleted.  *)
TakenOnly(n) == {row \in queue : row.notice = n /\ \A r \in queue : r.notice = n => row.copy <= r.copy}

Taken(n) == {row \in queue : row.notice = n}

Finish(w) ==
    /\ worker[w].stage = "sending" /\ worker[w].left = {}
    /\ queue' = queue \ Taken(worker[w].notice)
    /\ worker' = [worker EXCEPT ![w] = Idle]
    /\ UNCHANGED <<vars, sent, failures, messages, due>>

(* The mail is refused, something is thrown, or the process ends before it *)
(* commits.                                                                *)
Fail(w) ==
    /\ worker[w].stage # "idle" /\ BagCardinality(failures) < MaxFailures
    /\ failures' = failures (+) SetToBag({worker[w].notice})
    /\ worker' = [worker EXCEPT ![w] = Idle]
    /\ UNCHANGED <<vars, queue, sent, messages, due>>

NoticesNext ==
    \/ \E p \in Process :
          \/ (Begin(p) \/ Rollback(p)) /\ UNCHANGED told
          \/ \E c \in Calls, copies \in 1..2 : Change(p, c, copies)
    \/ \E w \in Worker : TakeRequest(w) \/ Gather(w) \/ Send(w) \/ Finish(w) \/ Fail(w)

NoticesSpec == NoticesInit /\ [][NoticesNext]_allVars

-----------------------------------------------------------------------------
(* What changed before the event did so in transactions that were older,   *)
(* and what changed after it in younger ones.                              *)
InTurn(n) ==
    LET t == TimeOfEvent(db, n) IN
    /\ \A k \in DOMAIN db.history :
          IF k <= due[n].last THEN db.history[k].from <= t ELSE t < db.history[k].from
    /\ \A i \in DOMAIN db.registry \ due[n].erased :
          db.registry[i].erased # None => t < db.registry[i].erased

(* A notice that leaves the queue has been mailed to everybody whom the    *)
(* change concerned, at the addresses of that time, and tells the values   *)
(* from before and after the change, whatever has happened to them since;  *)
(* unless it showed no change.                                             *)
NoticeReachesConcerned ==
    [][\A w \in Worker : Finish(w) =>
          LET n == worker[w].notice IN
          /\ worker[w].content = due[n].content
          /\ HasChanges(n, due[n].content) /\ InTurn(n) =>
                \A x \in due[n].to : x[2] # None => BagIn(<<n, x[2]>>, sent)]_allVars

Copies(m, bag) == IF BagIn(m, bag) THEN bag[m] ELSE 0

(* Nobody gets a notice twice unless an attempt failed, however many       *)
(* workers there are and however often it was enqueued.                    *)
MailedTwiceAfterFailure ==
    \A m \in DOMAIN sent : Copies(m, sent) <= 1 + Copies(m[1], failures)

(* A notice cannot be gathered, and stays in the queue for ever, only when *)
(* the nsset or keyset was registered by a transaction that began after    *)
(* that of the change, or erased by one that began before it.              *)
UnsentWasOutOfTurn ==
    \A row \in queue : LET n == row.notice IN
        CanBeGathered(db, n)
        \/ \E i \in Exchanged(db, n, "nsset") \cup Exchanged(db, n, "keyset") :
               LET t == TimeOfEvent(db, n)
                   r == db.registry[i]
               IN t < r.created \/ (r.erased # None /\ r.erased < t)

(* Poll messages go to those whom the change concerns as the tables are    *)
(* when it is made: the registrar who loses an object, and after an update *)
(* of a contact those of its domains, but not the one who made it.         *)
PollReachesConcerned ==
    [][\A p \in Process : \A c \in Calls :
          Change(p, c, 1) /\ c.kind \in {"transfer", "update"} /\ c.type \in {"contact", "domain"} =>
              LET id == IdOf(db, c.type, c.name)
                  holder(i) == {r.clid : r \in Rows(db, "object", i)}
                  domains == {r.id : r \in {x \in db.live["domain"] : x.registrant = id}
                                            \cup {x \in db.live["domain_contact_map"] : x.contact = id}}
                  got == {m.clid : m \in {x \in messages' : x.notice.h = db'.registry[id].historyid}}
              IN /\ c.kind = "transfer" => got = holder(id)
                 /\ c.kind = "update" /\ c.type = "contact"
                    /\ (\A k \in DOMAIN db.history : db.history[k].from <= stamp[p])
                    /\ (\A i \in DOMAIN db.registry : db.registry[i].erased # None
                                                     => db.registry[i].erased <= stamp[p])
                    => got = (holder(id) \ {c.registrar})
                             \cup ((UNION {holder(i) : i \in domains}) \ holder(id))]_allVars
=============================================================================
