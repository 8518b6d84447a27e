---------------------------- MODULE ObjectHistory ----------------------------
(***************************************************************************)
(* Objects and their versions over time.  Transactions of several callers  *)
(* begin at distinct times and take effect in another order; each version  *)
(* is stamped with the time at which its transaction began.                *)
(***************************************************************************)
EXTENDS ContactMerge

CONSTANTS Calls,    \* what callers may ask for
          Start,    \* a sequence of calls made before
          Process,  \* callers
          MaxTime   \* the last instant of the clock

ASSUME NullIsNoTime == None \notin Nat

ASSUME KeepIsNotNull == Keep # None

ASSUME CallsKnown ==
    /\ \A c \in Calls : Call(c) \/ TwoContactsCall(c)
    /\ Start \in Seq(Range(Start)) /\ \A n \in DOMAIN Start : Call(Start[n])

VARIABLES db,     \* the tables
          stamp,  \* stamp[p]: when the transaction of p began, or None
          clock

vars == <<db, stamp, clock>>

Types == {"contact", "nsset", "keyset", "domain"}

(* What the operations make of an empty database in the instants 0, 1, ... *)
After[n \in 0..Len(Start)] ==
    IF n = 0 THEN EmptyDb ELSE Performed(After[n - 1], Start[n], n - 1)

ASSUME StartSucceeds == \A n \in DOMAIN Start : Fits(After[n - 1], Start[n])

Init ==
    /\ db = After[Len(Start)]
    /\ stamp = [p \in Process |-> None]
    /\ clock = Len(Start)

Begin(p) ==
    /\ stamp[p] = None /\ clock < MaxTime
    /\ stamp' = [stamp EXCEPT ![p] = clock]
    /\ clock' = clock + 1
    /\ UNCHANGED db

(* An operation and the commit of its transaction                          *)
Perform(p, c) ==
    /\ stamp[p] # None /\ MayPerform(db, c)
    /\ db' = Done(db, c, stamp[p])
    /\ stamp' = [stamp EXCEPT ![p] = None]
    /\ UNCHANGED clock

(* An operation that throws, or a caller that gives up                     *)
Rollback(p) ==
    /\ stamp[p] # None
    /\ stamp' = [stamp EXCEPT ![p] = None]
    /\ UNCHANGED <<db, clock>>

Next == \E p \in Process : Begin(p) \/ Rollback(p) \/ \E c \in Calls : Perform(p, c)

Spec == Init /\ [][Next]_vars

-----------------------------------------------------------------------------
Ids == DOMAIN db.registry
Live(id) == db.registry[id].erased = None

(* Every version was written by a transaction that began after that of the *)
(* version before it: not an older one, nor the same (a merge may update a *)
(* domain twice).                                                          *)
InOrder(id) ==
    \A h \in VersionsOf(db, id) :
        db.history[h].to # None => db.history[h].from < db.history[h].to

(* A name was registered each time later than the time before.             *)
HoldersInOrder(type, name) ==
    \A i, j \in HandleHistory(db, type, name) :
        i < j => db.registry[i].created < db.registry[j].created

(* The version that is current shows the object as it is, in every table,  *)
(* whatever operation made it.                                             *)
CurrentVersionIsLive ==
    \A id \in Ids : Live(id) =>
        /\ Cardinality(Info(db, id)) = 1
        /\ InfoHistory(db, db.registry[id].historyid) = Info(db, id)

(* What a version shows never changes, also when a contact it names is     *)
(* erased or its name is registered again.                                 *)
VersionsAreKept ==
    [][\A h \in DOMAIN db.history : InfoHistory(db', h) = InfoHistory(db, h)]_vars

(* The versions of an object lead from one to the next in the order of     *)
(* commits, each begins when the one before ends, and only the last one of *)
(* an object that is registered is open.                                   *)
HistoryIsAChain ==
    \A id \in Ids : \A h \in VersionsOf(db, id) :
        LET v == db.history[h] IN
        IF h = db.registry[id].historyid
        THEN v.next = None /\ v.to = db.registry[id].erased
        ELSE /\ v.next \in VersionsOf(db, id) /\ v.next > h /\ v.to = db.history[v.next].from
             /\ \A k \in VersionsOf(db, id) : ~(h < k /\ k < v.next)

(* A timeline between two limits, read record by record, tells at each     *)
(* instant the version that was valid, and is open for an object that is   *)
(* registered, if its versions were written in order.                      *)
TimelineTellsVersions ==
    \A id \in Ids : InOrder(id) =>
        \A lower, upper \in {None} \cup db.registry[id].created..clock :
            LET line == DataHistory(db, id, lower, upper) IN
            /\ (upper = None /\ line # {}) => EndOfTimeline(db, line) = db.registry[id].erased
            /\ \A t \in db.registry[id].created..clock : \A h \in VersionsOf(db, id) :
                  /\ lower # None => lower <= t
                  /\ upper # None => t <= upper
                  /\ db.history[h].from <= t /\ (db.history[h].to # None => t < db.history[h].to)
                  => {k \in line : db.history[k].from <= t} # {} /\ ReadAt(db, line, t) = h

(* The groups of duplicates that are offered for a merge can be merged, by *)
(* the comparison that the merge makes itself, and the filters select one  *)
(* contact of each group.                                                  *)
DuplicatesCanMerge ==
    \A registrar \in {None} \cup {r.clid : r \in db.live["object"]} :
        \A names \in FindContactDuplicates(db, registrar, {}) :
            LET chosen == MergeContactSelection(db, names, Filters) IN
            /\ Cardinality(chosen) = 1 /\ chosen \subseteq names
            /\ \A m, n \in names :
                  ~ContactsDiffer(db, IdOf(db, "contact", m), IdOf(db, "contact", n))

(* The mails about merges name each merged contact once, also when it was  *)
(* merged into one that was merged in its turn, and all that it was linked *)
(* to; a contact that was merged gets none.  They have addresses if all of *)
(* those that they go to are there still.                                  *)
MailsTellMerges ==
    LET mails == MergeContactEmailNotificationData(db.merged) IN
    /\ \A m \in mails : \A o \in Range(db.merged) : m.destination # o.source
    /\ (\A m \in mails : Live(m.destination)) <=> MergeContactNotificationEmailAddr(db, mails) # {}
    /\ \A o \in Range(db.merged) : \E m \in mails :
          /\ \A n \in mails : o.source \in n.removed <=> n = m
          /\ o.update_domain_registrant \subseteq m.registrant
          /\ o.update_domain_admin_contact \subseteq m.admin
          /\ o.update_nsset_tech_contact \subseteq m.nssets
          /\ o.update_keyset_tech_contact \subseteq m.keysets

(* Look-ups by what an object refers to find the objects whose data name   *)
(* it.  The holder of a name is the last of its history, and a name that   *)
(* is available is no longer protected for an earlier holder, unless it    *)
(* was registered by a transaction older than that of an earlier holder.   *)
(* What is asked about merges agrees with what they do.                    *)
LookUpsAgree ==
    LET of(type) == {id \in Ids : Live(id) /\ db.registry[id].type = type}
        one(id)  == CHOOSE i \in Info(db, id) : TRUE
    IN \A name \in {db.registry[i].name : i \in Ids} :
        /\ \A type \in Types : HoldersInOrder(type, name) =>
              /\ Exists(db, type, name) => Live(LastHolder(db, type, name))
              /\ Registrability(db, type, name, clock) = "available" =>
                    \A i \in HandleHistory(db, type, name) :
                        db.registry[i].erased + ProtectionPeriod <= clock
        /\ DomainsOfRegistrant(db, name) = {id \in of("domain") : one(id).registrant = name}
        /\ DomainsOfAdminContact(db, name) = {id \in of("domain") : name \in one(id).contacts}
        /\ DomainsOfNsset(db, name) = {id \in of("domain") : one(id).nsset = name}
        /\ DomainsOfKeyset(db, name) = {id \in of("domain") : one(id).keyset = name}
        /\ NssetsOfTechContact(db, name) = {id \in of("nsset") : name \in one(id).contacts}
        /\ KeysetsOfTechContact(db, name) = {id \in of("keyset") : name \in one(id).contacts}
        /\ \A id \in of("nsset") : \A f \in DOMAIN one(id).hosts : id \in NssetsOfHost(db, f)
        /\ DuplicatesCanMerge /\ MailsTellMerges

(* The data of a contact does not change under the state that says that    *)
(* its verification passed or failed: whoever changes it, cancels the      *)
(* state, and what is disclosed does not matter.                           *)
VerifiedDataStays ==
    [][\A f \in {s \in db.states \cap db'.states : s.state \in FinalStates} :
          LET values(d) == {r.value : r \in Rows(d, "contact", f.id)} IN
          Live(f.id) /\ Live(f.id)' => values(db) = values(db')]_vars

(* The fields of the data that an operation is asked to change             *)
Asked(c) ==
    {"update", "upid"} \cup
    CASE c.type = "contact" -> {"value", "disclose", "addresses"}
      [] c.type = "nsset" -> {"level"} \cup (IF c.add \cup c.rem = {} THEN {} ELSE {"contacts"})
                             \cup (IF c.put = {} /\ c.drop = {} THEN {} ELSE {"hosts"})
      [] c.type = "keyset" -> (IF c.add \cup c.rem = {} THEN {} ELSE {"contacts"})
                              \cup (IF c.put = {} /\ c.drop = {} THEN {} ELSE {"keys"})
      [] c.type = "domain" -> {"exdate"} \cup (IF c.add \cup c.rem = {} THEN {} ELSE {"contacts"})
                              \cup (IF c.put = {} THEN {} ELSE {"enum"})
                              \cup {f \in {"registrant", "nsset", "keyset"} : c[f] # Keep}

Before(id) == CHOOSE i \in InfoHistory(db', db.registry[id].historyid) : TRUE
Now(id)    == CHOOSE i \in InfoHistory(db', db'.registry[id].historyid) : TRUE

(* What is added or removed shows in the difference to the version before, *)
(* and nothing shows that was not asked for.                               *)
UpdateShows(c) ==
    LET id == IdOf(db, c.type, c.name)
        diff == Diff(c.type, Before(id), Now(id))
    IN /\ diff \subseteq Asked(c)
       /\ c.type # "contact" /\ c.add # c.rem => "contacts" \in diff

(* After a merge, what named the source names the destination, and there   *)
(* is no other change; a state moves to data that are alike only.          *)
MergeShows(c) ==
    LET o == MergeContactOutput(db, c)
        linked == o.update_domain_registrant \cup o.update_domain_admin_contact
                  \cup o.update_nsset_tech_contact \cup o.update_keyset_tech_contact
        moved(name) == IF name = c.name THEN Destination(c) ELSE name
        diff(id) == Diff(db.registry[id].type, Before(id), Now(id))
    IN /\ linked \cup {o.destination} =
              {id \in Ids : db'.registry[id].historyid # db.registry[id].historyid}
       /\ db'.registry[o.source].erased # None /\ diff(o.destination) \subseteq {"update", "upid"}
       /\ \A id \in linked :
             /\ diff(id) \subseteq {"update", "upid", "registrant", "contacts"}
             /\ Now(id).contacts = {moved(name) : name \in Before(id).contacts}
             /\ db.registry[id].type = "domain" =>
                    Now(id).registrant = moved(Before(id).registrant)
       /\ db'.states # db.states => SameValues(db, o.source, o.destination)

(* An update changes what it was asked to change, a merge who is named.    *)
DiffShowsUpdate ==
    [][\A p \in Process : \A c \in Calls :
          Perform(p, c) => /\ c.kind = "update" => UpdateShows(c)
                           /\ c.kind = "merge" => MergeShows(c)]_vars
=============================================================================
